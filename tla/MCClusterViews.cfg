CONSTANTS
    Namespaces = {"n1", "n2"}
    Names = {"red", "blue"}
    Terms = {"red", "blue", "team"}
    Searches <- MCSearches
    Machines = {"m1", "m2"}
    Kinds = {"AWSCluster", "AWSManagedCluster"}
    Starts <- MCStarts
    MaxChanges = 2
SPECIFICATION Spec
INVARIANTS
    TypeOK
    HealthWasSeen
    SummaryIsOfItsCluster
    ListIsComplete
    LabelAnswersMatch
PROPERTIES
    EveryCallIsAnswered
CHECK_DEADLOCK FALSE

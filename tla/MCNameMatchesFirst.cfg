CONSTANTS
    Namespaces = {"n1", "n2"}
    Names = {"red", "blue"}
    Terms = {"red", "blue", "team"}
    Searches <- MCSearches
    Machines = {"m1", "m2"}
    Kinds = {"AWSCluster", "AWSManagedCluster"}
    Starts <- MCOneMatch
    MaxChanges = 0
SPECIFICATION Spec
INVARIANT
    NameMatchesFirst
CHECK_DEADLOCK FALSE

CONSTANTS
    Clusters = {"red", "blue"}
    Paths = {p1, p2}
    NoPath = NoPath
    Calls = {c1, c2}
    Configs <- MCConfigs
    Policies <- MCPolicies
    MaxRuns = 2
SPECIFICATION Spec
INVARIANTS
    TypeOK
    ChildSeesItsCluster
    PolicyBoundsReads
    FilesAreAccountedFor
    StoreReleased
PROPERTIES
    GracefulStopCutsNothing
    SignalEnds
CHECK_DEADLOCK FALSE

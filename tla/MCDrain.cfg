CONSTANTS
    Names = {p1, p2}
    PodKinds = {"mirror", "daemon", "plain", "bare", "local", "bareLocal"}
    Policies <- MCPolicies
    CallOptions <- MCOptions
    MaxUid = 3
    MaxRev = 3
SPECIFICATION Spec
CONSTRAINT TwoPodsOrOne
INVARIANTS
    TypeOK
    SuccessMeansGone
    DrainedMeansEmpty
    NoUnacceptedLoss
PROPERTIES
    DrainEnds
CHECK_DEADLOCK FALSE

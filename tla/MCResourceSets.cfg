CONSTANTS
    ConfigMaps = {"configmap"}
    Secrets = {"secret"}
    Sets = {"set"}
    Callers = {c1, c2}
    MaxResources = 2
    MaxData = 1
    MaxRev = 2
SPECIFICATION Spec
SYMMETRY CallerSymmetry
INVARIANTS
    TypeOK
PROPERTIES
    ReadOnlyNeverWrites
    SetComesLast
    MarkersSurvive
CHECK_DEADLOCK FALSE

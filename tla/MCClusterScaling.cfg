CONSTANTS
    MDs = {"md", "standalone"}
    Generated = {"md"}
    Callers = {c1, c2}
    MaxVal = 2
    MaxBegun = 2
SPECIFICATION Spec
INVARIANTS
    TypeOK
PROPERTIES
    GuardHoldsAtWrite
    ControlPlaneWrittenFirst
    SuccessIsComplete
    ScaleSticks
CHECK_DEADLOCK FALSE

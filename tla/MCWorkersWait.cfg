CONSTANTS
    MDs = {"md"}
    Generated = {"md"}
    Callers = {c1}
    MaxVal = 2
    MaxBegun = 1
SPECIFICATION Spec
PROPERTY WorkersWaitForControlPlane
CHECK_DEADLOCK FALSE

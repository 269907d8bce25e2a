CONSTANTS
    Clusters = {"cluster"}
    Machines = {"machine"}
    MachineDeployments = {"md"}
    Callers = {c1, c2}
    MaxFields = 1
    MaxVal = 1
    MaxRev = 3
SPECIFICATION Spec
CONSTRAINT OneKindInUse
SYMMETRY CallerSymmetry
INVARIANTS
    TypeOK
    ChecksStayValid
    UnchangedIsSafeToDelete
PROPERTIES
    ReadOnlyNeverWrites
    GuardHoldsAtUpdate
    NoLostUpdate
    ReadyOnlySinceRead
    ImplementsAtomicWrites
CHECK_DEADLOCK FALSE

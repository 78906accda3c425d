CONSTANTS
    MaxProcs = 3
    MaxCPU = 3
    MaxPeriod = 4
SPECIFICATION Spec
INVARIANTS
    CopyAgrees
    NeverOverfull
    PrintedOnce
PROPERTIES
    ImplementsPolicy
CHECK_DEADLOCK FALSE

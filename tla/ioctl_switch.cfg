CONSTANTS
    Nobody = Nobody
    Tasks = {t1, t2}
    Quanta = {1, 2}
    SCULL_QUANTUM = 4000
    UserFaults = TRUE
    AllocFails = TRUE
SPECIFICATION Spec
PROPERTIES
    SwitchIsAtomic

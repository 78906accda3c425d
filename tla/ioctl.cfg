CONSTANTS
    Nobody = Nobody
    Main = main
    w1 = w1
    w2 = w2
    Workers <- TwoWorkers
    Tasks <- AllTasks
    Quanta = {1}
    SCULL_QUANTUM = 4000
    UserFaults = FALSE
    AllocFails = TRUE
    SpawnFails = TRUE
SPECIFICATION ProgramSpec
INVARIANTS
    TypeOK
    TasksUnique
    NoLeak
    ServedIsListed
    PrintedIsListed
    WorkersEndFirst
PROPERTIES
    ProgramEnds
\* A program that joins a thread it never created may hang for ever.
CHECK_DEADLOCK FALSE

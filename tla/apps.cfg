CONSTANTS
    Nobody = Nobody
    Readers = {c1, c2}
    Writers = {p1, p2}
    FifoSize = 1
    ElemSz = 1
    ReadCounts = {1}
    WriteCounts = {2}
    Msgs = {7}
    Junk <- WildWords
    Signals = TRUE
    ReadMayFail = TRUE
    WriteMayFail = TRUE
    EndBound = 4
    ForkMayFail = TRUE
    MAX_CONCURRENCY = 2
SPECIFICATION AppsSpec
INVARIANTS
    TypeOK
    MutualExclusion
    TicketConservation
    ParentsOutliveChildren
    CallsKeepFifo

    
    
\* Consumers without a producer, and producers without room, block for ever.
CHECK_DEADLOCK FALSE

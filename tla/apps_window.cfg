CONSTANTS
    Nobody = Nobody
    Readers = {c1}
    Writers = {p1}
    FifoSize = 1
    ElemSz = 1
    ReadCounts = {1}
    WriteCounts = {1}
    Msgs = {7}
    Junk = {0}
    Signals = FALSE
    ReadMayFail = FALSE
    WriteMayFail = FALSE
    EndBound = 2
    ForkMayFail = FALSE
    MAX_CONCURRENCY = 1
SPECIFICATION AppsSpec
INVARIANT
    CallsFindFifo
CHECK_DEADLOCK FALSE

CONSTANTS
    Nobody = Nobody
    Readers = {r1}
    Writers = {w1, w2}
    FifoSize = 2
    ElemSz = 1
    ReadCounts = {1}
    WriteCounts = {1}
    Msgs = {7}
    Junk = {0}
    Signals = FALSE
    ReadMayFail = FALSE
    WriteMayFail = FALSE
    EndBound = 4
SPECIFICATION Spec
PROPERTIES
    StoreSparesUnread

CONSTANTS
    Nobody = Nobody
    Readers = {r1, r2}
    Writers = {w1}
    FifoSize = 2
    ElemSz = 2
    ReadCounts = {2}
    WriteCounts = {1, 2}
    Msgs = {7, 8}
    Junk = {0}
    Signals = TRUE
    ReadMayFail = TRUE
    WriteMayFail = FALSE
    EndBound = 6
SPECIFICATION ReadableWrites
SYMMETRY Symmetric
INVARIANTS
    RingAgreement
    CopyTargetsFree
PROPERTIES
    ImplementsFifo

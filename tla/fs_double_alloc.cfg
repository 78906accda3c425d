CONSTANTS
    NoName = NoName
    Home = d
    Names = {d, f}
    Region = 4
    PerBlock = 2
    NBlocks = 11
    N_DIRECT = 1
    Pointers = 1
    Entries = 2
    BLOCK_SIZE = 1
    Units = {1}
    Reach = 1
    MakeDirs = FALSE
    TypeBits = FALSE
    Crashes = FALSE
SPECIFICATION Spec
INVARIANTS
    NoSharedBlock

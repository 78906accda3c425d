CONSTANTS
    NoName = NoName
    f = f
    g = g
    Home = d
    Names = {d, f, g}
    Region = 4
    PerBlock = 2
    NBlocks = 9
    N_DIRECT = 1
    Pointers = 1
    Entries = 2
    BLOCK_SIZE = 1
    Units = {1}
    Reach = 0
    MakeDirs = TRUE
    TypeBits = TRUE
    Crashes = TRUE
SPECIFICATION Spec
SYMMETRY Alike
INVARIANTS
    TypeOK
    EntriesLive
    OneName
    DirBlocksMarked
\* The model ends when the superblock is lost.
CHECK_DEADLOCK FALSE

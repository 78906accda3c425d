CONSTANTS
    NoName = NoName
    Home = d
    Names = {d, f, g}
    Region = 4
    PerBlock = 2
    NBlocks = 15
    N_DIRECT = 1
    Pointers = 1
    Entries = 2
    BLOCK_SIZE = 2
    Units = {1, 2, 3, 4, 5, 6, 7, 8, 9, 10}
    Reach = 0
    MakeDirs = FALSE
    TypeBits = FALSE
    Crashes = FALSE
    NoLocal = NoLocal
    short = short
    long = long
    Locals <- TwoLocals
    Contents <- TwoContents
SPECIFICATION ShellSpec
INVARIANTS
    BlocksExclusive
    NoBlockLost
    DeviceCurrent
    FilesHoldWhatWasPut
    GetsWholeBlocks
PROPERTIES
    ImplementsNamespace
    CommandsEnd
\* The model ends when the device is full.
CHECK_DEADLOCK FALSE

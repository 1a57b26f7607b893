SPECIFICATION MCSpec
CONSTANTS
    Inums <- MCInums
    NumBlocks = 4
    EPB = 3
    MaxFileBlocks = 2
    Users = {"root", "u"}
    Paths <- MCPaths
    LongNames = {"long"}
    Lengths = {0, 2, 3}
    Modes <- MCModes
    MaxOps = 4
INVARIANTS
    TypeOK
    EntriesLive
    OneName
    NamesUnique
    BlocksOwned
    CacheBehindDisk
    FreesOnce
CHECK_DEADLOCK FALSE
CONSTRAINT Finite

SPECIFICATION MCSpec
CONSTANTS
    reg = reg
    dir = dir
    t = t
    NoFile = NoFile
    Files <- MCFiles
    Dirs <- MCDirs
    Text <- MCText
    Payload <- MCPayload
    Sizes <- MCSizes
    NumDataBlocks = 9
    MaxOps = 5
    BLOCKSIZE = 2
    DIRECT = 1
    PERIND = 2
INVARIANTS
    TypeOK
    Allocated
    NoSharing
    NoLeak
PROPERTY
    ImplementsFileArrays
CHECK_DEADLOCK FALSE
CONSTRAINT NotTorn

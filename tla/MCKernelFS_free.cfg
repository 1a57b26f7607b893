SPECIFICATION MCSpec
CONSTANTS
    Inums <- MCInums
    NumBlocks = 4
    EPB = 2
    MaxFileBlocks = 2
    Users = {"root", "u"}
    Paths <- MCPaths
    LongNames = {"long"}
    Lengths = {0, 2, 3}
    Modes <- MCModes
    MaxOps = 3
PROPERTY HandsBlocksBack
CHECK_DEADLOCK FALSE
CONSTRAINT Finite

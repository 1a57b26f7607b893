SPECIFICATION MCSpec
CONSTANTS
    Conns = {c1}
    Users = {u1}
    NoUser = NoUser
    NoProc = NoProc
    MaxKeys = 6
INVARIANT ShellReadsRaw
CHECK_DEADLOCK FALSE

SPECIFICATION MCSpec
CONSTANTS
    Conns = {c1}
    Users = {u1}
    NoUser = NoUser
    NoProc = NoProc
    MaxKeys = 8
INVARIANTS
    TypeOK
    ForegroundReads
    PasswordMasked
PROPERTIES
    HangUpEnds
    InterruptEnds
CHECK_DEADLOCK FALSE

SPECIFICATION MCSpec
CONSTANTS
    Conns = {c1, c2}
    Users = {u1, u2}
    NoUser = NoUser
    NoProc = NoProc
    MaxKeys = 4
INVARIANT RunsAsLogin
CHECK_DEADLOCK FALSE

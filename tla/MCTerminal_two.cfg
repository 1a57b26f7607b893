SPECIFICATION MCSpec
CONSTANTS
    Conns = {c1, c2}
    Users = {u1}
    NoUser = NoUser
    NoProc = NoProc
    MaxKeys = 4
INVARIANTS
    ProcessTable
    SignalsStayHome
CHECK_DEADLOCK FALSE

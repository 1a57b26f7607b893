SPECIFICATION Spec
CONSTANTS
    u1 = u1
    u2 = u2
    a1 = a1
    a2 = a2
    l1 = l1
    l2 = l2
    NoName = NoName
    UserNames <- MCUserNames
    Prefix <- MCPrefix
    Inums <- MCInums
    Adders <- MCAdders
    Logins <- MCLogins
    MaxChanges = 2
    MaxRemovals = 1
    MaxDeaths = 1
INVARIANTS
    TypeOK
    NamesOnce
    AckedStay
    

    
CONSTRAINT
    OneKind
CHECK_DEADLOCK FALSE

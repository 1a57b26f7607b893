SPECIFICATION Spec
CONSTANTS
    n1 = n1
    n2 = n2
    i1 = i1
    i2 = i2
    a1 = a1
    a2 = a2
    c1 = c1
    Loader = Loader
    None = None
    Names <- MCNames
    IPs <- MCIPs
    Admins <- MCAdmins
    Clients <- MCClients
    MaxImages = 6
    MaxDeaths = 1
    MaxCommands = 2
INVARIANTS
    TypeOK
    OneNodePerName
    DiskInPlace
    Saved
    Survives
    BootsComplete
CHECK_DEADLOCK FALSE
PROPERTIES
    NeverReformatted
    Answered

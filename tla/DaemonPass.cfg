SPECIFICATION Spec
CONSTANTS
    p1 = p1
    p2 = p2
    c1 = c1
    c2 = c2
    None = None
    Leftover = Leftover
    Processes <- Two
    Clients <- BothClients
    OtherVersion <- Second
    Silent <- OneClient
    MaxAttempts = 2
    MaxFaults = 1
INVARIANTS
    LockKept
    SoleDaemon
    SocketKept
    IdleTracksClients
PROPERTIES
    LiveClientKept
    AbandonedDaemonsStop
CHECK_DEADLOCK FALSE

CONSTANTS
    g1 = g1
    g2 = g2
    g3 = g3
    a1 = a1
    a2 = a2
    a3 = a3
    Guids = {g1, g2, g3}
    Addrs = {a1, a2, a3}
    NoAddr = NoAddr
    Servers = {1, 2}
    Requests = {1, 2, 3}
    None = 0
    MaxStaged = 2
    Polite = TRUE
SPECIFICATION Spec
INVARIANTS
    OffersAreConnected
    StaleAreDisconnected
    ServerListens
    NextRequestCanBeSent
    RepliesReachTheirRequest
PROPERTIES
    WaitingEnds
CHECK_DEADLOCK FALSE

CONSTANTS
    g1 = g1
    g2 = g2
    t1 = t1
    a1 = a1
    a2 = a2
    a3 = a3
    r1 = r1
    Guids = {g1, g2}
    Topics = {t1}
    AllTopics = AllTopics
    Addrs = {a1}
    OffNetwork = {}
    None = None
    Refs = {r1}
    Serving = {g2}
    Observing = {g1}
    QueryInterval = 1
    QueryIntervalMax = 1
    SearchGroup = 4
    InboxSize = 3
    Loopback = FALSE
    Duplication = FALSE
SPECIFICATION FairSpec
PROPERTIES
    ObservedTopicIsFound
CHECK_DEADLOCK FALSE

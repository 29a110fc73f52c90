CONSTANTS
    p1 = p1
    p2 = p2
    x1 = x1
    x2 = x2
    NoTopic = NoTopic
    Guids = {p1, p2}
    Addresses = {x1, x2}
    IntervalMax = 3
    MaxPackets = 4
SPECIFICATION Spec
INVARIANTS
    LateTimeoutImpossible
    SentAtMostOnce
    MissingSearched
PROPERTIES
    OneOutcome
    TimeoutEnds
CHECK_DEADLOCK FALSE

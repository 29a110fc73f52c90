CONSTANTS
    Builders = {m1, m2}
    PoolBuffers = {b1, b2}
    OsBuffers = {o1, o2}
    NoBuffer = none
    Types = {1, 2}
    NoType = 0
    MaxSegments = 2
    SendHighWaterMark = 1
    Filters = {1, 2}
    SubscriberType = 1
    RawBuffers <- MCRawBuffers
    MaxMessages = 2
    MaxCalls = 5
SPECIFICATION Spec
INVARIANTS
    BuffersExclusive
    LeaksOnlyByMove
    ReadsWhatWasBuilt
    PartsDoNotMix
PROPERTIES
    InboxDrains
CHECK_DEADLOCK FALSE

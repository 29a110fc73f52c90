CONSTANTS
    BufferSize = 2
    PoolBuffers = {b1, b2}
    OsBuffer = os
    HighWaterMarks = {1, 3}
    Sizes = {0, 3}
    MaxMessages = 2
    Peers = {p1, p2}
    NoPeer = nobody
    Lengths = {4, 8}
SPECIFICATION Spec
INVARIANTS
    WireInOrder
    SendBuffersAccounted
    AlwaysListening
    AnswersTheSender
PROPERTIES
    QueueDrains

CONSTANTS
    node = node
    zmq1 = zmq1
    zmq2 = zmq2
    os1 = os1
    os2 = os2
    BufferCount = 3
    Threads = {node, zmq1, zmq2}
    Allocator = node
    SingleThreaded = FALSE
    Reordering = {node}
    OsBuffers = {os1, os2}
    NullPtr = NullPtr
    NoThread = NoThread
SPECIFICATION Spec
INVARIANTS
    HandoutIsFresh
    BuffersAccounted
PROPERTIES
    ImplementsFreeList
SYMMETRY Symmetry

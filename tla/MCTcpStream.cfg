SPECIFICATION Spec
CONSTANTS
    Scripts <- MCScripts
    BufferCapacity = 5
    ChunkCap = 2
    MaxTransfer = 4
    SockCap = 3
    MaxFaults = 3
    Policies = {"exact", "greedy"}
INVARIANTS
    ReaderTrailsSent
    ExactStream
    EofIsEnd
PROPERTY Delivered
CHECK_DEADLOCK FALSE

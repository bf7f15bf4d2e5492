CONSTANTS
    Clients = 2
    BurstLen = 1
    Blk = 2
    Slots = 2
    RespDepth = 1
    ReadDelay = 0
    WaitCycles = 3
    MaxRuns = 2
SPECIFICATION Spec
INVARIANTS
    BeatsInOrder
    VmeAssertions
    DoneMeansWritten
    ProfileAddsUp
PROPERTIES
    CallsReturn
CHECK_DEADLOCK FALSE

CONSTANTS
    Calls <- MCCalls
    Depth = 5
    MaxPushes = 4
    MaxSyncs = 2
SPECIFICATION Spec
INVARIANTS
    OpReadsItsUops
CHECK_DEADLOCK FALSE

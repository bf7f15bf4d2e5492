CONSTANTS
    Calls <- MCCalls
    Depth = 5
    MaxPushes = 4
    MaxSyncs = 2
SPECIFICATION Spec
INVARIANTS
    LoadCoversOp
    FittingBatchReadsItsUops
    SweepsWhatWasRecorded
CHECK_DEADLOCK FALSE

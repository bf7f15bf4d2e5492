CONSTANTS
    Limits = {8, 40}
    SerialModes = {FALSE}
    LoadMems = {"INP"}
    Ops = {"GEMM"}
    UopLoads = {TRUE}
    MaxCalls = 5
    MaxSyncs = 1
    Balanced = TRUE
SPECIFICATION Spec
INVARIANTS
    FinishAfterLastStore
    CutStreamsProgress
PROPERTIES
    RefinesTokenPipeline
    SyncReturns
CHECK_DEADLOCK FALSE

CONSTANTS
    Limits = {8}
    SerialModes = {FALSE}
    LoadMems = {"INP"}
    Ops = {"GEMM"}
    UopLoads = {TRUE}
    MaxCalls = 5
    MaxSyncs = 1
    Balanced = TRUE
SPECIFICATION Spec
PROPERTIES
    EverySyncReturns
CHECK_DEADLOCK FALSE

CONSTANTS
    Limits = {40}
    SerialModes = {TRUE, FALSE}
    LoadMems = {"INP", "ACC"}
    Ops = {"GEMM"}
    UopLoads = {TRUE}
    MaxCalls = 6
    MaxSyncs = 2
    Balanced = TRUE
SPECIFICATION HostSpec
INVARIANTS
    LaunchedStreamsRun
    RoutedAlike
    TokensAsAsked
CHECK_DEADLOCK FALSE

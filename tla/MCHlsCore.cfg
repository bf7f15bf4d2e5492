CONSTANTS
    AccBits = 8
    InpBits = 4
    ShrBits = 3
    Depth = 4
    InsnDepth = 2
    TokenDepth = 1
    MaxRounds = 1000
    MaxLaunches = 2
    SleepSuffices = TRUE
    DRAM <- MCDRAM
    Uops <- MCUops
    Streams <- MCStreams
SPECIFICATION Spec
INVARIANTS
    SameResult
    EveryRoundRunsSome
    Arithmetic
PROPERTIES
    RefinesTokenPipeline
    StreamsRun
CHECK_DEADLOCK FALSE

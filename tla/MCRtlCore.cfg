CONSTANTS
    Streams <- MCStreams
    Slots = 4
    MaxBurst = 2
    SemMax = 2
    MaxLaunches = 2
SPECIFICATION Spec
INVARIANTS
    FetchMemoryConsistent
    DispatchedInOrder
    FinishMeansIdle
PROPERTIES
    RefinesTokenPipeline
    LaunchFinishes
CHECK_DEADLOCK FALSE

CONSTANTS
    Streams <- MCStreams
SPECIFICATION Spec
INVARIANTS
    InOrder
    NoStuck
    NoMissedWake
PROPERTIES
    CleanReturn
    RunTerminates

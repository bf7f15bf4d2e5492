CONSTANTS
    MemSize = 9
    Alignment = 2
    Sizes = {1, 2, 3}
    Tag = {"a"}
    MaxSetups = 1
SPECIFICATION Spec
INVARIANTS
    ChunksTile
    Held
    ContentKept
    AllReleased
CHECK_DEADLOCK FALSE

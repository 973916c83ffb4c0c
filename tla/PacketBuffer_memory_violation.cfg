CONSTANTS
    Producers = {p1}
    MaxBlocks = 8
    ZipSize = 1
    RawSize = 2
    Packets = 1
    FileMax = 4
    FileIdMax = 4
    CleanupEvery = 2
    DestroyMin = 2
    Setups <- SpillSetups
SPECIFICATION Spec
INVARIANT MemoryBounded
CHECK_DEADLOCK FALSE

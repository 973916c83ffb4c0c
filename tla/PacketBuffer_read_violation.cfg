CONSTANTS
    Producers = {p1}
    MaxBlocks = 4
    ZipSize = 1
    RawSize = 2
    Packets = 1
    FileMax = 4
    FileIdMax = 4
    CleanupEvery = 2
    DestroyMin = 2
    Setups <- ReadFaultSetups
SPECIFICATION Spec
INVARIANT NoDangling
CHECK_DEADLOCK FALSE

CONSTANTS
    Producers = {p1, p2}
    MaxBlocks = 4
    ZipSize = 1
    RawSize = 2
    Packets = 2
    FileMax = 4
    FileIdMax = 3
    CleanupEvery = 2
    DestroyMin = 2
    Setups <- SafetySetups
SPECIFICATION Spec
SYMMETRY Symmetry
INVARIANTS TypeOK OneOwner AccountingExact PlainMemoryBounded DanglingOnlyByReadFault
INVARIANTS FilesServeBlocks DiskBounded
PROPERTY DeletedWhenUnused
CHECK_DEADLOCK FALSE

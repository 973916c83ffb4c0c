CONSTANTS
    Producers = {p1}
    MaxBlocks = 3
    ZipSize = 1
    RawSize = 2
    Packets = 1
    FileMax = 4
    FileIdMax = 3
    CleanupEvery = 1
    DestroyMin = 2
    Setups <- LiveSetups
SPECIFICATION FairSpec
PROPERTIES Served TrashEmptied StopsUnlessWaiting
CHECK_DEADLOCK FALSE

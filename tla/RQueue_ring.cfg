CONSTANTS
    Producers = {p1, p2}
    Consumers = {c1}
    Items = {i1, i2}
    Length = 3
    PushLock = TRUE
    PopLock = FALSE
    NoItem = NoItem
    NoThread = NoThread
SPECIFICATION FairSpec
INVARIANTS IndInv NoSlotRace SizeExactAtRest
PROPERTIES RefinesFifo Drains WaitEnds

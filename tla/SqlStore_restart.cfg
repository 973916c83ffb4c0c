CONSTANTS
    SavePeriod = 1
    LoadPeriod = 1
    ConcatLimit = 2
    StoreThreads = 2
    StoreThreadsSet = FALSE
    Setups <- MCSetups
    NextLimit = 2
    MaxQueries = 3
    MaxEvents = 4
SPECIFICATION FairSpec
INVARIANT TypeOK NoOvertaking StoredOnce
PROPERTY LossOnlyAtEnd CacheDrains ShutdownCompletes
CHECK_DEADLOCK FALSE

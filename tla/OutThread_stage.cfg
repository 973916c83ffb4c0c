SPECIFICATION FairSpec
CONSTANTS
    QRingLength = 2
    BatchLength = 3
    MaxPackets = 3
    MaxThreads = 2
    Hash <- MCHash
    Confs <- MCConfs
CHECK_DEADLOCK FALSE
INVARIANT TypeOK PacketsAccounted AnalysedOnce AnalysedBeforePassed SourceInOrder QuietBetweenBatches
PROPERTY StageIsOrderedPipe StageDrains StopCompletes ResizeCompletes

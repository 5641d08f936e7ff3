CONSTANT
    Configs <- Sequences
    Depths <- LookAheads
    MeThreads = 2
SPECIFICATION PipelineSpec
CHECK_DEADLOCK FALSE
INVARIANT RingHasRoom
INVARIANT WindowsAreWhole
INVARIANT TplReadsHeldReferences
PROPERTY EveryPictureIsCoded

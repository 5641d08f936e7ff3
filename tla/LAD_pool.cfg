CONSTANT
    Configs <- Sequences
    Depths <- NoLookAhead
    MeThreads = 2
SPECIFICATION PipelineSpec
CHECK_DEADLOCK FALSE
INVARIANT MinimumIsEnough

CONSTANT
    Videos <- Sequences
SPECIFICATION Spec
CHECK_DEADLOCK FALSE
INVARIANT TypeOK
INVARIANT OneStageAtATime
INVARIANT BitstreamInDecodeOrder
PROPERTY ImplementsOutputStream
PROPERTY StreamEnds

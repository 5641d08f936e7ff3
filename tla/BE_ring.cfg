CONSTANT
    Videos <- Sequences
SPECIFICATION Spec
CHECK_DEADLOCK FALSE
INVARIANT BitstreamInDecodeOrder

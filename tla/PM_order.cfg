CONSTANT
    Videos <- OrderVideos
SPECIFICATION FairSpec
CHECK_DEADLOCK FALSE
INVARIANT TypeOK
INVARIANT NothingStartableIsLeft
INVARIANT ConsecutiveIsExact
INVARIANT ReferencesAreKept
INVARIANT ListHasRoom
PROPERTY EveryPictureIsCoded

CONSTANT
    Configs <- Settings
SPECIFICATION Spec
CHECK_DEADLOCK FALSE
INVARIANT TypeOK
INVARIANT ShownInDisplayOrder
INVARIANT MiniGopsArriveWhole
PROPERTY NearestReferences
PROPERTY ReleasedWithItsLastSlot
PROPERTY CbrLayersAreDroppable

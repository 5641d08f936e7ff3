CONSTANTS
    Sources <- SmallSources
    Denoms <- SomeDenoms
SPECIFICATION Spec
INVARIANT TablesFit
INVARIANT SweepCodesTheSegment
INVARIANT RowsAreWalked
INVARIANT NeighboursAreAncestors

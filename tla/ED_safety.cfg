CONSTANTS
    NoTask = NoTask
    p1 = p1
    p2 = p2
    w1 = w1
    w2 = w2
    w3 = w3
    Pictures = {p1}
    Workers = {w1, w2, w3}
    Grids <- Deep
    AllowRecode = TRUE
    IsSuperres = TRUE
    MaxRounds = 1
SPECIFICATION Spec
SYMMETRY Symmetric
INVARIANT TypeOK
INVARIANT OneOwnerPerRow
INVARIANT ResetsAlone
PROPERTY ImplementsWavefront

CONSTANTS
    NoTask = NoTask
    p1 = p1
    p2 = p2
    w1 = w1
    w2 = w2
    w3 = w3
    Pictures = {p1, p2}
    Workers = {w1, w2, w3}
    Grids <- Small
    AllowRecode = TRUE
    IsSuperres = FALSE
    MaxRounds = 1
SPECIFICATION FairSpec
CHECK_DEADLOCK FALSE
PROPERTY EveryPictureLeaves

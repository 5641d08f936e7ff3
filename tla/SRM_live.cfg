CONSTANTS
    NULL = NULL
    o1 = o1
    o2 = o2
    o3 = o3
    p1 = p1
    p2 = p2
    c1 = c1
    c2 = c2
    h1 = h1
    h2 = h2
    Objects = {o1, o2}
    Producers = {p1}
    Consumers = {c1, c2}
    Holders = {}
    Pollers = {}
    Pinners = {}
    CanShutdown = TRUE
SPECIFICATION FairSpec
CHECK_DEADLOCK FALSE
INVARIANT NoNullPop
PROPERTY PostedIsReceived
PROPERTY QuitIsObeyed

CONSTANTS
    NULL = NULL
    o1 = o1
    o2 = o2
    o3 = o3
    p1 = p1
    p2 = p2
    c1 = c1
    c2 = c2
    h1 = h1
    h2 = h2
    Objects = {o1, o2, o3}
    Producers = {p1, p2}
    Consumers = {c1}
    Holders = {h1}
    Pollers = {c1}
    Pinners = {}
    CanShutdown = FALSE
SPECIFICATION Spec
SYMMETRY SymSafety
INVARIANT TypeOK
INVARIANT ObjectConservation
INVARIANT LiveCountAgrees
INVARIANT NoLostWakeup
PROPERTY ImplementsPool
PROPERTY ImplementsChannel

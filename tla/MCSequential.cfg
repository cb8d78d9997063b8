SPECIFICATION AllSpec
CONSTANTS
    e1 = e1
    e2 = e2
    e3 = e3
    k1 = k1
    k2 = k2
    k3 = k3
    k4 = k4
    k5 = k5
    v = v
    n1 = n1
    n2 = n2
    n3 = n3
    n4 = n4
    p1 = p1
    p2 = p2
    p3 = p3
    t1 = t1
    t2 = t2
    EventSources = {e1, e2, e3}
    Polled = {e1, e2}
    Priorities <- MCPriorities
    MaxSource = 3
    MaxCalls = 4
    Items = {e1, e2, e3}
    rank <- MCrank
    MaxLength = 7
    Threads = {t1, t2}
    Pages = {p1, p2, p3}
    PageSize = 2
    MinMagazineSize = 2
    Thresholds = {2}
    NULL = NULL
SYMMETRY Symmetric
CHECK_DEADLOCK FALSE
INVARIANTS PlacesAgree TableIsMap ListIsSequence
           TopIsLeast SortedStably ChunksConserved

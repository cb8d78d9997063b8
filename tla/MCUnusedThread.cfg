SPECIFICATION AllSpec
CONSTANTS
    Threads = {t1, t2, t3}
    Pools = {p1}
    Callers = {c1}
    Limits <- MCLimits
    IdleTimes = {0}
    MaxCalls = 1
    Marker = Marker
    None = None
    user = user
    definer = definer
    h1 = h1
    b1 = b1
    b2 = b2
    Sources = {user, definer}
    Headers = {h1}
    MayContain <- MCMayContain
    NoBlock = NoBlock
    MaxTime = 3
    MaxEdits = 2
SYMMETRY Symmetric
INVARIANTS PoolReachable LimitObeyed MiddleCurrent Specialised InterfacesPresent

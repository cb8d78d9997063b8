SPECIFICATION AllSpec
CONSTANTS
    Threads = {m1, m2, m3, m4}
    WordSize <- MCWordSize
    Refs = {r1, r2, r3}
    MaxLate = 2
    x = x
    y = y
    OnceThreads = {t1, t2, t3}
    Locations = {x, y}
    Onces = {y}
    inner <- MCinner
    PoolThreads = {t1, t2}
    Pools = {p1}
    Callers = {c1}
    Limits <- MCLimits
    IdleTimes = {0}
    MaxCalls = 1
    Marker = Marker
    Askers = {a, b}
    Makers = {c1}
    MayFail = TRUE
    MemThreads = {t1, t2}
    Addresses = {x, y}
    Devices = {d1, d2}
    None = None
    Parts = {"mutex", "object", "pool", "spawner", "memory", "once"}
INVARIANTS Exclusion NoLostWakeup InitialisedOnce FreedAtLastRef RecordsAlive ThreadGivenBack MemoryRegistered
PROPERTIES CallsReturn ImplementsLock Settles ImplementsGlobalPool AskersAnswered
CHECK_DEADLOCK FALSE

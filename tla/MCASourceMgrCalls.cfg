SPECIFICATION SafeSpec
CONSTANTS
    t1 = t1
    t2 = t2
    tm = tm
    idle = idle
    high = high
    fd = fd
    Threads = {t1, t2}
    Sources = {fd, idle, high}
    Wakeup = Wakeup
    NULL = NULL
    Priorities <- AllPriorities
    kind <- MCkind
    prio <- MCprio
    Calls <- OneLoop
    Concurrent = FALSE
    Interval = 1
    MaxTime = 0
    MaxCalls = 5
CHECK_DEADLOCK FALSE
INVARIANTS OwnerCounted WaiterWoken PendingRound SourceIsThere

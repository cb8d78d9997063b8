SPECIFICATION Spec
CONSTANTS
    t1 = t1
    t2 = t2
    tm = tm
    idle = idle
    high = high
    fd = fd
    Threads = {t1, t2}
    Sources = {tm, idle}
    Wakeup = Wakeup
    NULL = NULL
    Priorities <- AllPriorities
    kind <- MCkind
    prio <- MCprio
    Calls <- EveryLoop
    Concurrent = TRUE
    Interval = 1
    MaxTime = 1
    MaxCalls = 4
CHECK_DEADLOCK FALSE
INVARIANTS NoMissedWakeup
PROPERTIES QuitStops DueDispatched

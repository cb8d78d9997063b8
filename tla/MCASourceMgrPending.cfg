SPECIFICATION SafeSpec
CONSTANTS
    t1 = t1
    t2 = t2
    tm = tm
    idle = idle
    high = high
    fd = fd
    Threads = {t1, t2}
    Sources = {idle}
    Wakeup = Wakeup
    NULL = NULL
    Priorities <- AllPriorities
    kind <- MCkind
    prio <- MCprio
    Calls <- AskPending
    Concurrent = TRUE
    Interval = 1
    MaxTime = 0
    MaxCalls = 3
CHECK_DEADLOCK FALSE
PROPERTIES PendingOfOwner

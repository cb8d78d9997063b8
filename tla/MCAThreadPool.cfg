SPECIFICATION Spec
CONSTANTS
    low = low
    high = high
    Workers = {w1, w2, w3}
    Tasks = {low, high}
    MaxThreads <- AllLimits
    MaxChanges = 1
    MayFail = TRUE
    rank <- MCrank
    Owner = Owner
    Marker = Marker
    None = None
CHECK_DEADLOCK FALSE
INVARIANTS ThreadsCounted FreedOnce RunsTasksOnce GracefulFree
PROPERTIES TasksAreRun FreeCompletes

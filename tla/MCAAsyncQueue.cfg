SPECIFICATION Spec
CONSTANTS
    low = low
    high = high
    Threads = {t1, t2, t3}
    Items = {low, high}
    MaxLength = 3
    rank <- MCrank
    None = None
INVARIANTS WaitingCounted NoLostWakeup PopsInOrder
PROPERTIES ImplementsQueue

SPECIFICATION Spec
CONSTANTS
    a = a
    b = b
    c = c
    Sources = {a, b, c}
    Polled = {a, b}
    Priorities <- TwoPriorities
    MaxSource = 3
    MaxCalls = 5
    NULL = NULL
CHECK_DEADLOCK FALSE
INVARIANTS PollPlaceNoted

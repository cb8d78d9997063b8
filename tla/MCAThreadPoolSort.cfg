SPECIFICATION SafeSpec
CONSTANTS
    low = low
    high = high
    Workers = {w1, w2}
    Tasks = {low, high}
    MaxThreads <- TwoLimits
    MaxChanges = 2
    MayFail = FALSE
    rank <- MCrank
    Owner = Owner
    Marker = Marker
    None = None
CHECK_DEADLOCK FALSE
PROPERTIES BogusDataNotSorted

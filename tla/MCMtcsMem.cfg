SPECIFICATION Spec
CONSTANTS
    Threads = {t1, t2}
    Addresses = {x, y}
    Devices = {d1, d2}
    None = None
INVARIANTS AddressesNotRepeated
CHECK_DEADLOCK FALSE

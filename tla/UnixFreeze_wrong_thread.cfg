\* A late handler of a released occupant, and the entry's next one.
CONSTANTS
    Thr = {a, b}  Nobody = Nobody
SPECIFICATION Spec
INVARIANT FrozenIsAlwaysParked
CHECK_DEADLOCK FALSE

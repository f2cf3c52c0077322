\* release of an entry whose thread is frozen.
CONSTANTS
    Thr = {a, b}  Nobody = Nobody
SPECIFICATION Spec
PROPERTY ReleasedStaysParked
CHECK_DEADLOCK FALSE

CONSTANTS
    Reload = 2
    MaxReload = 10
    Delay = 3
    MaxTime = 30
SPECIFICATION Spec
INVARIANT NoTickDropped
CHECK_DEADLOCK FALSE

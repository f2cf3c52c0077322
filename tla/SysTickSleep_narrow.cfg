CONSTANTS
    Reload = 2
    MaxReload = 4
    Delay = 3
    MaxTime = 30
SPECIFICATION Spec
INVARIANT WindowEnds
CHECK_DEADLOCK FALSE

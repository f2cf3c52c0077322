CONSTANTS
    Reload = 2
    MaxReload = 10
    Delay = 3
    MaxTime = 30
SPECIFICATION Spec
INVARIANTS ClockNotAhead DroppedOnlyWhenTorn WindowEnds
CHECK_DEADLOCK FALSE

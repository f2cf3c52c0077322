CONSTANTS
    Period = 2
    Delay = 3
    MaxWindow = 4
    Wrap = 8
    MaxTime = 16
    None = None
SPECIFICATION Spec
INVARIANT ClockNotAhead
CHECK_DEADLOCK FALSE

CONSTANTS
    Period = 2
    Delay = 3
    MaxWindow = 4
    Wrap = 100
    MaxTime = 16
    None = None
SPECIFICATION Spec
INVARIANTS KernelHeldByOne GridKept ClockNotAhead TickIsArmed
CHECK_DEADLOCK FALSE

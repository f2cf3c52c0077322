\* A tick every three exits: tails and replays straddle ticks.
CONSTANTS
    Task = {idle, t1, t2}  Idle = idle
    EXITS_PER_TICK = 3  MaxNesting = 2  MaxExits = 5
SPECIFICATION Spec
INVARIANT SimTimeConserved TicksDelivered
PROPERTY TimeIsTaskTime

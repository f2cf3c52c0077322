\* A switch pended inside a kernel call, and the tick.
CONSTANTS
    t0 = t0  t1 = t1
    Task <- TwoTasks  BootTask <- TwoTasks  Idle = t0
    NO_TASK = NO_TASK  NoThread = NoThread  Tick = Tick
    MaxGen = 1  MaxNesting = 1  MayDecline = FALSE  SpuriousWakes = FALSE  TickBeforeStart = FALSE
SPECIFICATION Spec
INVARIANT PendedSwitchIsTaken

\* A thread frozen inside take_permit, and its slot reused.
CONSTANTS
    t0 = t0  t1 = t1
    Task <- TwoTasks  BootTask <- TwoTasks  Idle = t0
    NO_TASK = NO_TASK  NoThread = NoThread  Tick = Tick
    MaxGen = 2  MaxNesting = 1  MayDecline = FALSE  SpuriousWakes = FALSE  TickBeforeStart = FALSE
SPECIFICATION Spec
INVARIANT FrozenHoldsNoMutex

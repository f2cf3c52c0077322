\* Slots are deleted and recreated; no tick before the first grant.
CONSTANTS
    t0 = t0  t1 = t1
    Task <- TwoTasks  BootTask <- OnlyIdle  Idle = t0
    NO_TASK = NO_TASK  NoThread = NoThread  Tick = Tick
    MaxGen = 2  MaxNesting = 2  MayDecline = TRUE  SpuriousWakes = TRUE  TickBeforeStart = FALSE
SPECIFICATION Spec
INVARIANT TypeOK OneOnCpu FrozenOwnsNothing PermitNotStranded GrantIsForParked InIsrIsTheTick
PROPERTY SingleCpu
CHECK_DEADLOCK FALSE

\* A tick between start_first_task's store and its grant.  OneOnCpu,
\* GrantIsForParked or SingleCpu in the place of PermitNotStranded is violated
\* too, when the first task's slot is reused before the grant reaches it.
CONSTANTS
    t0 = t0  t1 = t1
    Task <- TwoTasks  BootTask <- TwoTasks  Idle = t0
    NO_TASK = NO_TASK  NoThread = NoThread  Tick = Tick
    MaxGen = 2  MaxNesting = 1  MayDecline = FALSE  SpuriousWakes = FALSE  TickBeforeStart = TRUE
SPECIFICATION Spec
INVARIANT PermitNotStranded
CHECK_DEADLOCK FALSE

\* Two tasks, one of which may never yield; every fair wait ends.
CONSTANTS
    t0 = t0  t1 = t1
    Task <- TwoTasks  BootTask <- TwoTasks  Idle = t0
    NO_TASK = NO_TASK  NoThread = NoThread  Tick = Tick
    MaxGen = 1  MaxNesting = 1  MayDecline = FALSE  SpuriousWakes = FALSE  TickBeforeStart = FALSE
SPECIFICATION FairSpec
PROPERTY ChosenRuns NeverStarved

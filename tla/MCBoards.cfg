\* Two cores and three workers; the tasks of the wifi cell's boot and two that
\* the driver creates, the first of them a creator itself; clocks that stop at
\* their bounds after several windows.
CONSTANTS
    Core = {c0, c1}  TickCore = c0  Worker = {a, b, s}  Urgent = {a, b}  Nobody = nobody
    main = main  idle = idle  tmr = tmr  Radio = {r1, r2}
    Creator = {main, r1}  Deleter = {main}  TaskCap = 5  MaxPriorities = 4
    DaemonPriority = 2  Asked = {1, 9}  KernelStacks = TRUE  SemMax = 1
    Cap = 1  MaxSent = 2  DelayTicks = 3  GoodLaps = 2
    Period = 2  MaxWindow = 4  Wrap = 100  GridEnd = 16
    Reload = 2  MaxReload = 10  SleepEnd = 30
SPECIFICATION BoardsSpec
INVARIANTS OneCoreInKernel TaskOnOneCore NoYieldLost
INVARIANTS NestedSafe GridSafe SleepSafe CortexSafe MpuSafe
INVARIANTS CurrentIsLoaded LiveTaskHasItsSlot StacksKept MostUrgentRuns

CONSTANTS
    Main = main
    Idle = idle
    Tmr = tmr
    Radio = {r1, r2}
    TaskCap = 5
    None = None
    Creator = {main, r1}
    Deleter = {main}
    MaxPriorities = 4
    DaemonPriority = 2
    Asked = {1, 9}
    KernelStacks = TRUE
    SemMax = 1
SPECIFICATION Spec
INVARIANTS TypeOK CurrentIsLoaded LiveTaskHasItsSlot ContextIntact FreedIsUnreachable MostUrgentRuns

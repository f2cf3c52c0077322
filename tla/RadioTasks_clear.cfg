CONSTANTS
    Main = main
    Idle = idle
    Tmr = tmr
    Radio = {r1, r2, r3}
    TaskCap = 5
    None = None
    Creator = {main}
    Deleter = {r1}
    MaxPriorities = 4
    DaemonPriority = 2
    Asked = {1, 9}
    KernelStacks = TRUE
    SemMax = 1
SPECIFICATION Spec
INVARIANT LiveTaskHasItsSlot

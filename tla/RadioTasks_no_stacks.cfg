\* The boot of the xiao-s3-radio cell: main is the lowest but Idle and Tmr, and
\* they have no slot.
CONSTANTS
    Main = main
    Idle = idle
    Tmr = tmr
    Radio = {r1, r2}
    TaskCap = 5
    None = None
    Creator = {main}
    Deleter = {}
    MaxPriorities = 5
    DaemonPriority = 1
    Asked = {3}
    KernelStacks = FALSE
    SemMax = 1
SPECIFICATION Spec
INVARIANT CurrentIsLoaded

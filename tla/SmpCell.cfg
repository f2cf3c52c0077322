CONSTANTS
    Core = {c0, c1}
    TickCore = c0
    Worker = {a, b, s}
    Urgent = {a, b}
    Nobody = nobody
SPECIFICATION Spec
INVARIANTS TypeOK OneCoreInKernel TaskOnOneCore SelectedRuns NoYieldLost NoCoreWaitsForItself

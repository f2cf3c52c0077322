CONSTANTS
    Cap = 1
    MaxSent = 2
SPECIFICATION Spec
INVARIANTS KernelExclusive Accounted NoSwitchLost

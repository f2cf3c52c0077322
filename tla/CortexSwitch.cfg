SPECIFICATION Spec
INVARIANT TypeOK
INVARIANT KernelExclusive
INVARIANT SwitchIsWhole
INVARIANT FramesKept
INVARIANT NoSwitchAtBoot
INVARIANT MostUrgentRuns

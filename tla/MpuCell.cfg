SPECIFICATION Spec
CONSTANT GoodLaps = 2
INVARIANT TypeOK
INVARIANT Safe
CHECK_DEADLOCK FALSE

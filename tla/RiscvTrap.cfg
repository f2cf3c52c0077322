SPECIFICATION Spec
CONSTANT Switches = 3
CONSTANT MaxNesting = 2
INVARIANT TypeOK
INVARIANT Safe
PROPERTY PreemptionContinues
CHECK_DEADLOCK FALSE

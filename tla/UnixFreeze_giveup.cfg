\* freeze gives up while the handler is on its way to park.
CONSTANTS
    Thr = {a, b}  Nobody = Nobody
SPECIFICATION Spec
INVARIANT NobodyForgotten
CHECK_DEADLOCK FALSE

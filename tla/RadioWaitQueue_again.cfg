\* A task begins to wait after a notify has counted the waiters and given, and
\* takes a give before the waiter it was made for does.
CONSTANTS
    Waiter = {w1, w2}  MaxCount = 4  Overlap = TRUE
SPECIFICATION Spec
INVARIANT EveryoneReleased

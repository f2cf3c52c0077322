\* Freezes that park in time or give up, thaws and releases, over two occupants
\* of an entry; three tasks at a wait queue, none of which begins to wait while
\* a notify still releases others; three switches of two tasks, sections nested
\* twice.
CONSTANTS
    Thr = {a, b}  Nobody = Nobody
    Waiter = {w1, w2, w3}  MaxCount = 4  Overlap = FALSE
    Switches = 3  MaxNesting = 2
SPECIFICATION ReleaseSpec
INVARIANTS FrozenIsParked ThawIsNotLost EveryoneReleased TrapIsSafe
PROPERTIES ThawedReturns NotifiedReturns PreemptionContinues
CHECK_DEADLOCK FALSE

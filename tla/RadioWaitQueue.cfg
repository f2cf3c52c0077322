\* Nobody begins to wait while a notify still releases others.
CONSTANTS
    Waiter = {w1, w2, w3}  MaxCount = 4  Overlap = FALSE
SPECIFICATION FairSpec
INVARIANT TypeOK WaitersExact EveryoneReleased
PROPERTY NotifiedReturns

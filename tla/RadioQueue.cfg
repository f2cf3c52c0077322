\* Two tasks and the interrupt.
CONSTANTS
    Caller = {p, q}  Item = {a, b}  None = None  capacity = 3
SPECIFICATION FairSpec
INVARIANT TypeOK SlotsAccounted
PROPERTY QueueIsFifo ReceiverServed SenderServed

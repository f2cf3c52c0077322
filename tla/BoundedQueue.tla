---------------------------- MODULE BoundedQueue ----------------------------
(***************************************************************************)
(* What a queue of the radio driver promises: a sequence of at most        *)
(* `capacity` items, that grows at either end and shrinks at the head, one *)
(* item at a time and each item once.                                      *)
(***************************************************************************)
EXTENDS Naturals, Sequences

CONSTANTS
    Item,       \* what is sent
    None,       \* no item
    capacity

VARIABLES
    items,      \* the queue
    got         \* the item last received, if any

Init ==
    /\ items = <<>>
    /\ got = None

SendToBack(i) ==
    /\ Len(items) < capacity
    /\ items' = Append(items, i)
    /\ UNCHANGED got

SendToFront(i) ==
    /\ Len(items) < capacity
    /\ items' = <<i>> \o items
    /\ UNCHANGED got

Receive ==
    /\ items # <<>>
    /\ got' = Head(items)
    /\ items' = Tail(items)

Remove ==
    /\ items # <<>>
    /\ items' = Tail(items)
    /\ UNCHANGED got

Next ==
    \/ \E i \in Item : SendToBack(i) \/ SendToFront(i)
    \/ Receive \/ Remove

Spec == Init /\ [][Next]_<<items, got>>

=============================================================================

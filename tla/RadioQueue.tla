----------------------------- MODULE RadioQueue -----------------------------
(***************************************************************************)
(* A queue of the esp-radio port (crates/rusty_rtos_port-esp-radio/src/    *)
(* adapter.rs): the payload in a ring guarded by the interrupt mask, the   *)
(* blocking in two counting semaphores.  A step is one kernel call or one  *)
(* mutation of the ring under the mask; between two steps of a task any    *)
(* other task and the radio's interrupt may run.  The interrupt is not     *)
(* interrupted, so each of its calls is one step.  The semaphores are the  *)
(* kernel's, hence external: counts that refuse to exceed their maximum.   *)
(***************************************************************************)
EXTENDS Naturals, FiniteSets

CONSTANTS
    Caller,     \* the tasks that use the queue
    Item,       \* what is sent
    None,       \* no item
    capacity

ASSUME QueueConstants ==
    /\ capacity \in Nat \ {0}
    /\ IsFiniteSet(Caller)
    /\ None \notin Item

VARIABLES
    filled, empty,      \* the semaphores' counts
    storage, head, tail, len,
    pc, item, front,    \* per task: where in a call, its item, which end
    got                 \* the item last received

ring   == <<storage, head, tail, len>>
frames == <<pc, item, front>>
vars   == <<filled, empty, ring, frames, got>>

\* Inside send: asking for a slot, with one reserved, with the item in the
\* ring.  Inside receive and remove: asking for an item, with one claimed,
\* with it out of the ring.
SendPcs == {"reserve", "reserved", "pushed"}
TakePcs == {"claim", "claimed", "remove", "popped"}
Pc == {"idle"} \cup SendPcs \cup TakePcs

Index == 0..(capacity - 1)

Init ==
    /\ filled = 0 /\ empty = capacity
    /\ storage = [n \in Index |-> None]
    /\ head = 0 /\ tail = 0 /\ len = 0
    /\ pc = [p \in Caller |-> "idle"]
    /\ item = [p \in Caller |-> None]
    /\ front = [p \in Caller |-> FALSE]
    /\ got = None

Goto(p, from, to) == pc[p] = from /\ pc' = [pc EXCEPT ![p] = to]

-----------------------------------------------------------------------------
(* The kernel's counting semaphores, and the ring.                         *)

TakeEmpty  == empty > 0 /\ empty' = empty - 1
TakeFilled == filled > 0 /\ filled' = filled - 1

\* A give at the maximum is refused, and the caller does not look.
GiveEmpty  == empty' = IF empty < capacity THEN empty + 1 ELSE empty
GiveFilled == filled' = IF filled < capacity THEN filled + 1 ELSE filled

\* Mutant: the front push uses the slot of the head before it moves.
Push_StaysAtHead(i, atFront) ==
    LET at == IF atFront THEN head ELSE tail
    IN  /\ storage' = [storage EXCEPT ![at] = i]
        /\ head' = IF atFront THEN (head + capacity - 1) % capacity ELSE head
        /\ tail' = IF atFront THEN tail ELSE (at + 1) % capacity
        /\ len' = len + 1

Push(i, atFront) ==
    LET at == IF atFront THEN (head + capacity - 1) % capacity ELSE tail
    IN  /\ storage' = [storage EXCEPT ![at] = i]
        /\ head' = IF atFront THEN at ELSE head
        /\ tail' = IF atFront THEN tail ELSE (at + 1) % capacity
        /\ len' = len + 1

Pop ==
    /\ head' = (head + 1) % capacity
    /\ len' = len - 1
    /\ UNCHANGED <<storage, tail>>

-----------------------------------------------------------------------------
(* send, by a task.                                                        *)

SendCall(p, i, atFront) ==
    /\ Goto(p, "idle", "reserve")
    /\ item' = [item EXCEPT ![p] = i]
    /\ front' = [front EXCEPT ![p] = atFront]
    /\ UNCHANGED <<filled, empty, ring, got>>

SendReserve(p) ==
    /\ Goto(p, "reserve", "reserved")
    /\ TakeEmpty
    /\ UNCHANGED <<filled, ring, item, front, got>>

\* The timeout, possibly zero, runs out with no slot free.
SendFails(p) ==
    /\ Goto(p, "reserve", "idle")
    /\ empty = 0
    /\ item' = [item EXCEPT ![p] = None]
    /\ front' = [front EXCEPT ![p] = FALSE]
    /\ UNCHANGED <<filled, empty, ring, got>>

SendPush(p) ==
    /\ Goto(p, "reserved", "pushed")
    /\ Push(item[p], front[p])
    /\ item' = [item EXCEPT ![p] = None]
    /\ front' = [front EXCEPT ![p] = FALSE]
    /\ UNCHANGED <<filled, empty, got>>

\* Mutant: the item is pushed and nobody is told.
SendGive_Forgets(p) ==
    /\ Goto(p, "pushed", "idle")
    /\ UNCHANGED <<filled, empty, ring, item, front, got>>

SendGive(p) ==
    /\ Goto(p, "pushed", "idle")
    /\ GiveFilled
    /\ UNCHANGED <<empty, ring, item, front, got>>

-----------------------------------------------------------------------------
(* receive_inner and remove, by a task.                                    *)

ReceiveCall(p) ==
    /\ Goto(p, "idle", "claim")
    /\ UNCHANGED <<filled, empty, ring, item, front, got>>

ReceiveClaim(p) ==
    /\ Goto(p, "claim", "claimed")
    /\ TakeFilled
    /\ UNCHANGED <<empty, ring, item, front, got>>

ReceiveFails(p) ==
    /\ Goto(p, "claim", "idle")
    /\ filled = 0
    /\ UNCHANGED <<filled, empty, ring, item, front, got>>

ReceivePop(p) ==
    /\ Goto(p, "claimed", "popped")
    /\ Pop
    /\ got' = storage[head]
    /\ UNCHANGED <<filled, empty, item, front>>

\* remove claims an item at once, or does nothing.
RemoveClaim(p) ==
    /\ Goto(p, "idle", "remove")
    /\ TakeFilled
    /\ UNCHANGED <<empty, ring, item, front, got>>

RemovePop(p) ==
    /\ Goto(p, "remove", "popped")
    /\ Pop
    /\ UNCHANGED <<filled, empty, item, front, got>>

\* Mutant: the slot of a received item is not given back.
TakeGive_Leaks(p) ==
    /\ Goto(p, "popped", "idle")
    /\ UNCHANGED <<filled, empty, ring, item, front, got>>

TakeGive(p) ==
    /\ Goto(p, "popped", "idle")
    /\ GiveEmpty
    /\ UNCHANGED <<filled, ring, item, front, got>>

-----------------------------------------------------------------------------
(* The interrupt's calls.                                                  *)

\* Mutant: the interrupt looks at the count of free slots and takes none.
IsrSend_SkipsEmpty(i) ==
    /\ empty > 0
    /\ Push(i, FALSE)
    /\ GiveFilled
    /\ UNCHANGED <<empty, frames, got>>

\* try_send_to_back_from_isr; with no slot free it changes nothing.
IsrSend(i) ==
    /\ TakeEmpty
    /\ Push(i, FALSE)
    /\ GiveFilled
    /\ UNCHANGED <<frames, got>>

\* try_receive_from_isr
IsrReceive ==
    /\ TakeFilled
    /\ Pop
    /\ got' = storage[head]
    /\ GiveEmpty
    /\ UNCHANGED frames

-----------------------------------------------------------------------------
TaskStep(p) ==
    \/ \E i \in Item, b \in BOOLEAN : SendCall(p, i, b)
    \/ SendReserve(p) \/ SendFails(p) \/ SendPush(p) \/ SendGive(p)
    \/ ReceiveCall(p) \/ ReceiveClaim(p) \/ ReceiveFails(p) \/ ReceivePop(p)
    \/ RemoveClaim(p) \/ RemovePop(p) \/ TakeGive(p)

IsrStep == (\E i \in Item : IsrSend(i)) \/ IsrReceive

Next == (\E p \in Caller : TaskStep(p)) \/ IsrStep

Spec == Init /\ [][Next]_vars

\* A task that is ready runs.  The kernel's semaphore queues its waiters, so
\* one that waits while the count is positive again and again gets it.
Fairness ==
    \A p \in Caller :
        /\ WF_vars(SendPush(p)) /\ WF_vars(SendGive(p))
        /\ WF_vars(ReceivePop(p)) /\ WF_vars(RemovePop(p)) /\ WF_vars(TakeGive(p))
        /\ SF_vars(SendReserve(p)) /\ SF_vars(ReceiveClaim(p))

FairSpec == Spec /\ Fairness

-----------------------------------------------------------------------------
(* Properties.                                                             *)

\* Every variable keeps its type; the ring is never over- or underfull.
TypeOK ==
    /\ filled \in 0..capacity /\ empty \in 0..capacity /\ len \in 0..capacity
    /\ storage \in [Index -> Item \cup {None}]
    /\ head \in Index /\ tail \in Index
    /\ pc \in [Caller -> Pc] /\ item \in [Caller -> Item \cup {None}]
    /\ front \in [Caller -> BOOLEAN]
    /\ got \in Item \cup {None}

\* How many tasks are at one of the labels.
Count(labels) == Cardinality({p \in Caller : pc[p] \in labels})

\* The item of the call is in the ring, and no receiver is offered it.
RingPcs == {"pushed", "claimed", "remove"}

\* "both sides keep them exact": every slot is free, reserved, filled or
\* claimed, and every item in the ring is offered, about to be, or claimed.
\* So no give is refused, and a slot is never lost to a call that raced.
SlotsAccounted ==
    /\ empty + filled + Count({"reserved"}) + Count(RingPcs) + Count({"popped"}) = capacity
    /\ len = filled + Count(RingPcs)

\* The ring as a sequence, from the head.
Contents == [n \in 1..len |-> storage[(head + n - 1) % capacity]]

\* The queue implements a bounded queue: items leave in the order of the ring,
\* each once, whatever sends, receives, removals and
\* interrupts interleave.
Abstract == INSTANCE BoundedQueue WITH items <- Contents

QueueIsFifo == Abstract!Spec

\* A blocked receiver does not wait for ever beside an item, nor a blocked
\* sender beside a free slot.
ReceiverServed ==
    \A p \in Caller : (pc[p] = "claim") ~> (pc[p] # "claim" \/ len = 0)
SenderServed ==
    \A p \in Caller : (pc[p] = "reserve") ~> (pc[p] # "reserve" \/ len = capacity)

=============================================================================

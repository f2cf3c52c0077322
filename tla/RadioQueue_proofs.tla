------------------------- MODULE RadioQueue_proofs --------------------------
(***************************************************************************)
(* Theorems about RadioQueue, for any capacity, items and number of tasks: *)
(* the ring never over- or underflows, every slot is accounted for, the    *)
(* kernel never refuses a give, and the ring implements a bounded queue.   *)
(***************************************************************************)
EXTENDS RadioQueue, FiniteSetTheorems, SequenceTheorems, TLAPS

IInv == TypeOK /\ SlotsAccounted

-----------------------------------------------------------------------------
(* Counting tasks by where they are.                                       *)

\* A count is a number, and positive when some task is at one of the labels.
LEMMA CountIsNat ==
    ASSUME NEW labels
    PROVE  /\ Count(labels) \in Nat
           /\ \A p \in Caller : pc[p] \in labels => Count(labels) > 0
<1> DEFINE S == {p \in Caller : pc[p] \in labels}
<1>1. IsFiniteSet(S) BY QueueConstants, FS_Subset
<1>2. Cardinality(S) \in Nat BY <1>1, FS_CardinalityType
<1>3. ASSUME NEW p \in Caller, pc[p] \in labels PROVE Cardinality(S) > 0
  <2>1. p \in S BY <1>3
  <2>2. S # {} BY <2>1
  <2>3. Cardinality(S) # 0 BY <1>1, <2>2, FS_EmptySet
  <2>4. QED BY <1>2, <2>3
<1>4. QED BY <1>2, <1>3 DEF Count

\* A move of one task changes a count by the task's coming and going.
LEMMA CountMoves ==
    ASSUME NEW labels, NEW p \in Caller, NEW from, NEW to,
           pc \in [Caller -> Pc], Goto(p, from, to)
    PROVE  Count(labels)' = Count(labels) + (IF to \in labels THEN 1 ELSE 0)
                                          - (IF from \in labels THEN 1 ELSE 0)
<1>0. pc[p] = from /\ pc' = [pc EXCEPT ![p] = to] /\ Count(labels) \in Nat
  BY CountIsNat DEF Goto
<1> DEFINE S == {q \in Caller : pc[q] \in labels}
           T == {q \in Caller : pc'[q] \in labels}
<1>1. IsFiniteSet(S) BY QueueConstants, FS_Subset
<1>2. Count(labels) = Cardinality(S) /\ Count(labels)' = Cardinality(T) BY DEF Count
<1>3. CASE from \in labels <=> to \in labels
  <2>1. T = S BY <1>0, <1>3
  <2>2. Count(labels)' = Count(labels) BY <1>2, <2>1
  <2>3. CASE from \in labels BY <1>0, <1>3, <2>2, <2>3
  <2>4. CASE from \notin labels BY <1>0, <1>3, <2>2, <2>4
  <2>5. QED BY <2>3, <2>4
<1>4. CASE from \notin labels /\ to \in labels
  <2>1. T = S \cup {p} /\ p \notin S BY <1>0, <1>4
  <2>2. Cardinality(T) = Cardinality(S) + 1 BY <1>1, <2>1, FS_AddElement
  <2>3. QED BY <1>0, <1>2, <1>4, <2>2
<1>5. CASE from \in labels /\ to \notin labels
  <2>1. T = S \ {p} /\ p \in S BY <1>0, <1>5
  <2>2. Cardinality(T) = Cardinality(S) - 1 BY <1>1, <2>1, FS_RemoveElement
  <2>3. QED BY <1>0, <1>2, <1>5, <2>2
<1>6. QED BY <1>3, <1>4, <1>5

\* The three counts of the accounting, before and after a step.
Reserved == Count({"reserved"})
InRing   == Count(RingPcs)
Popped   == Count({"popped"})

\* The three counts are numbers; a task at a label makes its count positive.
LEMMA Counts ==
    /\ Reserved \in Nat /\ InRing \in Nat /\ Popped \in Nat
    /\ \A p \in Caller : /\ pc[p] = "reserved" => Reserved > 0
                         /\ pc[p] \in RingPcs => InRing > 0
                         /\ pc[p] = "popped" => Popped > 0
BY CountIsNat DEF Reserved, InRing, Popped

\* How a task's move from one label to another changes the three counts.
LEMMA CountsMove ==
    ASSUME NEW p \in Caller, NEW from, NEW to, pc \in [Caller -> Pc], Goto(p, from, to)
    PROVE  /\ Reserved' = Reserved + (IF to = "reserved" THEN 1 ELSE 0)
                                   - (IF from = "reserved" THEN 1 ELSE 0)
           /\ InRing' = InRing + (IF to \in RingPcs THEN 1 ELSE 0)
                               - (IF from \in RingPcs THEN 1 ELSE 0)
           /\ Popped' = Popped + (IF to = "popped" THEN 1 ELSE 0)
                               - (IF from = "popped" THEN 1 ELSE 0)
<1>1. Count({"reserved"})' = Count({"reserved"}) + (IF to \in {"reserved"} THEN 1 ELSE 0)
                                                 - (IF from \in {"reserved"} THEN 1 ELSE 0)
  BY CountMoves
<1>2. Count(RingPcs)' = Count(RingPcs) + (IF to \in RingPcs THEN 1 ELSE 0)
                                       - (IF from \in RingPcs THEN 1 ELSE 0)
  BY CountMoves DEF RingPcs
<1>3. Count({"popped"})' = Count({"popped"}) + (IF to \in {"popped"} THEN 1 ELSE 0)
                                             - (IF from \in {"popped"} THEN 1 ELSE 0)
  BY CountMoves
<1>4. /\ to \in {"reserved"} <=> to = "reserved"
      /\ from \in {"reserved"} <=> from = "reserved"
      /\ to \in {"popped"} <=> to = "popped"
      /\ from \in {"popped"} <=> from = "popped"
  OBVIOUS
<1>5. QED BY <1>1, <1>2, <1>3, <1>4 DEF Reserved, InRing, Popped

\* No task moves: no count changes.
LEMMA CountsStay ==
    ASSUME UNCHANGED pc
    PROVE  Reserved' = Reserved /\ InRing' = InRing /\ Popped' = Popped
BY DEF Reserved, InRing, Popped, Count, RingPcs

\* The accounting in terms of the three counts.
Accounts ==
    /\ empty + filled + Reserved + InRing + Popped = capacity
    /\ len = filled + InRing

\* The accounting with the counts named, which the provers take as numbers.
LEMMA AccountsAreSlots == SlotsAccounted <=> Accounts
BY DEF SlotsAccounted, Accounts, Reserved, InRing, Popped

\* The same after a step.
LEMMA AccountsAreSlotsNext == SlotsAccounted' <=> Accounts'
BY DEF SlotsAccounted, Accounts, Reserved, InRing, Popped

-----------------------------------------------------------------------------
(* The ring.                                                               *)

\* A push into a ring that is not full leaves a ring.
LEMMA PushKeepsRing ==
    ASSUME TypeOK, len < capacity, NEW i \in Item \cup {None}, NEW b \in BOOLEAN, Push(i, b)
    PROVE  /\ storage' \in [Index -> Item \cup {None}]
           /\ head' \in Index /\ tail' \in Index
           /\ len' \in 0..capacity /\ len' = len + 1
<1>1. capacity \in Nat /\ capacity > 0 BY QueueConstants
<1>2. head \in Nat /\ tail \in Nat /\ len \in Nat BY DEF TypeOK, Index
<1>3. (head + capacity - 1) % capacity \in Index /\ (tail + 1) % capacity \in Index
  BY <1>1, <1>2 DEF Index
<1>4. QED BY <1>1, <1>2, <1>3 DEF Push, TypeOK

\* A pop from a ring that is not empty leaves a ring.
LEMMA PopKeepsRing ==
    ASSUME TypeOK, len > 0, Pop
    PROVE  /\ head' \in Index /\ UNCHANGED <<storage, tail>>
           /\ len' \in 0..capacity /\ len' = len - 1
           /\ storage[head] \in Item \cup {None}
<1>1. capacity \in Nat /\ capacity > 0 BY QueueConstants
<1>2. head \in Nat /\ len \in 0..capacity BY DEF TypeOK, Index
<1>3. (head + 1) % capacity \in Index BY <1>1, <1>2 DEF Index
<1>4. storage[head] \in Item \cup {None} BY DEF TypeOK
<1>5. QED BY <1>1, <1>2, <1>3, <1>4 DEF Pop

-----------------------------------------------------------------------------
\* A new queue has every slot free.
LEMMA InitHolds == Init => IInv
<1> SUFFICES ASSUME Init PROVE IInv OBVIOUS
<1>1. capacity \in Nat /\ capacity > 0 BY QueueConstants
<1>2. TypeOK BY <1>1 DEF Init, TypeOK, Index, Pc
<1>3. ASSUME NEW labels, "idle" \notin labels PROVE Count(labels) = 0
  <2>1. {p \in Caller : pc[p] \in labels} = {} BY <1>3 DEF Init
  <2>2. QED BY <2>1, FS_EmptySet DEF Count
<1>4. Reserved = 0 /\ InRing = 0 /\ Popped = 0
  BY <1>3 DEF Reserved, InRing, Popped, RingPcs
<1>5. Accounts BY <1>1, <1>4 DEF Init, Accounts
<1>6. QED BY <1>2, <1>5, AccountsAreSlots DEF IInv

\* The steps of send keep the invariant.
LEMMA SendSteps ==
    ASSUME IInv, NEW p \in Caller,
           \/ \E i \in Item, b \in BOOLEAN : SendCall(p, i, b)
           \/ SendReserve(p) \/ SendFails(p) \/ SendPush(p) \/ SendGive(p)
    PROVE  IInv'
<1> USE QueueConstants
<1>0. TypeOK /\ Accounts BY AccountsAreSlots DEF IInv
<1>1. /\ pc \in [Caller -> Pc] /\ item \in [Caller -> Item \cup {None}]
      /\ front \in [Caller -> BOOLEAN]
      /\ filled \in 0..capacity /\ empty \in 0..capacity /\ len \in 0..capacity
  BY <1>0 DEF TypeOK
<1>2. CASE \E i \in Item, b \in BOOLEAN : SendCall(p, i, b)
  <2>1. PICK i \in Item, b \in BOOLEAN : SendCall(p, i, b) BY <1>2
  <2>2. TypeOK' BY <1>0, <2>1 DEF SendCall, Goto, TypeOK, Pc, SendPcs, ring
  <2>3. Accounts' BY <1>0, <1>1, <2>1, Counts, CountsMove DEF SendCall, Accounts, RingPcs, ring
  <2>4. QED BY <2>2, <2>3, AccountsAreSlotsNext DEF IInv
<1>3. CASE SendReserve(p)
  <2>1. TypeOK' BY <1>0, <1>3 DEF SendReserve, TakeEmpty, Goto, TypeOK, Pc, SendPcs, ring
  <2>2. Accounts'
    BY <1>0, <1>1, <1>3, Counts, CountsMove DEF SendReserve, TakeEmpty, Accounts, RingPcs, ring
  <2>3. QED BY <2>1, <2>2, AccountsAreSlotsNext DEF IInv
<1>4. CASE SendFails(p)
  <2>1. TypeOK' BY <1>0, <1>4 DEF SendFails, Goto, TypeOK, Pc, ring
  <2>2. Accounts' BY <1>0, <1>1, <1>4, Counts, CountsMove DEF SendFails, Accounts, RingPcs, ring
  <2>3. QED BY <2>1, <2>2, AccountsAreSlotsNext DEF IInv
<1>5. CASE SendPush(p)
  <2>1. len < capacity BY <1>0, <1>1, <1>5, Counts DEF SendPush, Goto, Accounts
  <2>2. Push(item[p], front[p]) BY <1>5 DEF SendPush
  <2>3. /\ storage' \in [Index -> Item \cup {None}] /\ head' \in Index /\ tail' \in Index
        /\ len' \in 0..capacity /\ len' = len + 1
    BY <1>0, <1>1, <2>1, <2>2, PushKeepsRing
  <2>4. TypeOK' BY <1>0, <1>5, <2>3 DEF SendPush, Goto, TypeOK, Pc, SendPcs
  <2>5. Accounts'
    BY <1>0, <1>1, <1>5, <2>3, Counts, CountsMove DEF SendPush, Accounts, RingPcs
  <2>6. QED BY <2>4, <2>5, AccountsAreSlotsNext DEF IInv
<1>6. CASE SendGive(p)
  <2>1. filled < capacity
    BY <1>0, <1>1, <1>6, Counts DEF SendGive, Goto, Accounts, RingPcs
  <2>2. TypeOK' BY <1>0, <1>6 DEF SendGive, GiveFilled, Goto, TypeOK, Pc, ring
  <2>3. Accounts'
    BY <1>0, <1>1, <1>6, <2>1, Counts, CountsMove DEF SendGive, GiveFilled, Accounts, RingPcs, ring
  <2>4. QED BY <2>2, <2>3, AccountsAreSlotsNext DEF IInv
<1>7. QED BY <1>2, <1>3, <1>4, <1>5, <1>6

\* The steps of receive_inner and remove keep the invariant.
LEMMA TakeSteps ==
    ASSUME IInv, NEW p \in Caller,
           \/ ReceiveCall(p) \/ ReceiveClaim(p) \/ ReceiveFails(p) \/ ReceivePop(p)
           \/ RemoveClaim(p) \/ RemovePop(p) \/ TakeGive(p)
    PROVE  IInv'
<1> USE QueueConstants
<1>0. TypeOK /\ Accounts BY AccountsAreSlots DEF IInv
<1>1. /\ pc \in [Caller -> Pc]
      /\ filled \in 0..capacity /\ empty \in 0..capacity /\ len \in 0..capacity
  BY <1>0 DEF TypeOK
<1>2. CASE ReceiveCall(p) \/ ReceiveFails(p)
  <2>1. TypeOK'
    BY <1>0, <1>2 DEF ReceiveCall, ReceiveFails, Goto, TypeOK, Pc, TakePcs, ring
  <2>2. Accounts'
    BY <1>0, <1>1, <1>2, Counts, CountsMove
    DEF ReceiveCall, ReceiveFails, Accounts, RingPcs, ring
  <2>3. QED BY <2>1, <2>2, AccountsAreSlotsNext DEF IInv
<1>3. CASE ReceiveClaim(p) \/ RemoveClaim(p)
  <2>1. TypeOK'
    BY <1>0, <1>3 DEF ReceiveClaim, RemoveClaim, TakeFilled, Goto, TypeOK, Pc, TakePcs, ring
  <2>2. Accounts'
    BY <1>0, <1>1, <1>3, Counts, CountsMove
    DEF ReceiveClaim, RemoveClaim, TakeFilled, Accounts, RingPcs, ring
  <2>3. QED BY <2>1, <2>2, AccountsAreSlotsNext DEF IInv
<1>4. CASE ReceivePop(p) \/ RemovePop(p)
  <2>1. len > 0
    BY <1>0, <1>1, <1>4, Counts DEF ReceivePop, RemovePop, Goto, Accounts, RingPcs
  <2>2. /\ head' \in Index /\ UNCHANGED <<storage, tail>>
        /\ len' \in 0..capacity /\ len' = len - 1
        /\ storage[head] \in Item \cup {None}
    BY <1>0, <1>4, <2>1, PopKeepsRing DEF ReceivePop, RemovePop
  <2>3. TypeOK'
    BY <1>0, <1>4, <2>2 DEF ReceivePop, RemovePop, Goto, TypeOK, Pc, TakePcs
  <2>4. Accounts'
    BY <1>0, <1>1, <1>4, <2>2, Counts, CountsMove
    DEF ReceivePop, RemovePop, Accounts, RingPcs
  <2>5. QED BY <2>3, <2>4, AccountsAreSlotsNext DEF IInv
<1>5. CASE TakeGive(p)
  <2>1. empty < capacity
    BY <1>0, <1>1, <1>5, Counts DEF TakeGive, Goto, Accounts
  <2>2. TypeOK' BY <1>0, <1>5 DEF TakeGive, GiveEmpty, Goto, TypeOK, Pc, ring
  <2>3. Accounts'
    BY <1>0, <1>1, <1>5, <2>1, Counts, CountsMove DEF TakeGive, GiveEmpty, Accounts, RingPcs, ring
  <2>4. QED BY <2>2, <2>3, AccountsAreSlotsNext DEF IInv
<1>6. QED BY <1>2, <1>3, <1>4, <1>5

\* The interrupt's calls keep the invariant.
LEMMA IsrSteps ==
    ASSUME IInv, IsrStep
    PROVE  IInv'
<1> USE QueueConstants
<1>0. TypeOK /\ Accounts BY AccountsAreSlots DEF IInv
<1>1. filled \in 0..capacity /\ empty \in 0..capacity /\ len \in 0..capacity
  BY <1>0 DEF TypeOK
<1>2. Reserved' = Reserved /\ InRing' = InRing /\ Popped' = Popped
  BY CountsStay DEF IsrStep, IsrSend, IsrReceive, frames
<1>3. CASE \E i \in Item : IsrSend(i)
  <2>1. PICK i \in Item : IsrSend(i) BY <1>3
  <2>2. len < capacity /\ filled < capacity /\ empty > 0
    BY <1>0, <1>1, <2>1, Counts DEF IsrSend, TakeEmpty, Accounts
  <2>3. /\ storage' \in [Index -> Item \cup {None}] /\ head' \in Index /\ tail' \in Index
        /\ len' \in 0..capacity /\ len' = len + 1
    BY <1>0, <2>1, <2>2, PushKeepsRing DEF IsrSend
  <2>4. TypeOK' BY <1>0, <2>1, <2>3 DEF IsrSend, TakeEmpty, GiveFilled, TypeOK, frames
  <2>5. Accounts'
    BY <1>0, <1>1, <1>2, <2>1, <2>2, <2>3, Counts DEF IsrSend, TakeEmpty, GiveFilled, Accounts
  <2>6. QED BY <2>4, <2>5, AccountsAreSlotsNext DEF IInv
<1>4. CASE IsrReceive
  <2>1. len > 0 /\ empty < capacity /\ filled > 0
    BY <1>0, <1>1, <1>4, Counts DEF IsrReceive, TakeFilled, Accounts
  <2>2. /\ head' \in Index /\ UNCHANGED <<storage, tail>>
        /\ len' \in 0..capacity /\ len' = len - 1
        /\ storage[head] \in Item \cup {None}
    BY <1>0, <1>4, <2>1, PopKeepsRing DEF IsrReceive
  <2>3. TypeOK' BY <1>0, <1>4, <2>2 DEF IsrReceive, TakeFilled, GiveEmpty, TypeOK, frames
  <2>4. Accounts'
    BY <1>0, <1>1, <1>2, <1>4, <2>1, <2>2, Counts DEF IsrReceive, TakeFilled, GiveEmpty, Accounts
  <2>5. QED BY <2>3, <2>4, AccountsAreSlotsNext DEF IInv
<1>5. QED BY <1>3, <1>4 DEF IsrStep

\* Every step keeps the invariant.
LEMMA NextHolds == IInv /\ [Next]_vars => IInv'
<1> SUFFICES ASSUME IInv, [Next]_vars PROVE IInv' OBVIOUS
<1>1. CASE Next BY <1>1, SendSteps, TakeSteps, IsrSteps DEF Next, TaskStep
<1>2. CASE UNCHANGED vars
  <2>1. TypeOK' BY <1>2 DEF IInv, TypeOK, vars, ring, frames
  <2>2. Accounts' BY <1>2, AccountsAreSlots, CountsStay DEF IInv, Accounts, vars, ring, frames
  <2>3. QED BY <2>1, <2>2, AccountsAreSlotsNext DEF IInv
<1>3. QED BY <1>1, <1>2

\* The ring and the semaphores agree in every state, whatever calls interleave.
THEOREM InvariantHolds == Spec => []IInv
<1>1. QED BY InitHolds, NextHolds, PTL DEF Spec

\* The ring's indices stay in it and its length between zero and its capacity:
\* push's and pop's safety contracts hold at every call.
THEOREM RingIsSafe == Spec => []TypeOK
<1>1. IInv => TypeOK BY DEF IInv
<1>2. QED BY <1>1, InvariantHolds, PTL

\* Both semaphores stay exact, for any number of tasks sending, receiving and
\* removing, and the interrupt between any two of their steps.
THEOREM SemaphoresExact == Spec => []SlotsAccounted
<1>1. IInv => SlotsAccounted BY DEF IInv
<1>2. QED BY <1>1, InvariantHolds, PTL

-----------------------------------------------------------------------------
(* The ring as a queue: indices modulo the capacity.                       *)

\* The remainder of a sum of two indices.
LEMMA Wraps ==
    ASSUME NEW a \in Nat, NEW c \in Nat \ {0}, a < 2 * c
    PROVE  a % c = IF a < c THEN a ELSE a - c
<1>1. a % c \in 0..(c-1) /\ a = c * (a \div c) + (a % c) /\ a \div c \in Nat OBVIOUS
<1>2. CASE a < c
  <2>1. a \div c = 0
    <3>1. ~(a \div c >= 1) 
      <4>1. SUFFICES ASSUME a \div c >= 1 PROVE FALSE OBVIOUS
      <4>2. c * (a \div c) >= c BY <1>1, <4>1
      <4>3. QED BY <1>1, <1>2, <4>2
    <3>2. QED BY <1>1, <3>1
  <2>2. QED BY <1>1, <1>2, <2>1
<1>3. CASE a >= c
  <2>1. a \div c = 1
    <3>1. a \div c # 0 BY <1>1, <1>3
    <3>2. ~(a \div c >= 2) 
      <4>1. SUFFICES ASSUME a \div c >= 2 PROVE FALSE OBVIOUS
      <4>2. c * (a \div c) >= c * 2 BY <1>1, <4>1
      <4>3. QED BY <1>1, <4>2
    <3>3. QED BY <1>1, <3>1, <3>2
  <2>2. QED BY <1>1, <1>3, <2>1
<1>4. QED BY <1>2, <1>3

\* The sum of two indices of the ring, brought back into it.
LEMMA WrapsInRing ==
    \A a \in Nat : a < capacity + capacity =>
        a % capacity = IF a < capacity THEN a ELSE a - capacity
<1>1. TAKE a \in Nat
<1>2. HAVE a < capacity + capacity
<1>3. capacity \in Nat \ {0} /\ a < 2 * capacity BY <1>2, QueueConstants
<1>4. QED BY <1>3, Wraps

\* Where the item n is stored in a ring whose head is h.
SlotAt(h, n) == (h + n - 1) % capacity

\* A slot of the ring, without the remainder.
LEMMA SlotAtIs ==
    \A h \in Index, n \in 1..(capacity + 1) :
        /\ SlotAt(h, n) \in Index
        /\ SlotAt(h, n) = IF h + n - 1 < capacity THEN h + n - 1 ELSE h + n - 1 - capacity
<1>1. TAKE h \in Index, n \in 1..(capacity + 1)
<1>2. capacity \in Nat \ {0} /\ h \in 0..(capacity - 1) BY QueueConstants DEF Index
<1>3. h + n - 1 \in Nat /\ h + n - 1 < capacity + capacity BY <1>2
<1>4. QED BY <1>2, <1>3, WrapsInRing DEF SlotAt, Index

\* Two items of a ring are not stored in one slot.
LEMMA SlotsDiffer ==
    \A h \in Index : \A n, k \in 1..capacity : SlotAt(h, n) = SlotAt(h, k) => n = k
<1>1. TAKE h \in Index
<1>2. TAKE n, k \in 1..capacity
<1>3. capacity \in Nat \ {0} /\ h \in 0..(capacity - 1) BY QueueConstants DEF Index
<1>4. /\ SlotAt(h, n) = IF h + n - 1 < capacity THEN h + n - 1 ELSE h + n - 1 - capacity
      /\ SlotAt(h, k) = IF h + k - 1 < capacity THEN h + k - 1 ELSE h + k - 1 - capacity
  BY <1>3, SlotAtIs
<1>5. QED BY <1>3, <1>4

\* The slot after one is the one of the next item.
LEMMA SlotAfter ==
    \A h \in Index, n \in 1..capacity : (SlotAt(h, n) + 1) % capacity = SlotAt(h, n + 1)
<1>1. TAKE h \in Index, n \in 1..capacity
<1>2. capacity \in Nat \ {0} /\ h \in 0..(capacity - 1) BY QueueConstants DEF Index
<1>3. /\ SlotAt(h, n) \in 0..(capacity - 1)
      /\ SlotAt(h, n) = IF h + n - 1 < capacity THEN h + n - 1 ELSE h + n - 1 - capacity
      /\ SlotAt(h, n + 1) = IF h + n < capacity THEN h + n ELSE h + n - capacity
  BY <1>2, SlotAtIs DEF Index
<1>4. SlotAt(h, n) + 1 \in Nat /\ SlotAt(h, n) + 1 < capacity + capacity
  BY <1>2, <1>3
<1>5. QED BY <1>2, <1>3, <1>4, WrapsInRing

\* The head moved forward leaves every other item where it is.
LEMMA HeadForward ==
    ASSUME NEW h \in Index, NEW g, g = (h + 1) % capacity
    PROVE  /\ g \in Index /\ SlotAt(h, 1) = h
           /\ \A n \in 1..capacity : SlotAt(g, n) = SlotAt(h, n + 1)
<1>1. capacity \in Nat \ {0} /\ h \in 0..(capacity - 1) BY QueueConstants DEF Index
<1>2. SlotAt(h, 1) = h BY <1>1, SlotAtIs
<1>3. g = SlotAt(h, 2) BY <1>1, <1>2, SlotAfter
<1>4. g \in Index /\ g = IF h + 1 < capacity THEN h + 1 ELSE h + 1 - capacity
  BY <1>1, <1>3, SlotAtIs
<1>5. \A n \in 1..capacity : SlotAt(g, n) = SlotAt(h, n + 1)
  <2>1. TAKE n \in 1..capacity
  <2>2. SlotAt(g, n) = IF g + n - 1 < capacity THEN g + n - 1 ELSE g + n - 1 - capacity
    BY <1>1, <1>4, SlotAtIs
  <2>3. SlotAt(h, n + 1) = IF h + n < capacity THEN h + n ELSE h + n - capacity
    BY <1>1, SlotAtIs
  <2>4. QED BY <1>1, <1>4, <2>2, <2>3 DEF Index
<1>6. QED BY <1>2, <1>4, <1>5

\* The head moved back makes room before the first item, in a slot of its own.
LEMMA HeadBack ==
    ASSUME NEW h \in Index, NEW g, g = (h + capacity - 1) % capacity
    PROVE  /\ g \in Index /\ SlotAt(g, 1) = g
           /\ \A n \in 1..capacity : SlotAt(g, n + 1) = SlotAt(h, n)
           /\ \A n \in 1..(capacity - 1) : SlotAt(h, n) # g
<1>1. capacity \in Nat \ {0} /\ h \in 0..(capacity - 1) BY QueueConstants DEF Index
<1>2. g \in Index /\ g = IF h = 0 THEN capacity - 1 ELSE h - 1
  <2>1. PICK a \in Nat : a = h + capacity - 1 BY <1>1
  <2>2. a % capacity = IF a < capacity THEN a ELSE a - capacity
    BY <1>1, <2>1, WrapsInRing
  <2>3. g = a % capacity BY <2>1
  <2>4. QED BY <1>1, <2>1, <2>2, <2>3 DEF Index
<1>3. SlotAt(g, 1) = g BY <1>1, <1>2, SlotAtIs DEF Index
<1>4. \A n \in 1..capacity : SlotAt(g, n + 1) = SlotAt(h, n)
  <2>1. TAKE n \in 1..capacity
  <2>2. SlotAt(g, n + 1) = IF g + n < capacity THEN g + n ELSE g + n - capacity
    BY <1>1, <1>2, SlotAtIs DEF Index
  <2>3. SlotAt(h, n) = IF h + n - 1 < capacity THEN h + n - 1 ELSE h + n - 1 - capacity
    BY <1>1, SlotAtIs
  <2>4. QED BY <1>1, <1>2, <2>2, <2>3
<1>5. \A n \in 1..(capacity - 1) : SlotAt(h, n) # g
  <2>1. TAKE n \in 1..(capacity - 1)
  <2>2. SlotAt(h, n) = IF h + n - 1 < capacity THEN h + n - 1 ELSE h + n - 1 - capacity
    BY <1>1, SlotAtIs
  <2>3. QED BY <1>1, <1>2, <2>2
<1>6. QED BY <1>2, <1>3, <1>4, <1>5

-----------------------------------------------------------------------------
(* The contents.                                                           *)

\* The tail is where the ring ends: the slot after the last item.
RingIsClosed == tail = SlotAt(head, len + 1)

\* A send that has not pushed yet carries an item.
CarriesItem == \A p \in Caller : pc[p] \in {"reserve", "reserved"} => item[p] \in Item

\* The contents are a sequence as long as the ring says.
LEMMA ContentsAreASeq ==
    ASSUME NEW h \in Index, NEW l \in 0..capacity, NEW s \in [Index -> Item \cup {None}],
           NEW c, c = [n \in 1..l |-> s[SlotAt(h, n)]]
    PROVE  /\ c \in Seq(Item \cup {None})
           /\ Len(c) = l
           /\ \A n \in 1..l : c[n] = s[SlotAt(h, n)]
<1>1. capacity \in Nat /\ l \in Nat BY QueueConstants
<1>2. \A n \in 1..l : SlotAt(h, n) \in Index BY <1>1, SlotAtIs
<1>3. c \in [1..l -> Item \cup {None}] BY <1>2
<1>4. c \in Seq(Item \cup {None}) BY <1>1, <1>3, SeqDef
<1>5. Len(c) = l BY <1>1, <1>3, <1>4, LenProperties
<1>6. QED BY <1>4, <1>5

\* What every state knows of them.
Stored(h, l, s, c) ==
    /\ h \in Index /\ l \in 0..capacity /\ s \in [Index -> Item \cup {None}]
    /\ c \in Seq(Item \cup {None}) /\ Len(c) = l
    /\ \A n \in 1..l : c[n] = s[SlotAt(h, n)]

\* The contents before a step and after it.
LEMMA ContentsAreStored ==
    /\ TypeOK => Stored(head, len, storage, Contents)
    /\ TypeOK' => Stored(head', len', storage', Contents')
<1>1. ASSUME TypeOK PROVE Stored(head, len, storage, Contents)
  <2>1. /\ head \in Index /\ len \in 0..capacity /\ storage \in [Index -> Item \cup {None}]
        /\ Contents = [n \in 1..len |-> storage[SlotAt(head, n)]]
    BY <1>1 DEF TypeOK, Contents, SlotAt
  <2>2. QED BY <2>1, ContentsAreASeq DEF Stored
<1>2. ASSUME TypeOK' PROVE Stored(head', len', storage', Contents')
  <2>1. /\ head' \in Index /\ len' \in 0..capacity /\ storage' \in [Index -> Item \cup {None}]
        /\ Contents' = [n \in 1..len' |-> storage'[SlotAt(head', n)]]
    BY <1>2 DEF TypeOK, Contents, SlotAt
  <2>2. QED BY <2>1, ContentsAreASeq DEF Stored
<1>3. QED BY <1>1, <1>2

\* A push at the back appends.
LEMMA PushBackAppends ==
    ASSUME TypeOK, TypeOK', RingIsClosed, len < capacity, NEW i \in Item, Push(i, FALSE)
    PROVE  Contents' = Append(Contents, i) /\ RingIsClosed'
<1>1. /\ capacity \in Nat \ {0} /\ len \in Nat /\ len' = len + 1 /\ head' = head
      /\ head \in Index /\ storage \in [Index -> Item \cup {None}]
      /\ storage' = [storage EXCEPT ![tail] = i]
      /\ tail = SlotAt(head, len + 1) /\ tail' = (tail + 1) % capacity
  BY QueueConstants DEF TypeOK, Push, RingIsClosed
<1>2. \A n \in 1..(len + 1) : SlotAt(head, n) \in Index /\ (SlotAt(head, n) = tail <=> n = len + 1)
  BY <1>1, SlotAtIs, SlotsDiffer
<1>3. /\ Stored(head, len, storage, Contents)
      /\ Stored(head, len + 1, storage', Contents')
  BY <1>1, ContentsAreStored
<1>4. Contents' = Append(Contents, i)
  <2>1. /\ Append(Contents, i) \in Seq(Item \cup {None})
        /\ Len(Append(Contents, i)) = len + 1
        /\ \A n \in 1..(len + 1) :
              Append(Contents, i)[n] = IF n = len + 1 THEN i ELSE Contents[n]
    BY <1>1, <1>3 DEF Stored
  <2>2. \A n \in 1..(len + 1) : Contents'[n] = Append(Contents, i)[n]
    BY <1>1, <1>2, <1>3, <2>1 DEF Stored
  <2>3. QED BY <1>3, <2>1, <2>2, SeqEqual DEF Stored
<1>5. tail' = SlotAt(head, (len + 1) + 1) BY <1>1, SlotAfter
<1>6. QED BY <1>1, <1>4, <1>5 DEF RingIsClosed

\* A push at the front comes before everything.
LEMMA PushFrontPrepends ==
    ASSUME TypeOK, TypeOK', RingIsClosed, len < capacity, NEW i \in Item, Push(i, TRUE)
    PROVE  Contents' = <<i>> \o Contents /\ RingIsClosed'
<1>1. /\ capacity \in Nat \ {0} /\ len \in Nat /\ len' = len + 1
      /\ head \in Index /\ storage \in [Index -> Item \cup {None}]
      /\ head' = (head + capacity - 1) % capacity
      /\ storage' = [storage EXCEPT ![head'] = i]
      /\ tail = SlotAt(head, len + 1) /\ tail' = tail
  BY QueueConstants DEF TypeOK, Push, RingIsClosed
<1>2. /\ head' \in Index /\ SlotAt(head', 1) = head'
      /\ \A n \in 1..(len + 1) : SlotAt(head', n + 1) = SlotAt(head, n)
      /\ \A n \in 1..len : SlotAt(head, n) \in Index /\ SlotAt(head, n) # head'
  <2>1. /\ head' \in Index /\ SlotAt(head', 1) = head'
        /\ \A n \in 1..capacity : SlotAt(head', n + 1) = SlotAt(head, n)
        /\ \A n \in 1..(capacity - 1) : SlotAt(head, n) # head'
    BY <1>1, HeadBack
  <2>2. QED BY <1>1, <2>1, SlotAtIs
<1>3. /\ Stored(head, len, storage, Contents)
      /\ Stored(head', len + 1, storage', Contents')
  BY <1>1, ContentsAreStored
<1>4. Contents' = <<i>> \o Contents
  <2>1. /\ <<i>> \o Contents \in Seq(Item \cup {None})
        /\ Len(<<i>> \o Contents) = len + 1
        /\ \A n \in 1..(len + 1) :
              (<<i>> \o Contents)[n] = IF n <= 1 THEN i ELSE Contents[n - 1]
    <3>1. <<i>> \in Seq(Item \cup {None}) /\ Len(<<i>>) = 1 /\ <<i>>[1] = i OBVIOUS
    <3>2. QED BY <1>1, <1>3, <3>1, ConcatProperties DEF Stored
  <2>2. Contents'[1] = i BY <1>1, <1>2, <1>3 DEF Stored
  <2>3. \A n \in 1..len : Contents'[n + 1] = Contents[n] BY <1>1, <1>2, <1>3 DEF Stored
  <2>4. \A n \in 1..(len + 1) : Contents'[n] = (<<i>> \o Contents)[n]
    <3>1. TAKE n \in 1..(len + 1)
    <3>2. CASE n = 1 BY <1>1, <2>1, <2>2, <3>2
    <3>3. CASE n # 1
      <4>1. n - 1 \in 1..len /\ (n - 1) + 1 = n BY <1>1, <3>3
      <4>2. Contents'[n] = Contents[n - 1] BY <2>3, <4>1
      <4>3. QED BY <1>1, <2>1, <3>3, <4>2
    <3>4. QED BY <3>2, <3>3
  <2>5. QED BY <1>3, <2>1, <2>4, SeqEqual DEF Stored
<1>5. tail' = SlotAt(head', (len + 1) + 1) BY <1>1, <1>2
<1>6. QED BY <1>1, <1>4, <1>5 DEF RingIsClosed

\* A pop takes the first item.
LEMMA PopDropsHead ==
    ASSUME TypeOK, TypeOK', RingIsClosed, len > 0, Pop
    PROVE  /\ Contents # <<>> /\ Contents' = Tail(Contents)
           /\ storage[head] = Head(Contents)
           /\ RingIsClosed'
<1>1. /\ capacity \in Nat \ {0} /\ len \in 1..capacity /\ len' = len - 1
      /\ head \in Index /\ head' = (head + 1) % capacity
      /\ storage' = storage /\ tail' = tail /\ tail = SlotAt(head, len + 1)
  BY QueueConstants DEF TypeOK, Pop, RingIsClosed
<1>2. /\ head' \in Index /\ SlotAt(head, 1) = head
      /\ \A n \in 1..len : SlotAt(head', n) = SlotAt(head, n + 1)
  <2>1. /\ head' \in Index /\ SlotAt(head, 1) = head
        /\ \A n \in 1..capacity : SlotAt(head', n) = SlotAt(head, n + 1)
    BY <1>1, HeadForward
  <2>2. QED BY <1>1, <2>1
<1>3. /\ Stored(head, len, storage, Contents)
      /\ Stored(head', len - 1, storage, Contents')
  BY <1>1, ContentsAreStored
<1>4. Contents # <<>> /\ storage[head] = Head(Contents)
  BY <1>1, <1>2, <1>3, EmptySeq DEF Stored
<1>5. Contents' = Tail(Contents)
  <2>1. /\ Tail(Contents) \in Seq(Item \cup {None})
        /\ Len(Tail(Contents)) = len - 1
        /\ \A n \in 1..(len - 1) : Tail(Contents)[n] = Contents[n + 1]
    BY <1>3, <1>4, HeadTailProperties DEF Stored
  <2>2. \A n \in 1..(len - 1) : Contents'[n] = Contents[n + 1]
    BY <1>1, <1>2, <1>3 DEF Stored
  <2>3. \A n \in 1..(len - 1) : Contents'[n] = Tail(Contents)[n] BY <2>1, <2>2
  <2>4. QED BY <1>3, <2>1, <2>3, SeqEqual DEF Stored
<1>6. tail' = SlotAt(head', (len - 1) + 1) BY <1>1, <1>2
<1>7. QED BY <1>1, <1>4, <1>5, <1>6 DEF RingIsClosed

-----------------------------------------------------------------------------
(* The steps, seen from the abstract queue.                                *)

\* What the refinement needs besides the invariant.
RingInv == RingIsClosed /\ CarriesItem

\* A new queue is an empty one.
LEMMA InitAbstract == Init => RingInv /\ Abstract!Init
<1> SUFFICES ASSUME Init PROVE RingInv /\ Abstract!Init OBVIOUS
<1>1. capacity \in Nat \ {0} /\ 0 \in Index BY QueueConstants DEF Index
<1>2. TypeOK BY InitHolds DEF IInv
<1>3. Stored(0, 0, storage, Contents) BY <1>2, ContentsAreStored DEF Init
<1>4. Contents = <<>> BY <1>3, EmptySeq DEF Stored
<1>5. RingIsClosed BY <1>1, HeadForward DEF Init, RingIsClosed
<1>6. CarriesItem BY DEF Init, CarriesItem
<1>7. QED BY <1>4, <1>5, <1>6 DEF RingInv, Init, Abstract!Init

\* A push is one of the abstract sends.
LEMMA PushIsSend ==
    ASSUME TypeOK, TypeOK', RingIsClosed, len < capacity, NEW i \in Item, NEW b \in BOOLEAN,
           Push(i, b), UNCHANGED got
    PROVE  RingIsClosed' /\ Abstract!Next
<1>1. Len(Contents) < capacity BY ContentsAreStored DEF Stored
<1>2. CASE b = FALSE
  <2>1. Contents' = Append(Contents, i) /\ RingIsClosed' BY <1>2, PushBackAppends
  <2>2. QED BY <1>1, <2>1 DEF Abstract!Next, Abstract!SendToBack
<1>3. CASE b = TRUE
  <2>1. Contents' = <<i>> \o Contents /\ RingIsClosed' BY <1>3, PushFrontPrepends
  <2>2. QED BY <1>1, <2>1 DEF Abstract!Next, Abstract!SendToFront
<1>4. QED BY <1>2, <1>3

\* A pop is the abstract receive or remove.
LEMMA PopIsReceive ==
    ASSUME TypeOK, TypeOK', RingIsClosed, len > 0, Pop, got' = storage[head] \/ UNCHANGED got
    PROVE  RingIsClosed' /\ Abstract!Next
<1>1. /\ Contents # <<>> /\ Contents' = Tail(Contents) /\ storage[head] = Head(Contents)
      /\ RingIsClosed'
  BY PopDropsHead
<1>2. QED BY <1>1 DEF Abstract!Next, Abstract!Receive, Abstract!Remove

\* A step that leaves the ring alone is none of the queue's.
LEMMA RingStays ==
    ASSUME UNCHANGED <<ring, got>>
    PROVE  (RingIsClosed => RingIsClosed') /\ UNCHANGED <<Contents, got>>
BY DEF ring, RingIsClosed, SlotAt, Contents

\* Every step is a step of the abstract queue, or none.
LEMMA StepAbstract ==
    ASSUME IInv, IInv', RingInv, [Next]_vars
    PROVE  RingInv' /\ [Abstract!Next]_<<Contents, got>>
<1>1. /\ TypeOK /\ TypeOK' /\ Accounts /\ RingIsClosed /\ CarriesItem
      /\ filled \in Nat /\ empty \in Nat /\ len \in Nat /\ capacity \in Nat
      /\ item \in [Caller -> Item \cup {None}] /\ front \in [Caller -> BOOLEAN]
      /\ pc \in [Caller -> Pc]
  BY AccountsAreSlots, QueueConstants DEF IInv, RingInv, TypeOK
<1>2. ASSUME NEW p \in Caller, SendPush(p) PROVE RingInv' /\ Abstract!Next
  <2>1. len < capacity BY <1>1, <1>2, Counts DEF SendPush, Goto, Accounts
  <2>2. item[p] \in Item /\ front[p] \in BOOLEAN /\ Push(item[p], front[p]) /\ got' = got
    BY <1>1, <1>2 DEF SendPush, Goto, CarriesItem
  <2>3. CarriesItem' BY <1>1, <1>2 DEF SendPush, Goto, CarriesItem
  <2>4. QED BY <1>1, <2>1, <2>2, <2>3, PushIsSend DEF RingInv
<1>3. ASSUME NEW p \in Caller, ReceivePop(p) \/ RemovePop(p) PROVE RingInv' /\ Abstract!Next
  <2>1. len > 0 BY <1>1, <1>3, Counts DEF ReceivePop, RemovePop, Goto, Accounts, RingPcs
  <2>2. Pop /\ (got' = storage[head] \/ got' = got) BY <1>3 DEF ReceivePop, RemovePop
  <2>3. CarriesItem' BY <1>1, <1>3 DEF ReceivePop, RemovePop, Goto, CarriesItem
  <2>4. QED BY <1>1, <2>1, <2>2, <2>3, PopIsReceive DEF RingInv
<1>4. ASSUME NEW i \in Item, IsrSend(i) PROVE RingInv' /\ Abstract!Next
  <2>1. len < capacity BY <1>1, <1>4, Counts DEF IsrSend, TakeEmpty, Accounts
  <2>2. Push(i, FALSE) /\ got' = got BY <1>4 DEF IsrSend, frames
  <2>3. CarriesItem' BY <1>1, <1>4 DEF IsrSend, frames, CarriesItem
  <2>4. QED BY <1>1, <2>1, <2>2, <2>3, PushIsSend DEF RingInv
<1>5. CASE IsrReceive
  <2>1. len > 0 BY <1>1, <1>5, Counts DEF IsrReceive, TakeFilled, Accounts
  <2>2. Pop /\ got' = storage[head] BY <1>5 DEF IsrReceive
  <2>3. CarriesItem' BY <1>1, <1>5 DEF IsrReceive, frames, CarriesItem
  <2>4. QED BY <1>1, <2>1, <2>2, <2>3, PopIsReceive DEF RingInv
<1>6. ASSUME NEW p \in Caller,
             \/ \E i \in Item, b \in BOOLEAN : SendCall(p, i, b)
             \/ SendReserve(p) \/ SendFails(p) \/ SendGive(p)
             \/ ReceiveCall(p) \/ ReceiveClaim(p) \/ ReceiveFails(p)
             \/ RemoveClaim(p) \/ TakeGive(p)
      PROVE  RingInv' /\ UNCHANGED <<Contents, got>>
  <2>1. UNCHANGED <<ring, got>>
    BY <1>6 DEF SendCall, SendReserve, SendFails, SendGive, ReceiveCall, ReceiveClaim,
       ReceiveFails, RemoveClaim, TakeGive
  <2>2. CarriesItem'
    BY <1>1, <1>6 DEF SendCall, SendReserve, SendFails, SendGive, ReceiveCall, ReceiveClaim,
       ReceiveFails, RemoveClaim, TakeGive, Goto, CarriesItem
  <2>3. QED BY <1>1, <2>1, <2>2, RingStays DEF RingInv
<1>7. CASE UNCHANGED vars
  <2>1. UNCHANGED <<ring, got>> /\ CarriesItem' BY <1>1, <1>7 DEF vars, frames, CarriesItem
  <2>2. QED BY <1>1, <2>1, RingStays DEF RingInv
<1>8. QED BY <1>2, <1>3, <1>4, <1>5, <1>6, <1>7 DEF Next, TaskStep, IsrStep

\* The ring between the two semaphores is a bounded queue: whatever sends at
\* either end, receives, removals and interrupts interleave, items leave in the
\* order of the queue, none twice, none lost and none that was not sent.
THEOREM ImplementsBoundedQueue == Spec => QueueIsFifo
<1>1. IInv /\ IInv' /\ RingInv /\ [Next]_vars => RingInv' BY StepAbstract
<1>2. IInv /\ IInv' /\ RingInv /\ [Next]_vars => [Abstract!Next]_<<Contents, got>>
  BY StepAbstract
<1>3. Init => RingInv /\ Abstract!Init BY InitAbstract
<1>4. QED BY <1>1, <1>2, <1>3, InvariantHolds, PTL DEF Spec, QueueIsFifo, Abstract!Spec

=============================================================================

-------------------------- MODULE MCBoards_proofs --------------------------
(***************************************************************************)
(* What the boards of MCBoards promise, for every value of their           *)
(* constants.  The boards share no state: a step of MCBoards is a step of  *)
(* one of them or leaves it alone, so each has an invariant of its own.    *)
(*                                                                         *)
(* NestedIrq: the frames are stacked by level and only the top one is      *)
(* inside the kernel; the numbers on their way are above those before.     *)
(* GridTick: the tick and the idle task move the stored point and the      *)
(* kernel's clock together.  SysTickSleep: the cycles that went by are the *)
(* kernel's ticks, what is pending and what the counter has passed.        *)
(* MpuCell: the boundary is the running task's, and the log is as long as  *)
(* the number of reaches.  RadioTasks: slot, index and stack of a task     *)
(* agree while it lives, while it is deleted and after.  CortexSwitch: who *)
(* masks holds the kernel, and what is saved is what is restored.          *)
(***************************************************************************)
EXTENDS MCBoards, Integers, Sequences, FiniteSetTheorems, TLAPS

-----------------------------------------------------------------------------
(* Arithmetic of the clocks.                                               *)

\* Products grow with their factors (the points of the grid are products).
LEMMA Products ==
    ASSUME NEW a \in Nat, NEW b \in Nat, NEW p \in Nat
    PROVE  /\ a * p \in Nat
           /\ (a + b) * p = a * p + b * p
           /\ a <= b => a * p <= b * p
<1>1. a * p \in Nat /\ b * p \in Nat
  BY SMT
<1>2. (a + b) * p = a * p + b * p
  BY SMT
<1>3. ASSUME a <= b PROVE a * p <= b * p
  <2>1. PICK c \in Nat : b = a + c
    <3>1. b - a \in Nat /\ b = a + (b - a)
      BY <1>3, SMT
    <3> QED BY <3>1
  <2>2. b * p = a * p + c * p /\ c * p \in Nat
    BY <2>1, SMT
  <2> QED BY <2>2, <1>1, SMT
<1> QED BY <1>1, <1>2, <1>3

\* The whole periods in a length of time fit into it.
LEMMA WholePeriods ==
    ASSUME NEW d \in Nat, NEW p \in Nat \ {0}
    PROVE  /\ d \div p \in Nat
           /\ (d \div p) * p <= d
           /\ d < (d \div p + 1) * p
BY SMT

\* A point below the wrap is stored as it is.
LEMMA Stored ==
    ASSUME NEW a \in Nat, NEW w \in Nat, a < w
    PROVE  (a % w) = a
BY SMT
-----------------------------------------------------------------------------
(* NestedIrq.                                                              *)

\* A step of the boards is a step of the nested interrupts, or leaves them alone.
LEMMA NestedMoves ==
    ASSUME [BoardsNext]_all PROVE Nested!Next \/ UNCHANGED nested
BY DEF BoardsNext, all, Ended

\* The level at which a frame runs while it is outside the kernel.
Base(w) == IF w = "high" THEN 3 ELSE IF w \in Nested!Handler THEN 1 ELSE 0

NestedPc ==
    {"run", "call", "yield", "count", "clear", "end", "toSend", "send", "toReceive",
     "receive", "toTick", "tick", "toSwitch", "switch"}

NestedFrame ==
    [who: Nested!Handler \cup Nested!Task \cup {"boot"}, pc: NestedPc, under: Nat,
     ps: Nat, seq: Nat, wake: BOOLEAN]

\* What the core's variables may hold.
NestedTypes ==
    /\ n_level \in Nat /\ n_nest \in Seq(NestedFrame) /\ Len(n_nest) > 0
    /\ n_contexts \in [Nested!Task -> NestedFrame] /\ n_pend \in BOOLEAN
    /\ n_selected \in Nested!Task /\ n_parked \subseteq Nested!Task

\* What the queue and the counts may hold.
NumberTypes ==
    /\ n_fromIsr \in Seq(Nested!Source \X Nat)
    /\ n_sent \in [Nested!Source -> Nat] /\ n_refused \in [Nested!Source -> Nat]
    /\ n_received \in [Nested!Source -> Seq(Nat)]

\* A task is at the bottom, and every handler above it is of a higher level than
\* what it interrupted, which was outside the kernel.
NestShape ==
    /\ n_nest[1].who \in Nested!Task \cup {"boot"}
    /\ \A i \in 2..Len(n_nest) :
          n_nest[i].who \in Nested!Handler /\ n_nest[i].under = Base(n_nest[i - 1].who)
    /\ \A i, j \in 1..Len(n_nest) :
          i < j => Base(n_nest[i].who) < Base(n_nest[j].who) /\ ~Nested!Inside(n_nest[i])

\* The level is the top frame's own, or the mask's with the own one kept in ps.
NestLevel ==
    IF Nested!Inside(Nested!Top) THEN n_level = 3 /\ Nested!Top.ps = Base(Nested!Top.who)
    ELSE n_level = Base(Nested!Top.who)

\* The bottom frame is the selected task's, and every other task was switched
\* out outside the kernel.
RunsSelected ==
    /\ n_nest[1].who \in {n_selected, "boot"}
    /\ "idle" \notin n_parked
    /\ \A t \in Nested!Task : n_contexts[t].who = t /\ ~Nested!Inside(n_contexts[t])

\* What a source has numbered is below its count, and what is on its way is
\* above all that went before.
NumbersGrow ==
    \A s \in Nested!Source :
        /\ \A i \in DOMAIN n_received[s] : n_received[s][i] < n_sent[s]
        /\ \A i \in Nested!QueuedFrom(s) : n_fromIsr[i][2] < n_sent[s]
        /\ \A k \in Nested!InFlight(s) :
              /\ n_nest[k].seq < n_sent[s]
              /\ \A i \in DOMAIN n_received[s] : n_received[s][i] < n_nest[k].seq
              /\ \A i \in Nested!QueuedFrom(s) : n_fromIsr[i][2] < n_nest[k].seq

\* NestedSafe with the strengthening that makes it inductive, in two halves: the
\* frames, and the numbers.
NestInv ==
    NestedTypes /\ NestShape /\ NestLevel /\ RunsSelected /\ Nested!NoSwitchLost
NumbersInv == NumberTypes /\ Nested!Accounted /\ NumbersGrow

-----------------------------------------------------------------------------
(* The frames.                                                             *)

\* The pcs of the sections.
LEMMA InsideIs ==
    ASSUME NEW f
    PROVE  Nested!Inside(f) <=> f.pc \in {"send", "receive", "tick", "switch", "call"}
BY DEF Nested!Inside, Nested!Sections

\* The top frame.
LEMMA TopIs ==
    ASSUME NestedTypes
    PROVE  /\ Len(n_nest) \in Nat /\ Len(n_nest) >= 1 /\ DOMAIN n_nest = 1..Len(n_nest)
           /\ Nested!Top \in NestedFrame /\ Nested!Top = n_nest[Len(n_nest)]
           /\ \A i \in 1..Len(n_nest) : n_nest[i] \in NestedFrame
BY DEF NestedTypes, Nested!Top

\* What KernelExclusive says follows from the shape of the nest.
LEMMA NestExcludes ==
    ASSUME NestInv PROVE Nested!KernelExclusive
<1>0. NestedTypes /\ NestShape
  BY DEF NestInv
<1>1. Len(n_nest) \in Nat /\ Len(n_nest) >= 1 /\ DOMAIN n_nest = 1..Len(n_nest)
  BY <1>0, TopIs
<1>2. ASSUME NEW i \in DOMAIN n_nest, Nested!Inside(n_nest[i]) PROVE i = Len(n_nest)
  BY <1>0, <1>1, <1>2 DEF NestShape
<1>3. ASSUME NEW i \in DOMAIN n_nest, NEW j \in DOMAIN n_nest, i # j
      PROVE  n_nest[i].who # n_nest[j].who
  <2>1. i < j \/ j < i
    BY <1>1, <1>3
  <2>2. Base(n_nest[i].who) # Base(n_nest[j].who)
    BY <1>0, <1>1, <2>1 DEF NestShape, Base
  <2> QED BY <2>2
<1> QED BY <1>2, <1>3 DEF Nested!KernelExclusive

\* A task on top is alone on the core.
LEMMA TopTask ==
    ASSUME NestInv, Nested!Top.who \in Nested!Task PROVE Len(n_nest) = 1
<1>0. NestedTypes /\ NestShape
  BY DEF NestInv
<1>1. Len(n_nest) \in Nat /\ Len(n_nest) >= 1
  BY <1>0, TopIs
<1>t. Nested!Top = n_nest[Len(n_nest)]
  BY <1>0, TopIs
<1>2. Len(n_nest) \in 2..Len(n_nest) => Nested!Top.who \in Nested!Handler
  BY <1>0, <1>t DEF NestShape
<1>3. Nested!Top.who \notin Nested!Handler
  BY DEF Nested!Task, Nested!Handler, Nested!Source
<1>4. Len(n_nest) # 1 => Len(n_nest) \in 2..Len(n_nest)
  <2>1. \A n \in Nat : n >= 1 /\ n # 1 => n \in 2..n
    OBVIOUS
  <2> QED BY <1>1, <2>1
<1> QED BY <1>2, <1>3, <1>4

\* And the switch has only the task it interrupted below it.
LEMMA TopSwitch ==
    ASSUME NestInv, Nested!Top.who = "switch" PROVE Len(n_nest) = 2
<1>0. NestedTypes /\ NestShape
  BY DEF NestInv
<1>1. Len(n_nest) \in Nat /\ Len(n_nest) >= 1
  BY <1>0, TopIs
<1>t. Nested!Top = n_nest[Len(n_nest)]
  BY <1>0, TopIs
<1>2. Len(n_nest) # 1
  <2>1. n_nest[1].who # "switch"
    BY <1>0 DEF NestShape, Nested!Task
  <2> QED BY <1>t, <2>1
<1>3. ASSUME Len(n_nest) > 2 PROVE FALSE
  <2>1. 2 \in 1..Len(n_nest) /\ 2 \in 2..Len(n_nest) /\ Len(n_nest) \in 1..Len(n_nest)
    BY <1>1, <1>3
  <2>2. Base(n_nest[2].who) < Base("switch") /\ n_nest[2].who \in Nested!Handler
    BY <1>0, <1>t, <1>3, <2>1 DEF NestShape
  <2>3. Base("switch") = 1 /\ Base(n_nest[2].who) \in {1, 3}
    BY <2>2 DEF Base
  <2> QED BY <2>2, <2>3
<1>4. \A n \in Nat : n >= 1 /\ n # 1 /\ ~(n > 2) => n = 2
  OBVIOUS
<1> QED BY <1>1, <1>2, <1>3, <1>4

\* The step puts f in the top frame's place.
Replaced(f) ==
    /\ f \in NestedFrame /\ Nested!Becomes(f)
    /\ f.who = Nested!Top.who /\ f.under = Nested!Top.under

\* The nest keeps its shape when the top frame stays who it is.
LEMMA NestInPlace ==
    ASSUME NestedTypes, NestShape, NEW f, Replaced(f),
           IF Nested!Inside(f) THEN n_level' = 3 /\ f.ps = Base(f.who)
           ELSE n_level' = Base(f.who)
    PROVE  /\ n_nest' \in Seq(NestedFrame) /\ Len(n_nest') = Len(n_nest) /\ Nested!Top' = f
           /\ n_level' \in Nat /\ NestShape' /\ NestLevel'
           /\ n_nest'[1].who = n_nest[1].who
           /\ n_nest'[Len(n_nest)] = f
           /\ \A i \in 1..Len(n_nest) : i # Len(n_nest) => n_nest'[i] = n_nest[i]
<1>. DEFINE n == Len(n_nest)
<1>1. n \in Nat /\ n >= 1 /\ DOMAIN n_nest = 1..n /\ Nested!Top = n_nest[n]
  BY TopIs
<1>2. n_nest' = [n_nest EXCEPT ![n] = f] /\ f \in NestedFrame
  BY DEF Replaced, Nested!Becomes
<1>3. n_nest' \in Seq(NestedFrame) /\ Len(n_nest') = n
  BY <1>1, <1>2 DEF NestedTypes
<1> HIDE DEF n
<1>4. n_nest'[n] = f /\ \A i \in 1..n : i # n => n_nest'[i] = n_nest[i]
  <2>1. n \in DOMAIN n_nest
    BY <1>1
  <2> QED BY <1>1, <1>2, <2>1
<1>5. \A i \in 1..n : n_nest'[i].who = n_nest[i].who /\ n_nest'[i].under = n_nest[i].under
  BY <1>1, <1>4 DEF Replaced
<1>6. \A i \in 1..n : i # n => ~Nested!Inside(n_nest[i])
  <2>1. \A i \in 1..n : i # n => i < n /\ n \in 1..n
    BY <1>1
  <2> QED BY <2>1 DEF NestShape, n
<1>7. Nested!Top' = f
  BY <1>3, <1>4 DEF Nested!Top
<1>8. NestShape'
  <2>1. n_nest'[1].who \in Nested!Task \cup {"boot"}
    BY <1>1, <1>5 DEF NestShape
  <2>2. \A i \in 2..n :
           n_nest'[i].who \in Nested!Handler /\ n_nest'[i].under = Base(n_nest'[i - 1].who)
    <3> TAKE i \in 2..n
    <3>1. i \in 1..n /\ i - 1 \in 1..n
      BY <1>1
    <3> QED BY <1>5, <3>1 DEF NestShape, n
  <2>3. \A i, j \in 1..n : i < j => Base(n_nest'[i].who) < Base(n_nest'[j].who)
    BY <1>5 DEF NestShape, n
  <2>4. \A i, j \in 1..n : i < j => n_nest'[i] = n_nest[i] /\ ~Nested!Inside(n_nest[i])
    BY <1>1, <1>4, <1>6
  <2>5. \A i, j \in 1..n : i < j => ~Nested!Inside(n_nest'[i])
    BY <2>4
  <2> QED BY <1>3, <2>1, <2>2, <2>3, <2>5 DEF NestShape
<1>9. NestLevel' /\ n_level' \in Nat
  BY <1>7 DEF NestLevel, Base
<1>10. 1 \in 1..n
  BY <1>1
<1> QED BY <1>3, <1>4, <1>5, <1>7, <1>8, <1>9, <1>10 DEF n

\* A frame that will ask for the switch.
Asks(f) == f.wake \/ (f.who = "switch" /\ f.pc \in {"toSwitch", "switch"})

\* NoSwitchLost, of frames.
LEMMA LostIs ==
    Nested!NoSwitchLost <=>
        ((\E t \in Nested!Task \ n_parked : Nested!Outranks(t)) =>
            (n_pend \/ \E i \in DOMAIN n_nest : Asks(n_nest[i])))
BY DEF Nested!NoSwitchLost, Asks

\* A step that puts f in the top frame's place keeps the frames' invariant if the
\* level fits f and no request for the switch gets lost on the way.
LEMMA NestKept ==
    ASSUME NestInv, NEW f, Replaced(f),
           IF Nested!Inside(f) THEN n_level' = 3 /\ f.ps = Base(f.who)
           ELSE n_level' = Base(f.who),
           n_contexts' = n_contexts, n_selected' = n_selected, n_pend' \in BOOLEAN,
           n_parked' \subseteq Nested!Task \ {"idle"},
           n_pend \/ Asks(Nested!Top) => n_pend' \/ Asks(f),
           \A t \in Nested!Task \ n_parked' :
              Nested!Outranks(t) => t \notin n_parked \/ n_pend' \/ Asks(f)
    PROVE  NestInv'
<1>. DEFINE n == Len(n_nest)
<1>0. NestedTypes /\ NestShape /\ RunsSelected /\ Nested!NoSwitchLost
  BY DEF NestInv
<1>1. /\ n_nest' \in Seq(NestedFrame) /\ Len(n_nest') = n /\ n_level' \in Nat
      /\ NestShape' /\ NestLevel' /\ n_nest'[1].who = n_nest[1].who
  BY <1>0, NestInPlace
<1>2. n_nest'[n] = f /\ \A i \in 1..n : i # n => n_nest'[i] = n_nest[i]
  BY <1>0, NestInPlace
<1>3. n \in Nat /\ n >= 1 /\ DOMAIN n_nest = 1..n
  BY <1>0, TopIs
<1>t. Nested!Top = n_nest[n]
  BY <1>0, TopIs
<1> HIDE DEF n
<1>4. NestedTypes'
  <2>1. Len(n_nest') > 0
    BY <1>1, <1>3
  <2> QED BY <1>0, <1>1, <2>1 DEF NestedTypes
<1>5. RunsSelected'
  <2>1. "idle" \notin n_parked'
    OBVIOUS
  <2> QED BY <1>0, <1>1, <2>1 DEF RunsSelected, Nested!Inside
<1>6. Nested!NoSwitchLost'
  <2>1. DOMAIN n_nest' = 1..n /\ n \in 1..n
    BY <1>1, <1>3
  <2>2. (\E i \in DOMAIN n_nest : Asks(n_nest[i]))
           => Asks(Nested!Top) \/ \E i \in DOMAIN n_nest' : Asks(n_nest'[i])
    BY <1>2, <1>3, <1>t, <2>1
  <2>3. Asks(f) => \E i \in DOMAIN n_nest' : Asks(n_nest'[i])
    BY <1>2, <2>1
  <2>4. (\E t \in Nested!Task \ n_parked' : Nested!Outranks(t)) =>
            (n_pend' \/ \E i \in DOMAIN n_nest' : Asks(n_nest'[i]))
    BY <1>0, <2>2, <2>3, LostIs
  <2>5. \A t : Nested!Outranks(t)' <=> Nested!Outranks(t)
    BY DEF Nested!Outranks
  <2> QED BY <2>4, <2>5 DEF Nested!NoSwitchLost, Asks
<1> QED BY <1>1, <1>4, <1>5, <1>6 DEF NestInv

-----------------------------------------------------------------------------
(* The numbers.                                                            *)

\* Finiteness and size mean the same in NestedIrq.
LEMMA NestedSize == \A S : Nested!Cardinality(S) = Cardinality(S)
BY DEF Nested!Cardinality, Cardinality

\* The places of a source's values in a queue.
From(q, s) == {i \in DOMAIN q : q[i][1] = s}

\* Which is what QueuedFrom names, of the queue.
LEMMA QueuedIs == \A s : Nested!QueuedFrom(s) = From(n_fromIsr, s)
BY DEF Nested!QueuedFrom, From

\* A value sent gets the place after all others.
LEMMA FromAppend ==
    ASSUME NEW T, NEW q \in Seq(T), NEW v \in T, NEW s
    PROVE  /\ IsFiniteSet(From(q, s)) /\ Cardinality(From(q, s)) \in Nat
           /\ From(q, s) \subseteq 1..Len(q)
           /\ v[1] = s => /\ From(Append(q, v), s) = From(q, s) \cup {Len(q) + 1}
                          /\ Cardinality(From(Append(q, v), s)) = Cardinality(From(q, s)) + 1
           /\ v[1] # s => From(Append(q, v), s) = From(q, s)
<1>. DEFINE n == Len(q)
            a == Append(q, v)
<1>1. n \in Nat /\ DOMAIN q = 1..n /\ DOMAIN a = 1..(n + 1) /\ a[n + 1] = v
  OBVIOUS
<1>2. \A i \in 1..n : a[i] = q[i]
  OBVIOUS
<1> HIDE DEF n, a
<1>3. From(q, s) \subseteq 1..n
  BY <1>1 DEF From
<1>4. IsFiniteSet(From(q, s)) /\ Cardinality(From(q, s)) \in Nat
  <2>1. IsFiniteSet(1..n)
    BY <1>1, FS_Interval
  <2> QED BY <1>3, <2>1, FS_Subset, FS_CardinalityType
<1>5. \A i \in 1..(n + 1) : i \in 1..n \/ i = n + 1
  BY <1>1
<1>6. \A i \in 1..n : i \in 1..(n + 1) /\ i < n + 1 /\ i # n + 1
  BY <1>1
<1>7. n + 1 \in 1..(n + 1)
  BY <1>1
<1>8. ASSUME v[1] = s
      PROVE  From(a, s) = From(q, s) \cup {n + 1} /\ Cardinality(From(a, s)) = Cardinality(From(q, s)) + 1
  <2>1. From(a, s) = From(q, s) \cup {n + 1}
    BY <1>1, <1>2, <1>5, <1>6, <1>7, <1>8 DEF From
  <2>2. n + 1 \notin From(q, s)
    BY <1>3, <1>6
  <2> QED BY <1>4, <2>1, <2>2, FS_AddElement
<1>9. ASSUME v[1] # s PROVE From(a, s) = From(q, s)
  BY <1>1, <1>2, <1>5, <1>6, <1>7, <1>9 DEF From
<1> QED BY <1>3, <1>4, <1>8, <1>9 DEF n, a

\* When the first value is taken every other one moves up a place.
LEMMA FromTail ==
    ASSUME NEW T, NEW q \in Seq(T), q # <<>>, NEW s
    PROVE  /\ \A i \in From(Tail(q), s) :
                 i \in Nat /\ i >= 1 /\ i + 1 \in From(q, s) /\ Tail(q)[i] = q[i + 1]
           /\ Cardinality(From(q, s)) \in Nat /\ Cardinality(From(Tail(q), s)) \in Nat
           /\ q[1][1] = s => /\ 1 \in From(q, s)
                             /\ Cardinality(From(q, s)) = Cardinality(From(Tail(q), s)) + 1
           /\ q[1][1] # s => Cardinality(From(q, s)) = Cardinality(From(Tail(q), s))
<1>. DEFINE n == Len(q)
            a == Tail(q)
            g == [i \in From(a, s) |-> i + 1]
<1>1. n \in Nat /\ n >= 1 /\ DOMAIN q = 1..n /\ DOMAIN a = 1..(n - 1) /\ n - 1 \in Nat
  OBVIOUS
<1>2. \A i \in 1..(n - 1) : a[i] = q[i + 1]
  OBVIOUS
<1> HIDE DEF n, a
<1>3. From(q, s) \subseteq 1..n /\ From(a, s) \subseteq 1..(n - 1)
  BY <1>1 DEF From
<1>4. /\ IsFiniteSet(From(q, s)) /\ Cardinality(From(q, s)) \in Nat
      /\ IsFiniteSet(From(a, s)) /\ Cardinality(From(a, s)) \in Nat
  <2>1. IsFiniteSet(1..n) /\ IsFiniteSet(1..(n - 1))
    BY <1>1, FS_Interval
  <2> QED BY <1>3, <2>1, FS_Subset, FS_CardinalityType
<1>5. \A i \in 1..(n - 1) : i \in Nat /\ i >= 1 /\ i + 1 \in 1..n /\ i + 1 # 1
  BY <1>1
<1>6. \A i \in From(a, s) : i \in Nat /\ i >= 1 /\ i + 1 \in From(q, s) \ {1} /\ a[i] = q[i + 1]
  BY <1>1, <1>2, <1>3, <1>5 DEF From
<1>7. \A j \in From(q, s) \ {1} : j - 1 \in From(a, s) /\ (j - 1) + 1 = j
  <2> TAKE j \in From(q, s) \ {1}
  <2>1. j \in 1..n /\ j # 1 /\ q[j][1] = s
    BY <1>1 DEF From
  <2>2. j - 1 \in 1..(n - 1) /\ (j - 1) + 1 = j
    BY <1>1, <2>1
  <2> QED BY <1>1, <1>2, <2>1, <2>2 DEF From
<1>8. ExistsBijection(From(a, s), From(q, s) \ {1})
  <2>1. g \in [From(a, s) -> From(q, s) \ {1}]
    BY <1>6
  <2>2. \A i, j \in From(a, s) : g[i] = g[j] => i = j
    BY <1>6
  <2>3. \A j \in From(q, s) \ {1} : \E i \in From(a, s) : g[i] = j
    <3> TAKE j \in From(q, s) \ {1}
    <3>1. j - 1 \in From(a, s) /\ g[j - 1] = j
      BY <1>7
    <3> QED BY <3>1
  <2> QED
    BY <2>1, <2>2, <2>3 DEF ExistsBijection, Bijection, Injection, Surjection, IsInjective
<1>9. Cardinality(From(q, s) \ {1}) = Cardinality(From(a, s))
  BY <1>4, <1>8, FS_Bijection
<1>10. 1 \in 1..n
  BY <1>1
<1>11. q[1][1] = s => 1 \in From(q, s)
  BY <1>1, <1>10 DEF From
<1>12. q[1][1] # s => 1 \notin From(q, s)
  BY DEF From
<1>13. 1 \in From(q, s) => Cardinality(From(q, s)) = Cardinality(From(a, s)) + 1
  <2>1. 1 \in From(q, s) => Cardinality(From(q, s) \ {1}) = Cardinality(From(q, s)) - 1
    BY <1>4, FS_RemoveElement
  <2> HIDE DEF g
  <2> QED BY <1>4, <1>9, <2>1
<1>14. 1 \notin From(q, s) => Cardinality(From(q, s)) = Cardinality(From(a, s))
  <2>1. 1 \notin From(q, s) => From(q, s) \ {1} = From(q, s)
    OBVIOUS
  <2> QED BY <1>9, <2>1
<1> QED BY <1>4, <1>6, <1>11, <1>12, <1>13, <1>14 DEF a

\* The frames on the way are the same, and so is what they carry.
SameFlight ==
    \A s \in Nested!Source :
        /\ Nested!InFlight(s)' = Nested!InFlight(s)
        /\ \A k \in Nested!InFlight(s) : n_nest'[k].seq = n_nest[k].seq

\* A step that neither numbers, sends nor receives keeps the numbers.
LEMMA NumbersKept ==
    ASSUME NumbersInv, SameFlight,
           UNCHANGED <<n_fromIsr, n_sent, n_refused, n_received>>
    PROVE  NumbersInv'
<1>1. NumberTypes'
  BY DEF NumbersInv, NumberTypes
<1>2. \A s : Nested!QueuedFrom(s)' = Nested!QueuedFrom(s)
  BY DEF Nested!QueuedFrom
<1>3. Nested!Accounted'
  BY <1>2, NestedSize DEF NumbersInv, SameFlight, Nested!Accounted
<1>4. NumbersGrow'
  BY <1>2 DEF NumbersInv, SameFlight, NumbersGrow
<1> QED BY <1>1, <1>3, <1>4 DEF NumbersInv

\* A frame on the way.
Carries(f, s) == f.who = s /\ f.pc \in {"toSend", "send"}

\* The flight stays when the top frame's successor carries what it carried.
LEMMA FlightInPlace ==
    ASSUME NestInv, NEW f, Replaced(f), f.seq = Nested!Top.seq,
           \A s \in Nested!Source : Carries(f, s) <=> Carries(Nested!Top, s)
    PROVE  SameFlight
<1>. DEFINE n == Len(n_nest)
<1>1. n \in Nat /\ n >= 1 /\ DOMAIN n_nest = 1..n /\ Nested!Top = n_nest[n]
  BY TopIs DEF NestInv
<1>2. n_nest' = [n_nest EXCEPT ![n] = f]
  BY DEF Replaced, Nested!Becomes
<1> HIDE DEF n
<1>3. DOMAIN n_nest' = 1..n /\ \A i \in 1..n : n_nest'[i] = IF i = n THEN f ELSE n_nest[i]
  BY <1>1, <1>2
<1> SUFFICES ASSUME NEW s \in Nested!Source
             PROVE  /\ Nested!InFlight(s)' = Nested!InFlight(s)
                    /\ \A k \in Nested!InFlight(s) : n_nest'[k].seq = n_nest[k].seq
  BY DEF SameFlight
<1>4. \A i \in 1..n : Carries(n_nest'[i], s) <=> Carries(n_nest[i], s)
  BY <1>1, <1>3
<1>5. Nested!InFlight(s) = {i \in DOMAIN n_nest : Carries(n_nest[i], s)}
  BY DEF Nested!InFlight, Carries
<1>6. Nested!InFlight(s)' = {i \in DOMAIN n_nest' : Carries(n_nest'[i], s)}
  BY DEF Nested!InFlight, Carries
<1>7. Nested!InFlight(s)' = Nested!InFlight(s)
  BY <1>1, <1>3, <1>4, <1>5, <1>6
<1>8. \A k \in Nested!InFlight(s) : n_nest'[k].seq = n_nest[k].seq
  BY <1>1, <1>3, <1>5
<1> QED BY <1>7, <1>8

\* The end of a kernel section: the level is the frame's own again.
LEMMA UnmaskIs ==
    ASSUME NestInv, Nested!Inside(Nested!Top), NEW to \in NestedPc, NEW woke \in BOOLEAN,
           Nested!Unmask(to, woke), to \notin {"send", "receive", "tick", "switch", "call"}
    PROVE  \E f :
             /\ Replaced(f) /\ f.seq = Nested!Top.seq /\ f.pc = to
             /\ f.wake = (Nested!Top.wake \/ woke)
             /\ ~Nested!Inside(f) /\ n_level' = Base(f.who)
<1>. DEFINE f == [Nested!Top EXCEPT !.pc = to, !.wake = Nested!Top.wake \/ woke]
<1>1. Nested!Top \in NestedFrame
  BY TopIs DEF NestInv
<1>2. n_level' = Nested!Top.ps /\ Nested!Becomes(f)
  BY DEF Nested!Unmask
<1>3. Nested!Top.wake \in BOOLEAN
  BY <1>1 DEF NestedFrame
<1>w. (Nested!Top.wake \/ woke) \in BOOLEAN
  BY <1>3
<1>4. /\ f \in NestedFrame /\ f.who = Nested!Top.who /\ f.under = Nested!Top.under
      /\ f.pc = to /\ f.seq = Nested!Top.seq /\ f.wake = (Nested!Top.wake \/ woke)
  BY <1>1, <1>w DEF NestedFrame
<1> HIDE DEF f
<1>5. ~Nested!Inside(f)
  BY <1>4, InsideIs
<1>6. Nested!Top.ps = Base(Nested!Top.who)
  BY DEF NestInv, NestLevel
<1> QED BY <1>2, <1>4, <1>5, <1>6 DEF Replaced

-----------------------------------------------------------------------------
(* The steps that put one frame in the place of another.                   *)

NestedInv == NestInv /\ NumbersInv

\* A source numbers its value outside the kernel.
LEMMA NestedCount ==
    ASSUME NestedInv, NEW s \in Nested!Source, Nested!Count(s) PROVE NestedInv'
<1>. DEFINE f == [Nested!Top EXCEPT !.pc = "toSend", !.seq = n_sent[s]]
            n == Len(n_nest)
<1>0. NestInv /\ NestedTypes /\ NestLevel /\ RunsSelected
  BY DEF NestedInv, NestInv
<1>n. NumberTypes /\ Nested!Accounted /\ NumbersGrow
  BY DEF NestedInv, NumbersInv
<1>1. Nested!Top \in NestedFrame /\ Nested!Top.who = s /\ Nested!Top.pc = "count"
  BY <1>0, TopIs DEF Nested!Count, Nested!At
<1>2. n_sent[s] \in Nat
  BY <1>n DEF NumberTypes
<1>3. /\ f \in NestedFrame /\ f.who = Nested!Top.who /\ f.under = Nested!Top.under
      /\ f.pc = "toSend" /\ f.seq = n_sent[s] /\ f.wake = Nested!Top.wake
  BY <1>1, <1>2 DEF NestedFrame, NestedPc
<1>4. Replaced(f)
  BY <1>3 DEF Replaced, Nested!Count
<1> HIDE DEF f
<1>5. ~Nested!Inside(f) /\ ~Nested!Inside(Nested!Top)
  BY <1>1, <1>3, InsideIs
<1>6. /\ UNCHANGED <<n_level, n_contexts, n_pend, n_selected, n_parked>>
      /\ UNCHANGED <<n_fromIsr, n_refused, n_received>>
      /\ n_sent' = [n_sent EXCEPT ![s] = n_sent[s] + 1]
  BY DEF Nested!Count, Nested!kernel
<1>7. n_level' = Base(f.who)
  BY <1>0, <1>3, <1>5, <1>6 DEF NestLevel
<1>8. Asks(Nested!Top) => Asks(f)
  BY <1>1, <1>3 DEF Asks
<1>9. n_parked' \subseteq Nested!Task \ {"idle"} /\ n_pend' \in BOOLEAN
  BY <1>0, <1>6 DEF NestedTypes, RunsSelected
<1>10. NestInv'
  BY <1>0, <1>4, <1>5, <1>6, <1>7, <1>8, <1>9, NestKept
<1>11. /\ n \in Nat /\ n >= 1 /\ DOMAIN n_nest = 1..n /\ Nested!Top = n_nest[n]
       /\ \A i \in 1..n, j \in 1..n : i < j => Base(n_nest[i].who) < Base(n_nest[j].who)
  BY <1>0, TopIs DEF NestInv, NestShape
<1>12. /\ DOMAIN n_nest' = 1..n /\ n_nest'[n] = f
       /\ \A i \in 1..n : i # n => n_nest'[i] = n_nest[i] /\ n_nest[i].who # s
  <2>1. n_nest' = [n_nest EXCEPT ![n] = f]
    BY <1>4 DEF Replaced, Nested!Becomes
  <2>2. \A i \in 1..n : i # n => i < n /\ n \in 1..n
    <3> HIDE DEF n
    <3> QED BY <1>11
  <2>3. \A i \in 1..n : i # n => Base(n_nest[i].who) < Base(s) /\ Base(s) \in Nat
    BY <1>1, <1>11, <2>2 DEF Base
  <2>4. \A i \in 1..n : i # n => n_nest[i].who # s
    <3> TAKE i \in 1..n
    <3> HAVE i # n
    <3>1. Base(n_nest[i].who) < Base(s) /\ Base(s) \in Nat
      BY <2>3
    <3>2. ~(Base(s) < Base(s))
      BY <3>1
    <3> QED BY <3>1, <3>2
  <2>5. n \in DOMAIN n_nest
    BY <1>11
  <2>6. DOMAIN n_nest' = 1..n /\ n_nest'[n] = f /\ \A i \in 1..n : i # n => n_nest'[i] = n_nest[i]
    <3> HIDE DEF n
    <3> QED BY <1>11, <2>1, <2>5
  <2> QED BY <2>4, <2>6
<1> HIDE DEF n
<1>13. \A u : Nested!InFlight(u) = {i \in 1..n : Carries(n_nest[i], u)}
  BY <1>11 DEF Nested!InFlight, Carries
<1>14. \A u : Nested!InFlight(u)' = {i \in 1..n : Carries(n_nest'[i], u)}
  BY <1>12 DEF Nested!InFlight, Carries
<1>15. \A u : ~Carries(Nested!Top, u)
  BY <1>1 DEF Carries
<1>16. ASSUME NEW u \in Nested!Source, u # s
       PROVE  /\ Nested!InFlight(u)' = Nested!InFlight(u)
              /\ \A k \in Nested!InFlight(u) : n_nest'[k].seq = n_nest[k].seq
  <2>1. ~Carries(f, u)
    BY <1>1, <1>3, <1>16 DEF Carries
  <2>2. \A i \in 1..n : Carries(n_nest'[i], u) <=> Carries(n_nest[i], u)
    BY <1>11, <1>12, <1>15, <2>1
  <2>3. n \notin Nested!InFlight(u)
    BY <1>11, <1>13, <1>15
  <2> QED BY <1>12, <1>13, <1>14, <2>2, <2>3
<1>17. Nested!InFlight(s) = {} /\ Nested!InFlight(s)' = {n}
  <2>1. \A i \in 1..n : ~Carries(n_nest[i], s)
    BY <1>11, <1>12, <1>15 DEF Carries
  <2>2. Carries(f, s)
    BY <1>1, <1>3 DEF Carries
  <2>3. \A i \in 1..n : Carries(n_nest'[i], s) <=> i = n
    BY <1>12, <2>1, <2>2
  <2>4. n \in 1..n
    BY <1>11
  <2> QED BY <1>13, <1>14, <2>1, <2>3, <2>4
<1>18. \A u : Nested!QueuedFrom(u)' = Nested!QueuedFrom(u)
  BY <1>6 DEF Nested!QueuedFrom
<1>19. NumberTypes'
  BY <1>n, <1>2, <1>6 DEF NumberTypes
<1>20. n_sent'[s] = n_sent[s] + 1 /\ \A u \in Nested!Source : u # s => n_sent'[u] = n_sent[u]
  BY <1>n, <1>6 DEF NumberTypes
<1>21. Nested!Accounted'
  <2> SUFFICES ASSUME NEW u \in Nested!Source
               PROVE  /\ n_sent'[u] = Len(n_received'[u]) + n_refused'[u] + Nested!Cardinality(Nested!QueuedFrom(u)')
                                         + (IF Nested!InFlight(u)' = {} THEN 0 ELSE 1)
                      /\ \A i, j \in DOMAIN n_received'[u] : i < j => n_received'[u][i] < n_received'[u][j]
                      /\ \A i, j \in Nested!QueuedFrom(u)' : i < j => n_fromIsr'[i][2] < n_fromIsr'[j][2]
                      /\ \A i \in DOMAIN n_received'[u], j \in Nested!QueuedFrom(u)' :
                            n_received'[u][i] < n_fromIsr'[j][2]
    BY NestedSize DEF Nested!Accounted
  <2>1. CASE u = s
    <3>1. n_sent[s] = Len(n_received[s]) + n_refused[s] + Nested!Cardinality(Nested!QueuedFrom(s)) + 0
      BY <1>n, <1>17 DEF Nested!Accounted
    <3>2. {n} # {}
      OBVIOUS
    <3>3. Len(n_received[s]) \in Nat /\ n_refused[s] \in Nat /\ Cardinality(From(n_fromIsr, s)) \in Nat
      <4>1. n_received[s] \in Seq(Nat) /\ n_refused[s] \in Nat /\ n_fromIsr \in Seq(Nested!Source \X Nat)
        BY <1>n DEF NumberTypes
      <4>2. <<s, 0>> \in Nested!Source \X Nat
        OBVIOUS
      <4> QED BY <4>1, <4>2, FromAppend
    <3>4. n_sent'[s] = Len(n_received[s]) + n_refused[s] + Nested!Cardinality(Nested!QueuedFrom(s)) + 1
      BY <1>20, <3>1, <3>3, NestedSize, QueuedIs
    <3> QED BY <1>n, <1>6, <1>17, <1>18, <2>1, <3>2, <3>4 DEF Nested!Accounted
  <2>2. CASE u # s
    BY <1>n, <1>6, <1>16, <1>18, <1>20, <2>2 DEF Nested!Accounted
  <2> QED BY <2>1, <2>2
<1>22. NumbersGrow'
  <2> SUFFICES ASSUME NEW u \in Nested!Source
               PROVE  /\ \A i \in DOMAIN n_received'[u] : n_received'[u][i] < n_sent'[u]
                      /\ \A i \in Nested!QueuedFrom(u)' : n_fromIsr'[i][2] < n_sent'[u]
                      /\ \A k \in Nested!InFlight(u)' :
                            /\ n_nest'[k].seq < n_sent'[u]
                            /\ \A i \in DOMAIN n_received'[u] : n_received'[u][i] < n_nest'[k].seq
                            /\ \A i \in Nested!QueuedFrom(u)' : n_fromIsr'[i][2] < n_nest'[k].seq
    BY DEF NumbersGrow
  <2>1. CASE u = s
    <3>1. n_nest'[n].seq = n_sent[s]
      BY <1>3, <1>12
    <3>2. /\ \A i \in DOMAIN n_received[s] : n_received[s][i] < n_sent[s] /\ n_received[s][i] \in Nat
          /\ \A i \in Nested!QueuedFrom(s) : n_fromIsr[i][2] < n_sent[s] /\ n_fromIsr[i][2] \in Nat
      <4>1. n_received[s] \in Seq(Nat) /\ n_fromIsr \in Seq(Nested!Source \X Nat)
        BY <1>n DEF NumberTypes
      <4>2. \A i \in DOMAIN n_received[s] : n_received[s][i] \in Nat
        BY <4>1
      <4>3. \A i \in DOMAIN n_fromIsr : n_fromIsr[i][2] \in Nat
        BY <4>1
      <4> QED BY <1>n, <4>2, <4>3 DEF NumbersGrow, Nested!QueuedFrom
    <3>3. \A m \in Nat : m < n_sent[s] => m < n_sent'[s]
      BY <1>2, <1>20
    <3>4. n_sent[s] < n_sent'[s]
      BY <1>2, <1>20
    <3> QED BY <1>6, <1>17, <1>18, <2>1, <3>1, <3>2, <3>3, <3>4
  <2>2. CASE u # s
    BY <1>n, <1>6, <1>16, <1>18, <1>20, <2>2 DEF NumbersGrow
  <2> QED BY <2>1, <2>2
<1> QED BY <1>10, <1>19, <1>21, <1>22 DEF NestedInv, NumbersInv

\* The switching interrupt takes the request over.
LEMMA NestedClear ==
    ASSUME NestedInv, Nested!Clear PROVE NestedInv'
<1>. DEFINE f == [Nested!Top EXCEPT !.pc = "toSwitch"]
<1>0. NestInv /\ NumbersInv /\ NestedTypes /\ NestLevel /\ RunsSelected
  BY DEF NestedInv, NestInv
<1>1. Nested!Top \in NestedFrame /\ Nested!Top.who = "switch" /\ Nested!Top.pc = "clear"
  BY <1>0, TopIs DEF Nested!Clear, Nested!At
<1>2. /\ f \in NestedFrame /\ f.who = Nested!Top.who /\ f.under = Nested!Top.under
      /\ f.pc = "toSwitch" /\ f.seq = Nested!Top.seq
  BY <1>1 DEF NestedFrame, NestedPc
<1>3. Replaced(f)
  BY <1>2 DEF Replaced, Nested!Clear, Nested!Goto
<1> HIDE DEF f
<1>4. ~Nested!Inside(f) /\ ~Nested!Inside(Nested!Top) /\ Asks(f)
  BY <1>1, <1>2, InsideIs DEF Asks
<1>5. /\ UNCHANGED <<n_level, n_contexts, n_selected, n_parked>> /\ n_pend' = FALSE
      /\ UNCHANGED <<n_fromIsr, n_sent, n_refused, n_received>>
  BY DEF Nested!Clear, Nested!kernel, Nested!counts
<1>6. n_level' = Base(f.who)
  BY <1>0, <1>2, <1>4, <1>5 DEF NestLevel
<1>7. n_parked' \subseteq Nested!Task \ {"idle"} /\ n_pend' \in BOOLEAN
  BY <1>0, <1>5 DEF NestedTypes, RunsSelected
<1>8. NestInv'
  BY <1>0, <1>3, <1>4, <1>5, <1>6, <1>7, NestKept
<1>9. SameFlight
  BY <1>0, <1>1, <1>2, <1>3, FlightInPlace DEF Carries
<1> QED BY <1>0, <1>5, <1>8, <1>9, NumbersKept DEF NestedInv

\* A kernel entry keeps the level it found, and masks.
LEMMA NestedMask ==
    ASSUME NestedInv, Nested!Mask PROVE NestedInv'
<1>. DEFINE f == [Nested!Top EXCEPT !.pc = Nested!Sections[Nested!Top.pc], !.ps = n_level]
<1>0. NestInv /\ NumbersInv /\ NestedTypes /\ NestLevel /\ RunsSelected
  BY DEF NestedInv, NestInv
<1>1. /\ Nested!Top \in NestedFrame
      /\ Nested!Top.pc \in {"toSend", "toReceive", "toTick", "toSwitch", "run"}
  BY <1>0, TopIs DEF Nested!Mask, Nested!Sections
<1>2. /\ Nested!Sections[Nested!Top.pc] \in {"send", "receive", "tick", "switch", "call"}
      /\ Nested!Sections[Nested!Top.pc] = "send" <=> Nested!Top.pc = "toSend"
      /\ Nested!Sections[Nested!Top.pc] = "switch" <=> Nested!Top.pc = "toSwitch"
  BY <1>1 DEF Nested!Sections
<1>3. n_level \in Nat
  BY <1>0 DEF NestedTypes
<1>4. /\ f \in NestedFrame /\ f.who = Nested!Top.who /\ f.under = Nested!Top.under
      /\ f.pc = Nested!Sections[Nested!Top.pc] /\ f.seq = Nested!Top.seq
      /\ f.wake = Nested!Top.wake /\ f.ps = n_level
  BY <1>1, <1>2, <1>3 DEF NestedFrame, NestedPc
<1>5. Replaced(f)
  BY <1>4 DEF Replaced, Nested!Mask
<1> HIDE DEF f
<1>6. Nested!Inside(f) /\ ~Nested!Inside(Nested!Top)
  BY <1>1, <1>2, <1>4, InsideIs
<1>7. Asks(Nested!Top) => Asks(f)
  BY <1>1, <1>2, <1>4 DEF Asks
<1>8. /\ UNCHANGED <<n_contexts, n_pend, n_selected, n_parked>> /\ n_level' = 3
      /\ UNCHANGED <<n_fromIsr, n_sent, n_refused, n_received>>
  BY DEF Nested!Mask, Nested!MaskLevel, Nested!kernel, Nested!counts
<1>9. f.ps = Base(f.who)
  BY <1>0, <1>4, <1>6 DEF NestLevel
<1>10. n_parked' \subseteq Nested!Task \ {"idle"} /\ n_pend' \in BOOLEAN
  BY <1>0, <1>8 DEF NestedTypes, RunsSelected
<1>11. NestInv'
  BY <1>0, <1>5, <1>6, <1>7, <1>8, <1>9, <1>10, NestKept
<1>12. SameFlight
  BY <1>0, <1>1, <1>2, <1>4, <1>5, FlightInPlace DEF Carries
<1> QED BY <1>0, <1>8, <1>11, <1>12, NumbersKept DEF NestedInv

\* A task gives way outside the kernel.
LEMMA NestedYieldNow ==
    ASSUME NestedInv, Nested!YieldNow PROVE NestedInv'
<1>. DEFINE f == [Nested!Top EXCEPT !.pc = "run"]
<1>0. NestInv /\ NumbersInv /\ NestedTypes /\ NestLevel /\ RunsSelected
  BY DEF NestedInv, NestInv
<1>1. Nested!Top \in NestedFrame /\ Nested!Top.who \in Nested!Task /\ Nested!Top.pc = "yield"
  BY <1>0, TopIs DEF Nested!YieldNow
<1>2. /\ f \in NestedFrame /\ f.who = Nested!Top.who /\ f.under = Nested!Top.under
      /\ f.pc = "run" /\ f.seq = Nested!Top.seq
  BY <1>1 DEF NestedFrame, NestedPc
<1>3. Replaced(f)
  BY <1>2 DEF Replaced, Nested!YieldNow, Nested!Goto
<1> HIDE DEF f
<1>4. ~Nested!Inside(f) /\ ~Nested!Inside(Nested!Top)
  BY <1>1, <1>2, InsideIs
<1>5. /\ UNCHANGED <<n_level, n_contexts, n_selected, n_parked>> /\ n_pend' = TRUE
      /\ UNCHANGED <<n_fromIsr, n_sent, n_refused, n_received>>
  BY DEF Nested!YieldNow, Nested!kernel, Nested!counts
<1>6. n_level' = Base(f.who)
  BY <1>0, <1>2, <1>4, <1>5 DEF NestLevel
<1>7. n_parked' \subseteq Nested!Task \ {"idle"} /\ n_pend' \in BOOLEAN
  BY <1>0, <1>5 DEF NestedTypes, RunsSelected
<1>8. NestInv'
  BY <1>0, <1>3, <1>4, <1>5, <1>6, <1>7, NestKept
<1>9. SameFlight
  BY <1>0, <1>1, <1>2, <1>3, FlightInPlace DEF Carries
<1> QED BY <1>0, <1>5, <1>8, <1>9, NumbersKept DEF NestedInv

\* low's receive of what the producer sent.
LEMMA NestedReceive ==
    ASSUME NestedInv, Nested!Receive PROVE NestedInv'
<1>0. NestInv /\ NumbersInv /\ NestedTypes /\ RunsSelected
  BY DEF NestedInv, NestInv
<1>1. Nested!Top.who = "low" /\ Nested!Top.pc = "receive" /\ Nested!Inside(Nested!Top)
  BY InsideIs DEF Nested!Receive, Nested!At
<1>2. PICK woke \in BOOLEAN :
        /\ Nested!Unmask("end", woke)
        /\ n_parked' = n_parked \/ n_parked' = n_parked \ {"producer"}
        /\ \A t \in Nested!Task \ n_parked' : Nested!Outranks(t) => t \notin n_parked \/ woke
  <2>1. CASE n_toIsr > 0
    <3>1. Nested!Wakes("producer") \in BOOLEAN
      BY DEF Nested!Wakes
    <3>2. /\ Nested!Unmask("end", Nested!Wakes("producer")) /\ n_parked' = n_parked \ {"producer"}
      BY <2>1 DEF Nested!Receive, Nested!Readies
    <3> QED BY <3>1, <3>2 DEF Nested!Wakes
  <2>2. CASE ~(n_toIsr > 0)
    BY <2>2 DEF Nested!Receive
  <2> QED BY <2>1, <2>2
<1>3. /\ UNCHANGED <<n_contexts, n_pend, n_selected>>
      /\ UNCHANGED <<n_fromIsr, n_sent, n_refused, n_received>>
  BY DEF Nested!Receive, Nested!counts
<1>4. PICK f :
        /\ Replaced(f) /\ f.seq = Nested!Top.seq /\ f.pc = "end"
        /\ f.wake = (Nested!Top.wake \/ woke) /\ ~Nested!Inside(f) /\ n_level' = Base(f.who)
  BY <1>0, <1>1, <1>2, UnmaskIs DEF NestedPc
<1>5. f.who = Nested!Top.who
  BY <1>4 DEF Replaced
<1>6. (Asks(Nested!Top) => Asks(f)) /\ (woke => Asks(f))
  BY <1>1, <1>4 DEF Asks
<1>7. n_parked' \subseteq Nested!Task \ {"idle"} /\ n_pend' \in BOOLEAN
  BY <1>0, <1>2, <1>3 DEF NestedTypes, RunsSelected
<1>8. NestInv'
  BY <1>0, <1>2, <1>3, <1>4, <1>6, <1>7, NestKept
<1>9. SameFlight
  BY <1>0, <1>1, <1>4, <1>5, FlightInPlace DEF Carries
<1> QED BY <1>0, <1>3, <1>8, <1>9, NumbersKept DEF NestedInv

\* The tick, which may end the wait of one task.
LEMMA NestedTick ==
    ASSUME NestedInv, Nested!Tick PROVE NestedInv'
<1>0. NestInv /\ NumbersInv /\ NestedTypes /\ RunsSelected
  BY DEF NestedInv, NestInv
<1>1. Nested!Top.who = "tick" /\ Nested!Top.pc = "tick" /\ Nested!Inside(Nested!Top)
  BY InsideIs DEF Nested!Tick, Nested!At
<1>2. PICK woke \in BOOLEAN :
        /\ Nested!Unmask("end", woke) /\ n_parked' \subseteq n_parked
        /\ \A t \in Nested!Task \ n_parked' : Nested!Outranks(t) => t \notin n_parked \/ woke
  <2>1. CASE UNCHANGED n_parked /\ Nested!Unmask("end", FALSE)
    BY <2>1
  <2>2. ASSUME NEW t \in n_parked, Nested!Readies(t), Nested!Unmask("end", Nested!Wakes(t))
        PROVE  \E woke \in BOOLEAN :
                 /\ Nested!Unmask("end", woke) /\ n_parked' \subseteq n_parked
                 /\ \A u \in Nested!Task \ n_parked' : Nested!Outranks(u) => u \notin n_parked \/ woke
    <3>1. Nested!Wakes(t) \in BOOLEAN
      BY DEF Nested!Wakes
    <3>2. n_parked' = n_parked \ {t}
      BY <2>2 DEF Nested!Readies
    <3> QED BY <2>2, <3>1, <3>2 DEF Nested!Wakes
  <2> QED BY <2>1, <2>2 DEF Nested!Tick
<1>3. /\ UNCHANGED <<n_contexts, n_pend, n_selected>>
      /\ UNCHANGED <<n_fromIsr, n_sent, n_refused, n_received>>
  BY DEF Nested!Tick, Nested!counts
<1>4. PICK f :
        /\ Replaced(f) /\ f.seq = Nested!Top.seq /\ f.pc = "end"
        /\ f.wake = (Nested!Top.wake \/ woke) /\ ~Nested!Inside(f) /\ n_level' = Base(f.who)
  BY <1>0, <1>1, <1>2, UnmaskIs DEF NestedPc
<1>5. f.who = Nested!Top.who
  BY <1>4 DEF Replaced
<1>6. (Asks(Nested!Top) => Asks(f)) /\ (woke => Asks(f))
  BY <1>1, <1>4 DEF Asks
<1>7. n_parked' \subseteq Nested!Task \ {"idle"} /\ n_pend' \in BOOLEAN
  BY <1>0, <1>2, <1>3 DEF NestedTypes, RunsSelected
<1>8. NestInv'
  BY <1>0, <1>2, <1>3, <1>4, <1>6, <1>7, NestKept
<1>9. SameFlight
  BY <1>0, <1>1, <1>4, <1>5, FlightInPlace DEF Carries
<1> QED BY <1>0, <1>3, <1>8, <1>9, NumbersKept DEF NestedInv

\* A task's kernel call parks the task, which asks for the switch, or goes on.
LEMMA NestedCall ==
    ASSUME NestInv, Nested!Top.who \in {"consumer", "producer"}, Nested!Top.pc = "call",
           UNCHANGED <<n_contexts, n_selected>>,
           \/ Nested!Park(Nested!Top.who)
           \/ Nested!Unmask("run", FALSE) /\ UNCHANGED <<n_parked, n_pend>>
    PROVE  NestInv' /\ SameFlight
<1>0. NestedTypes /\ RunsSelected /\ NestShape
  BY DEF NestInv
<1>1. Nested!Inside(Nested!Top)
  BY InsideIs
<1>2. n_selected \in {"consumer", "producer"}
  <2>1. Nested!Top.who \in Nested!Task
    BY DEF Nested!Task
  <2>2. Len(n_nest) = 1 /\ Nested!Top = n_nest[1]
    BY <2>1, TopTask DEF Nested!Top
  <2> QED BY <1>0, <2>2 DEF RunsSelected
<1>3. PICK to \in {"yield", "run"} :
        /\ Nested!Unmask(to, FALSE) /\ n_parked \subseteq n_parked'
        /\ n_parked' \subseteq n_parked \cup {n_selected}
        /\ n_pend' \in BOOLEAN /\ (n_pend => n_pend')
  BY <1>0 DEF Nested!Park, NestedTypes
<1>4. PICK f :
        /\ Replaced(f) /\ f.seq = Nested!Top.seq /\ f.pc = to
        /\ f.wake = (Nested!Top.wake \/ FALSE) /\ ~Nested!Inside(f) /\ n_level' = Base(f.who)
  <2>1. /\ to \in NestedPc /\ FALSE \in BOOLEAN
        /\ to \notin {"send", "receive", "tick", "switch", "call"}
    BY DEF NestedPc
  <2> QED BY <1>1, <1>3, <2>1, UnmaskIs
<1>5. f.who = Nested!Top.who
  BY <1>4 DEF Replaced
<1>6. Asks(Nested!Top) => Asks(f)
  BY <1>4 DEF Asks
<1>7. n_parked' \subseteq Nested!Task \ {"idle"}
  BY <1>0, <1>2, <1>3 DEF NestedTypes, RunsSelected
<1>8. NestInv'
  BY <1>3, <1>4, <1>6, <1>7, NestKept
<1>9. SameFlight
  BY <1>3, <1>4, <1>5, FlightInPlace DEF Carries
<1> QED BY <1>8, <1>9

\* The producer's send, which touches no number.
LEMMA NestedProduce ==
    ASSUME NestedInv, Nested!Produce PROVE NestedInv'
<1>0. NestInv /\ NumbersInv
  BY DEF NestedInv
<1>1. Nested!Top.who = "producer" /\ Nested!Top.pc = "call"
  BY DEF Nested!Produce, Nested!At
<1>2. /\ UNCHANGED <<n_contexts, n_selected>>
      /\ UNCHANGED <<n_fromIsr, n_sent, n_refused, n_received>>
      /\ \/ Nested!Park("producer")
         \/ Nested!Unmask("run", FALSE) /\ UNCHANGED <<n_parked, n_pend>>
  BY DEF Nested!Produce, Nested!counts
<1>3. NestInv' /\ SameFlight
  BY <1>0, <1>1, <1>2, NestedCall
<1> QED BY <1>0, <1>2, <1>3, NumbersKept DEF NestedInv

-----------------------------------------------------------------------------
(* The steps that move values.                                             *)

\* The flight of the sources other than s stays, and s has none, when the frame
\* of s on top carried a value and its successor does not.
LEMMA FlightLands ==
    ASSUME NestInv, NEW f, Replaced(f), NEW s \in Nested!Source,
           Carries(Nested!Top, s), ~Carries(f, s)
    PROVE  /\ Nested!InFlight(s) = {Len(n_nest)} /\ Nested!InFlight(s)' = {}
           /\ \A u \in Nested!Source : u # s =>
                 /\ Nested!InFlight(u)' = Nested!InFlight(u)
                 /\ \A k \in Nested!InFlight(u) : n_nest'[k].seq = n_nest[k].seq
<1>. DEFINE n == Len(n_nest)
<1>1. n \in Nat /\ n >= 1 /\ DOMAIN n_nest = 1..n /\ Nested!Top = n_nest[n]
  BY TopIs DEF NestInv
<1>2. n_nest' = [n_nest EXCEPT ![n] = f] /\ f.who = s /\ Nested!Top.who = s
  BY DEF Replaced, Nested!Becomes, Carries
<1>3. \A i, j \in DOMAIN n_nest : i # j => n_nest[i].who # n_nest[j].who
  BY NestExcludes DEF Nested!KernelExclusive
<1> HIDE DEF n
<1>4. n \in 1..n
  BY <1>1
<1>5. DOMAIN n_nest' = 1..n /\ \A i \in 1..n : n_nest'[i] = IF i = n THEN f ELSE n_nest[i]
  BY <1>1, <1>2
<1>6. \A u : Nested!InFlight(u) = {i \in 1..n : Carries(n_nest[i], u)}
  BY <1>1 DEF Nested!InFlight, Carries
<1>7. \A u : Nested!InFlight(u)' = {i \in 1..n : Carries(n_nest'[i], u)}
  BY <1>5 DEF Nested!InFlight, Carries
<1>8. \A i \in 1..n : i # n => ~Carries(n_nest[i], s)
  BY <1>1, <1>2, <1>3, <1>4 DEF Carries
<1>9. Nested!InFlight(s) = {n}
  BY <1>1, <1>4, <1>6, <1>8
<1>10. Nested!InFlight(s)' = {}
  BY <1>5, <1>7, <1>8
<1>11. ASSUME NEW u \in Nested!Source, u # s
       PROVE  /\ Nested!InFlight(u)' = Nested!InFlight(u)
              /\ \A k \in Nested!InFlight(u) : n_nest'[k].seq = n_nest[k].seq
  <2>1. ~Carries(f, u) /\ ~Carries(n_nest[n], u)
    BY <1>1, <1>2, <1>11 DEF Carries
  <2>2. \A i \in 1..n : Carries(n_nest'[i], u) <=> Carries(n_nest[i], u)
    BY <1>5, <2>1
  <2>3. n \notin Nested!InFlight(u)
    BY <1>6, <2>1
  <2> QED BY <1>5, <1>6, <1>7, <2>2, <2>3
<1> QED BY <1>9, <1>10, <1>11 DEF n

\* The numbers are kept when every source's are: what NumbersInv says of one.
NumbersOf(s) ==
    /\ n_sent[s] = Len(n_received[s]) + n_refused[s] + Cardinality(From(n_fromIsr, s))
                     + (IF Nested!InFlight(s) = {} THEN 0 ELSE 1)
    /\ \A i, j \in DOMAIN n_received[s] : i < j => n_received[s][i] < n_received[s][j]
    /\ \A i, j \in From(n_fromIsr, s) : i < j => n_fromIsr[i][2] < n_fromIsr[j][2]
    /\ \A i \in DOMAIN n_received[s], j \in From(n_fromIsr, s) :
          n_received[s][i] < n_fromIsr[j][2]
    /\ \A i \in DOMAIN n_received[s] : n_received[s][i] < n_sent[s]
    /\ \A i \in From(n_fromIsr, s) : n_fromIsr[i][2] < n_sent[s]
    /\ \A k \in Nested!InFlight(s) :
          /\ n_nest[k].seq < n_sent[s]
          /\ \A i \in DOMAIN n_received[s] : n_received[s][i] < n_nest[k].seq
          /\ \A i \in From(n_fromIsr, s) : n_fromIsr[i][2] < n_nest[k].seq

\* The numbers' invariant says it of every source.
LEMMA NumbersAre ==
    /\ NumbersInv <=> NumberTypes /\ \A s \in Nested!Source : NumbersOf(s)
    /\ NumbersInv' <=> NumberTypes' /\ \A s \in Nested!Source : NumbersOf(s)'
<1>1. NumbersInv <=> NumberTypes /\ \A s \in Nested!Source : NumbersOf(s)
  BY NestedSize, QueuedIs DEF NumbersInv, NumbersOf, Nested!Accounted, NumbersGrow
<1>2. \A s : Nested!QueuedFrom(s)' = From(n_fromIsr', s)
  BY DEF Nested!QueuedFrom, From
<1>3. NumbersInv' <=> NumberTypes' /\ \A s \in Nested!Source : NumbersOf(s)'
  BY <1>2, NestedSize DEF NumbersInv, NumbersOf, Nested!Accounted, NumbersGrow
<1> QED BY <1>1, <1>3

\* A source's value goes into the queue, or is refused as the queue is full.
LEMMA NestedSend ==
    ASSUME NestedInv, NEW s \in Nested!Source, Nested!Send(s) PROVE NestedInv'
<1>. DEFINE to == IF s = "low" THEN "toReceive" ELSE "end"
            q == n_fromIsr
            v == <<s, Nested!Top.seq>>
            room == Len(n_fromIsr) < Cap
            V == Nested!Source \X Nat
<1>0. NestInv /\ NestedTypes /\ RunsSelected /\ NumbersInv
  BY DEF NestedInv, NestInv
<1>1. /\ Nested!Top.who = s /\ Nested!Top.pc = "send" /\ Nested!Inside(Nested!Top)
      /\ Nested!Top \in NestedFrame /\ s # "switch"
  BY <1>0, InsideIs, TopIs DEF Nested!Send, Nested!At, Nested!Source
<1>2. /\ UNCHANGED <<n_contexts, n_pend, n_selected, n_sent, n_received>>
      /\ room => /\ q' = Append(q, v) /\ n_parked' = n_parked \ {"consumer"} /\ n_refused' = n_refused
                 /\ Nested!Unmask(to, Nested!Wakes("consumer"))
      /\ ~room => /\ n_refused' = [n_refused EXCEPT ![s] = n_refused[s] + 1]
                  /\ q' = q /\ n_parked' = n_parked /\ Nested!Unmask(to, FALSE)
  BY DEF Nested!Send, Nested!Readies
<1>3. to \in {"toReceive", "end"}
  OBVIOUS
<1> HIDE DEF to, room
<1>4. PICK woke \in BOOLEAN :
        /\ Nested!Unmask(to, woke) /\ n_parked' \subseteq n_parked
        /\ \A t \in Nested!Task \ n_parked' : Nested!Outranks(t) => t \notin n_parked \/ woke
  <2>1. Nested!Wakes("consumer") \in BOOLEAN
    BY DEF Nested!Wakes
  <2>2. CASE room
    BY <1>2, <2>1, <2>2 DEF Nested!Wakes
  <2>3. CASE ~room
    BY <1>2, <2>3
  <2> QED BY <2>2, <2>3
<1>5. PICK f :
        /\ Replaced(f) /\ f.seq = Nested!Top.seq /\ f.pc = to
        /\ f.wake = (Nested!Top.wake \/ woke) /\ ~Nested!Inside(f) /\ n_level' = Base(f.who)
  <2>1. to \in NestedPc /\ to \notin {"send", "receive", "tick", "switch", "call"}
    BY <1>3 DEF NestedPc
  <2> QED BY <1>0, <1>1, <1>4, <2>1, UnmaskIs
<1>6. f.who = s
  BY <1>1, <1>5 DEF Replaced
<1>7. (Asks(Nested!Top) => Asks(f)) /\ (woke => Asks(f))
  BY <1>1, <1>5 DEF Asks
<1>8. n_parked' \subseteq Nested!Task \ {"idle"} /\ n_pend' \in BOOLEAN
  BY <1>0, <1>2, <1>4 DEF NestedTypes, RunsSelected
<1>9. NestInv'
  BY <1>0, <1>2, <1>4, <1>5, <1>7, <1>8, NestKept
<1>10. Carries(Nested!Top, s) /\ ~Carries(f, s)
  BY <1>1, <1>3, <1>5 DEF Carries
<1>11. /\ Nested!InFlight(s) = {Len(n_nest)} /\ Nested!InFlight(s)' = {}
       /\ \A u \in Nested!Source : u # s =>
             /\ Nested!InFlight(u)' = Nested!InFlight(u)
             /\ \A k \in Nested!InFlight(u) : n_nest'[k].seq = n_nest[k].seq
  BY <1>0, <1>5, <1>10, FlightLands
<1>12. NumberTypes /\ \A u \in Nested!Source : NumbersOf(u)
  BY <1>0, NumbersAre
<1>13. q \in Seq(V) /\ v \in V /\ v[1] = s /\ v[2] = Nested!Top.seq
  BY <1>1, <1>12 DEF NumberTypes, NestedFrame
<1>r. n_refused \in [Nested!Source -> Nat]
  BY <1>12 DEF NumberTypes
<1> HIDE DEF v, V
<1>14. NumberTypes'
  <2>1. q' \in Seq(V)
    <3>1. q' = Append(q, v) \/ q' = q
      BY <1>2
    <3> QED BY <1>13, <3>1
  <2>2. n_refused' \in [Nested!Source -> Nat]
    <3>1. n_refused' = n_refused \/ n_refused' = [n_refused EXCEPT ![s] = n_refused[s] + 1]
      BY <1>2
    <3>2. n_refused[s] + 1 \in Nat
      BY <1>r
    <3> QED BY <1>r, <3>1, <3>2
  <2> QED BY <1>2, <1>12, <2>1, <2>2 DEF NumberTypes, V
<1>15. ASSUME NEW u \in Nested!Source, u # s PROVE NumbersOf(u)'
  <2>1. /\ From(q', u) = From(q, u)
        /\ \A i \in From(q, u) : q'[i] = q[i]
    <3>1. q' = Append(q, v) \/ q' = q
      BY <1>2
    <3>2. /\ From(Append(q, v), u) = From(q, u)
          /\ \A i \in From(q, u) : Append(q, v)[i] = q[i]
      <4>1. v[1] # u
        BY <1>13, <1>15
      <4>2. From(Append(q, v), u) = From(q, u) /\ From(q, u) \subseteq 1..Len(q)
        BY <1>13, <4>1, FromAppend
      <4> QED BY <1>13, <4>2
    <3> QED BY <3>1, <3>2
  <2>2. n_refused'[u] = n_refused[u]
    BY <1>2, <1>12, <1>15 DEF NumberTypes
  <2>3. NumbersOf(u) /\ Nested!InFlight(u)' = Nested!InFlight(u)
        /\ \A k \in Nested!InFlight(u) : n_nest'[k].seq = n_nest[k].seq
    BY <1>11, <1>12, <1>15
  <2> QED BY <1>2, <2>1, <2>2, <2>3 DEF NumbersOf
<1>16. NumbersOf(s)'
  <2>0. NumbersOf(s) /\ n_nest[Len(n_nest)] = Nested!Top
    BY <1>0, <1>12, TopIs
  <2>1. /\ \A i \in DOMAIN n_received[s] : n_received[s][i] < v[2]
        /\ \A i \in From(q, s) : q[i][2] < v[2]
        /\ v[2] < n_sent[s]
    BY <1>11, <1>13, <2>0 DEF NumbersOf
  <2>2. {Len(n_nest)} # {}
    OBVIOUS
  <2>3. n_sent[s] = Len(n_received[s]) + n_refused[s] + Cardinality(From(q, s)) + 1
    BY <1>11, <2>0, <2>2 DEF NumbersOf
  <2>4. /\ n_received[s] \in Seq(Nat) /\ n_refused[s] \in Nat /\ n_sent[s] \in Nat
        /\ Len(n_received[s]) \in Nat
    BY <1>12 DEF NumberTypes
  <2>5. CASE room
    <3>1. /\ From(q', s) = From(q, s) \cup {Len(q) + 1}
          /\ \A i \in From(q, s) : q'[i] = q[i] /\ i < Len(q) + 1
          /\ Cardinality(From(q', s)) = Cardinality(From(q, s)) + 1
          /\ Cardinality(From(q, s)) \in Nat /\ q'[Len(q) + 1] = v
      <4>1. q' = Append(q, v)
        BY <1>2, <2>5
      <4>2. /\ From(Append(q, v), s) = From(q, s) \cup {Len(q) + 1}
            /\ From(q, s) \subseteq 1..Len(q)
            /\ Cardinality(From(Append(q, v), s)) = Cardinality(From(q, s)) + 1
            /\ Cardinality(From(q, s)) \in Nat
        <5>1. /\ From(q, s) \subseteq 1..Len(q) /\ Cardinality(From(q, s)) \in Nat
          BY <1>13, FromAppend
        <5>2. From(Append(q, v), s) = From(q, s) \cup {Len(q) + 1}
          BY <1>13, FromAppend
        <5>3. Cardinality(From(Append(q, v), s)) = Cardinality(From(q, s)) + 1
          BY <1>13, FromAppend
        <5> QED BY <5>1, <5>2, <5>3
      <4>3. /\ \A i \in From(q, s) : Append(q, v)[i] = q[i] /\ i < Len(q) + 1
            /\ Append(q, v)[Len(q) + 1] = v
        BY <1>13, <4>2
      <4> QED BY <4>1, <4>2, <4>3
    <3>2. n_sent'[s] = Len(n_received'[s]) + n_refused'[s] + Cardinality(From(q', s)) + 0
      BY <1>2, <2>3, <2>4, <2>5, <3>1
    <3>3. \A i, j \in From(q', s) : i < j => q'[i][2] < q'[j][2]
      <4>1. SUFFICES ASSUME NEW i \in From(q', s), NEW j \in From(q', s), i < j
                     PROVE  q'[i][2] < q'[j][2]
        OBVIOUS
      <4>2. DOMAIN q = 1..Len(q) /\ Len(q) \in Nat /\ \A k \in From(q, s) : k \in Nat
        BY <1>13 DEF From
      <4>3. i # Len(q) + 1
        BY <3>1, <4>1, <4>2
      <4>4. CASE j = Len(q) + 1
        BY <2>1, <3>1, <4>3, <4>4
      <4>5. CASE j # Len(q) + 1
        BY <2>0, <3>1, <4>1, <4>3, <4>5 DEF NumbersOf
      <4> QED BY <4>4, <4>5
    <3>4. /\ \A i \in DOMAIN n_received'[s], j \in From(q', s) : n_received'[s][i] < q'[j][2]
          /\ \A i \in From(q', s) : q'[i][2] < n_sent'[s]
      BY <1>2, <2>0, <2>1, <3>1 DEF NumbersOf
    <3> QED BY <1>2, <1>11, <2>0, <3>2, <3>3, <3>4 DEF NumbersOf
  <2>6. CASE ~room
    <3>1. n_refused'[s] = n_refused[s] + 1
      BY <1>2, <1>12, <2>6 DEF NumberTypes
    <3>2. Cardinality(From(q, s)) \in Nat
      BY <1>13, FromAppend
    <3>3. n_sent'[s] = Len(n_received'[s]) + n_refused'[s] + Cardinality(From(q', s)) + 0
      BY <1>2, <2>3, <2>4, <2>6, <3>1, <3>2
    <3> QED BY <1>2, <1>11, <2>0, <2>6, <3>3 DEF NumbersOf
  <2> QED BY <2>5, <2>6
<1> QED BY <1>9, <1>14, <1>15, <1>16, NumbersAre DEF NestedInv

\* The consumer takes the first value, or is parked.
LEMMA NestedConsume ==
    ASSUME NestedInv, Nested!Consume PROVE NestedInv'
<1>. DEFINE q == n_fromIsr
            s == q[1][1]
<1>0. NestInv /\ NumbersInv /\ NumberTypes /\ \A u \in Nested!Source : NumbersOf(u)
  BY NumbersAre DEF NestedInv
<1>1. Nested!Top.who = "consumer" /\ Nested!Top.pc = "call"
  BY DEF Nested!Consume, Nested!At
<1>2. /\ UNCHANGED <<n_contexts, n_selected, n_sent, n_refused>>
      /\ \/ Nested!Park("consumer")
         \/ Nested!Unmask("run", FALSE) /\ UNCHANGED <<n_parked, n_pend>>
  BY DEF Nested!Consume
<1>3. NestInv' /\ SameFlight
  BY <1>0, <1>1, <1>2, NestedCall
<1>4. CASE q = <<>>
  <2>1. UNCHANGED <<n_fromIsr, n_received>>
    BY <1>4 DEF Nested!Consume
  <2> QED BY <1>0, <1>2, <1>3, <2>1, NumbersKept DEF NestedInv
<1>5. CASE q # <<>>
  <2>1. /\ q' = Tail(q)
        /\ n_received' = [n_received EXCEPT ![s] = Append(n_received[s], q[1][2])]
    BY <1>5 DEF Nested!Consume
  <2>2. /\ q \in Seq(Nested!Source \X Nat) /\ 1 \in DOMAIN q
        /\ s \in Nested!Source /\ q[1][2] \in Nat
    BY <1>0, <1>5 DEF NumberTypes
  <2> HIDE DEF s
  <2>3. n_received'[s] = Append(n_received[s], q[1][2])
        /\ \A u \in Nested!Source : u # s => n_received'[u] = n_received[u]
    BY <1>0, <2>1, <2>2 DEF NumberTypes
  <2>4. NumberTypes'
    <3>1. q' \in Seq(Nested!Source \X Nat)
      BY <1>5, <2>1, <2>2
    <3>2. n_received[s] \in Seq(Nat)
      BY <1>0, <2>2 DEF NumberTypes
    <3>3. n_received' \in [Nested!Source -> Seq(Nat)]
      <4>1. Append(n_received[s], q[1][2]) \in Seq(Nat)
        BY <2>2, <3>2
      <4> QED BY <1>0, <2>1, <4>1 DEF NumberTypes
    <3> QED BY <1>0, <1>2, <3>1, <3>3 DEF NumberTypes
  <2>5. ASSUME NEW u \in Nested!Source PROVE NumbersOf(u)'
    <3>0. NumbersOf(u) /\ Nested!InFlight(u)' = Nested!InFlight(u)
          /\ \A k \in Nested!InFlight(u) : n_nest'[k].seq = n_nest[k].seq
      BY <1>0, <1>3 DEF SameFlight
    <3>1. /\ \A i \in From(q', u) : i \in Nat /\ i >= 1 /\ i + 1 \in From(q, u) /\ q'[i] = q[i + 1]
          /\ Cardinality(From(q, u)) \in Nat /\ Cardinality(From(q', u)) \in Nat
          /\ s = u => 1 \in From(q, u) /\ Cardinality(From(q, u)) = Cardinality(From(q', u)) + 1
          /\ s # u => Cardinality(From(q, u)) = Cardinality(From(q', u))
      BY <1>5, <2>1, <2>2, FromTail DEF s
    <3>2. \A i, j \in From(q', u) : i < j => i + 1 < j + 1
      BY <3>1
    <3>3. \A i, j \in From(q', u) : i < j => q'[i][2] < q'[j][2]
      BY <3>0, <3>1, <3>2 DEF NumbersOf
    <3>4. \A i \in From(q', u) : q'[i][2] < n_sent'[u]
      BY <1>2, <3>0, <3>1 DEF NumbersOf
    <3>5. \A k \in Nested!InFlight(u)' :
             n_nest'[k].seq < n_sent'[u] /\ \A i \in From(q', u) : q'[i][2] < n_nest'[k].seq
      BY <1>2, <3>0, <3>1 DEF NumbersOf
    <3>6. CASE u # s
      <4>1. n_received'[u] = n_received[u]
        BY <2>3, <3>6
      <4>2. \A i \in DOMAIN n_received'[u], j \in From(q', u) : n_received'[u][i] < q'[j][2]
        BY <3>0, <3>1, <4>1 DEF NumbersOf
      <4> QED BY <1>2, <3>0, <3>1, <3>3, <3>4, <3>5, <3>6, <4>1, <4>2 DEF NumbersOf
    <3>7. CASE u = s
      <4>. DEFINE r == n_received[s]
                  v == q[1][2]
                  m == Len(r)
      <4>1. r \in Seq(Nat) /\ m \in Nat /\ v \in Nat /\ n_refused[s] \in Nat
        BY <1>0, <2>2 DEF NumberTypes
      <4>2. /\ n_received'[u] = Append(r, v) /\ DOMAIN Append(r, v) = 1..(m + 1)
            /\ DOMAIN r = 1..m /\ Len(Append(r, v)) = m + 1
            /\ Append(r, v)[m + 1] = v /\ \A i \in 1..m : Append(r, v)[i] = r[i]
        BY <2>3, <3>7, <4>1
      <4>3. /\ \A i \in 1..m : r[i] < v
            /\ v < n_sent[u]
            /\ \A k \in Nested!InFlight(u) : v < n_nest[k].seq
        BY <3>0, <3>1, <3>7, <4>2 DEF NumbersOf
      <4>4. \A j \in From(q', u) : v < q'[j][2]
        <5>1. \A j \in From(q', u) : 1 < j + 1
          BY <3>1
        <5> QED BY <3>0, <3>1, <3>7, <5>1 DEF NumbersOf
      <4>5. n_sent'[u] = Len(n_received'[u]) + n_refused'[u] + Cardinality(From(q', u))
                           + (IF Nested!InFlight(u)' = {} THEN 0 ELSE 1)
        <5>1. n_sent[u] = m + n_refused[u] + Cardinality(From(q, u))
                            + (IF Nested!InFlight(u) = {} THEN 0 ELSE 1)
          BY <3>0, <3>7 DEF NumbersOf
        <5>2. Len(n_received'[u]) = m + 1 /\ n_refused[u] \in Nat
          BY <3>7, <4>1, <4>2
        <5> HIDE DEF m
        <5>3. m + n_refused[u] + Cardinality(From(q, u)) = (m + 1) + n_refused[u] + Cardinality(From(q', u))
          <6>1. /\ Cardinality(From(q, u)) = Cardinality(From(q', u)) + 1
                /\ Cardinality(From(q', u)) \in Nat
            BY <3>1, <3>7
          <6>2. \A a, b, c \in Nat : a + b + (c + 1) = (a + 1) + b + c
            OBVIOUS
          <6>3. m \in Nat /\ n_refused[u] \in Nat
            BY <4>1, <5>2
          <6>4. m + n_refused[u] + (Cardinality(From(q', u)) + 1)
                   = (m + 1) + n_refused[u] + Cardinality(From(q', u))
            BY <6>1, <6>2, <6>3
          <6> QED BY <6>1, <6>4
        <5> QED BY <1>2, <3>0, <5>1, <5>2, <5>3
      <4> HIDE DEF m, v
      <4>6. \A i \in 1..(m + 1) : i \in 1..m \/ i = m + 1
        BY <4>1
      <4>7. \A i, j \in 1..(m + 1) : i < j => i \in 1..m /\ (j \in 1..m \/ j = m + 1)
        BY <4>1
      <4>8. \A i, j \in DOMAIN n_received'[u] : i < j => n_received'[u][i] < n_received'[u][j]
        <5> SUFFICES ASSUME NEW i \in 1..(m + 1), NEW j \in 1..(m + 1), i < j
                     PROVE  Append(r, v)[i] < Append(r, v)[j]
          BY <4>2
        <5>1. i \in 1..m /\ (j \in 1..m \/ j = m + 1)
          BY <4>7
        <5>2. CASE j \in 1..m
          BY <3>0, <3>7, <4>2, <5>1, <5>2 DEF NumbersOf
        <5>3. CASE j = m + 1
          BY <4>2, <4>3, <5>1, <5>3
        <5> QED BY <5>1, <5>2, <5>3
      <4>9. \A i \in DOMAIN n_received'[u] : n_received'[u][i] = v \/ (i \in 1..m /\ n_received'[u][i] = r[i])
        BY <4>2, <4>6
      <4>10. \A i \in DOMAIN n_received'[u], j \in From(q', u) : n_received'[u][i] < q'[j][2]
        <5> SUFFICES ASSUME NEW i \in DOMAIN n_received'[u], NEW j \in From(q', u)
                     PROVE  n_received'[u][i] < q'[j][2]
          OBVIOUS
        <5>1. \A k \in 1..m : r[k] < q[j + 1][2]
          BY <3>0, <3>1, <3>7, <4>2 DEF NumbersOf
        <5> QED BY <3>1, <4>4, <4>9, <5>1
      <4>11. \A i \in DOMAIN n_received'[u] : n_received'[u][i] < n_sent'[u]
        BY <1>2, <3>0, <3>7, <4>2, <4>3, <4>9 DEF NumbersOf
      <4>12. \A k \in Nested!InFlight(u)', i \in DOMAIN n_received'[u] : n_received'[u][i] < n_nest'[k].seq
        BY <3>0, <3>7, <4>2, <4>3, <4>9 DEF NumbersOf
      <4> QED BY <3>3, <3>4, <3>5, <4>5, <4>8, <4>10, <4>11, <4>12 DEF NumbersOf
    <3> QED BY <3>6, <3>7
  <2> QED BY <1>3, <2>4, <2>5, NumbersAre DEF NestedInv
<1> QED BY <1>4, <1>5

-----------------------------------------------------------------------------
(* The steps that change the nest.                                         *)

\* An interrupt is taken outside the kernel only, above what it outranks.
LEMMA NestedInterrupt ==
    ASSUME NestedInv, NEW h \in Nested!Handler, Nested!Interrupt(h) PROVE NestedInv'
<1>. DEFINE n == Len(n_nest)
            F == Nested!Frame(h, Nested!Entry(h), n_level)
<1>0. /\ NestInv /\ NumbersInv /\ NestedTypes /\ NestShape /\ NestLevel /\ RunsSelected
      /\ Nested!NoSwitchLost
  BY DEF NestedInv, NestInv
<1>1. /\ n \in Nat /\ n >= 1 /\ DOMAIN n_nest = 1..n /\ Nested!Top = n_nest[n]
      /\ n_nest \in Seq(NestedFrame) /\ Nested!Top \in NestedFrame
  BY <1>0, TopIs DEF NestedTypes
<1>2. /\ Nested!LevelOf(h) > n_level /\ n_nest' = Append(n_nest, F)
      /\ n_level' = Nested!LevelOf(h)
      /\ UNCHANGED <<n_contexts, n_pend, n_selected, n_parked>>
      /\ UNCHANGED <<n_fromIsr, n_sent, n_refused, n_received>>
  BY DEF Nested!Interrupt, Nested!kernel, Nested!counts
<1>3. Nested!LevelOf(h) = Base(h) /\ Base(h) \in {1, 3}
  BY DEF Nested!LevelOf, Base
<1>4. ~Nested!Inside(Nested!Top) /\ n_level = Base(Nested!Top.who)
  BY <1>0, <1>2, <1>3 DEF NestLevel
<1>5. /\ F \in NestedFrame /\ F.who = h /\ F.under = n_level
      /\ F.pc \in {"count", "toTick", "clear"}
  <2>1. Nested!Entry(h) \in {"count", "toTick", "clear"}
    BY DEF Nested!Entry
  <2>2. n_level \in Nat
    BY <1>0 DEF NestedTypes
  <2> QED BY <2>1, <2>2 DEF Nested!Frame, NestedFrame, NestedPc
<1> HIDE DEF F
<1>6. /\ n_nest' \in Seq(NestedFrame) /\ Len(n_nest') = n + 1 /\ n_nest'[n + 1] = F
      /\ \A i \in 1..n : n_nest'[i] = n_nest[i]
      /\ DOMAIN n_nest' = 1..(n + 1)
  BY <1>1, <1>2, <1>5
<1> HIDE DEF n
<1>7. ~Nested!Inside(F)
  BY <1>5, InsideIs
<1>8. \A i \in 1..n : /\ Base(n_nest[i].who) \in Nat /\ Base(n_nest[i].who) < Base(h)
                      /\ ~Nested!Inside(n_nest[i])
  <2> TAKE i \in 1..n
  <2>1. Base(n_nest[n].who) < Base(h) /\ Base(n_nest[n].who) \in Nat /\ Base(n_nest[i].who) \in Nat
    BY <1>1, <1>2, <1>3, <1>4 DEF Base
  <2>2. CASE i = n
    BY <1>1, <1>4, <2>1, <2>2
  <2>3. CASE i # n
    <3>1. i < n /\ n \in 1..n
      BY <1>1, <2>3
    <3>2. Base(n_nest[i].who) < Base(n_nest[n].who) /\ ~Nested!Inside(n_nest[i])
      BY <1>0, <3>1 DEF NestShape, n
    <3> QED BY <1>3, <2>1, <3>2
  <2> QED BY <2>2, <2>3
<1>9. \A i \in 1..(n + 1) : i \in 1..n \/ i = n + 1
  BY <1>1
<1>10. NestShape'
  <2>1. n_nest'[1].who \in Nested!Task \cup {"boot"}
    <3>1. 1 \in 1..n
      BY <1>1
    <3> QED BY <1>0, <1>6, <3>1 DEF NestShape
  <2>2. \A i \in 2..(n + 1) :
           n_nest'[i].who \in Nested!Handler /\ n_nest'[i].under = Base(n_nest'[i - 1].who)
    <3> TAKE i \in 2..(n + 1)
    <3>1. i - 1 \in 1..n /\ (i \in 2..n \/ i = n + 1) /\ (n + 1) - 1 = n
      BY <1>1
    <3>2. CASE i \in 2..n
      <4>1. i \in 1..n
        BY <1>1, <3>2
      <4> QED BY <1>0, <1>6, <3>1, <3>2, <4>1 DEF NestShape, n
    <3>3. CASE i = n + 1
      BY <1>1, <1>4, <1>5, <1>6, <3>1, <3>3
    <3> QED BY <3>1, <3>2, <3>3
  <2>3. ASSUME NEW i \in 1..(n + 1), NEW j \in 1..(n + 1), i < j
        PROVE  Base(n_nest'[i].who) < Base(n_nest'[j].who) /\ ~Nested!Inside(n_nest'[i])
    <3>1. i \in 1..n /\ (j \in 1..n \/ j = n + 1)
      BY <1>1, <2>3
    <3>2. CASE j \in 1..n
      BY <1>0, <1>6, <2>3, <3>1, <3>2 DEF NestShape, n
    <3>3. CASE j = n + 1
      BY <1>5, <1>6, <1>8, <3>1, <3>3
    <3> QED BY <3>1, <3>2, <3>3
  <2> QED BY <1>6, <2>1, <2>2, <2>3 DEF NestShape
<1>11. Nested!Top' = F
  BY <1>6 DEF Nested!Top
<1>12. NestLevel'
  BY <1>2, <1>3, <1>5, <1>7, <1>11 DEF NestLevel
<1>13. NestedTypes'
  <2>1. Len(n_nest') > 0
    BY <1>1, <1>6
  <2> QED BY <1>0, <1>2, <1>3, <1>6, <2>1 DEF NestedTypes
<1>14. RunsSelected'
  <2>1. 1 \in 1..n
    BY <1>1
  <2> QED BY <1>0, <1>2, <1>6, <2>1 DEF RunsSelected, Nested!Inside
<1>15. Nested!NoSwitchLost'
  <2>1. \A i \in 1..n : i \in 1..(n + 1)
    BY <1>1
  <2>2. \A t : Nested!Outranks(t)' <=> Nested!Outranks(t)
    BY <1>2 DEF Nested!Outranks
  <2>3. (\E i \in DOMAIN n_nest : Asks(n_nest[i])) => \E i \in DOMAIN n_nest' : Asks(n_nest'[i])
    BY <1>1, <1>6, <2>1
  <2> QED BY <1>0, <1>2, <2>2, <2>3, LostIs DEF Nested!NoSwitchLost, Asks
<1>16. SameFlight
  <2> SUFFICES ASSUME NEW u \in Nested!Source
               PROVE  /\ Nested!InFlight(u)' = Nested!InFlight(u)
                      /\ \A k \in Nested!InFlight(u) : n_nest'[k].seq = n_nest[k].seq
    BY DEF SameFlight
  <2>1. Nested!InFlight(u) = {i \in 1..n : Carries(n_nest[i], u)}
    BY <1>1 DEF Nested!InFlight, Carries
  <2>2. Nested!InFlight(u)' = {i \in 1..(n + 1) : Carries(n_nest'[i], u)}
    BY <1>6 DEF Nested!InFlight, Carries
  <2>3. ~Carries(n_nest'[n + 1], u)
    BY <1>5, <1>6 DEF Carries
  <2>4. \A i \in 1..n : i \in 1..(n + 1)
    BY <1>1
  <2> QED BY <1>6, <1>9, <2>1, <2>2, <2>3, <2>4
<1>17. NestInv'
  BY <1>10, <1>12, <1>13, <1>14, <1>15 DEF NestInv
<1> QED BY <1>0, <1>2, <1>16, <1>17, NumbersKept DEF NestedInv

\* A handler's return uncovers what it interrupted, at the level of that.
LEMMA NestedReturn ==
    ASSUME NestedInv, Nested!Return PROVE NestedInv'
<1>. DEFINE n == Len(n_nest)
<1>0. /\ NestInv /\ NumbersInv /\ NestedTypes /\ NestShape /\ NestLevel /\ RunsSelected
      /\ Nested!NoSwitchLost
  BY DEF NestedInv, NestInv
<1>1. /\ n \in Nat /\ n >= 1 /\ DOMAIN n_nest = 1..n /\ Nested!Top = n_nest[n]
      /\ n_nest \in Seq(NestedFrame) /\ Nested!Top \in NestedFrame
  BY <1>0, TopIs DEF NestedTypes
<1>2. /\ Nested!Top.who \in Nested!Handler /\ Nested!Top.pc = "end"
      /\ n_pend' = (n_pend \/ Nested!Top.wake) /\ n_level' = Nested!Top.under
      /\ n_nest' = SubSeq(n_nest, 1, n - 1)
      /\ UNCHANGED <<n_contexts, n_selected, n_parked>>
      /\ UNCHANGED <<n_fromIsr, n_sent, n_refused, n_received>>
  BY DEF Nested!Return, Nested!RequestAtExit, Nested!kernel, Nested!counts
<1> HIDE DEF n
<1>3. n > 1
  <2>1. n_nest[1].who \notin Nested!Handler
    BY <1>0 DEF NestShape, Nested!Task, Nested!Handler, Nested!Source
  <2>2. n # 1
    BY <1>1, <1>2, <2>1
  <2> QED BY <1>1, <2>2
<1>4. /\ n - 1 \in Nat /\ n - 1 >= 1 /\ n - 1 \in 1..n /\ n - 1 < n /\ n \in 1..n /\ n \in 2..n
      /\ 1 \in 1..(n - 1)
  BY <1>1, <1>3
<1>5. \A i \in 1..(n - 1) : i \in 1..n /\ i # n
  BY <1>1, <1>3
<1>6. /\ n_nest' \in Seq(NestedFrame) /\ Len(n_nest') = n - 1 /\ DOMAIN n_nest' = 1..(n - 1)
      /\ \A i \in 1..(n - 1) : n_nest'[i] = n_nest[i]
  <2>1. \A T : \A q \in Seq(T) : \A m \in Nat : m <= Len(q) =>
           /\ SubSeq(q, 1, m) \in Seq(T) /\ Len(SubSeq(q, 1, m)) = m
           /\ \A i \in 1..m : SubSeq(q, 1, m)[i] = q[i]
    OBVIOUS
  <2>2. n - 1 <= Len(n_nest)
    BY <1>1 DEF n
  <2>3. /\ n_nest' \in Seq(NestedFrame) /\ Len(n_nest') = n - 1
        /\ \A i \in 1..(n - 1) : n_nest'[i] = n_nest[i]
    BY <1>1, <1>2, <1>4, <2>1, <2>2
  <2> QED BY <1>4, <2>3
<1>7. Nested!Top' = n_nest[n - 1]
  BY <1>4, <1>6 DEF Nested!Top
<1>8. n_level' = Base(n_nest[n - 1].who) /\ ~Nested!Inside(n_nest[n - 1])
  BY <1>0, <1>1, <1>2, <1>4 DEF NestShape, n
<1>9. NestLevel' /\ n_level' \in Nat
  BY <1>7, <1>8 DEF NestLevel, Base
<1>10. NestShape'
  <2>1. n_nest'[1].who \in Nested!Task \cup {"boot"}
    BY <1>0, <1>4, <1>6 DEF NestShape
  <2>2. \A i \in 2..(n - 1) :
           n_nest'[i].who \in Nested!Handler /\ n_nest'[i].under = Base(n_nest'[i - 1].who)
    <3> TAKE i \in 2..(n - 1)
    <3>1. i - 1 \in 1..(n - 1) /\ i \in 1..(n - 1) /\ i \in 2..n
      BY <1>1
    <3> QED BY <1>0, <1>6, <3>1 DEF NestShape, n
  <2>3. \A i, j \in 1..(n - 1) :
           i < j => Base(n_nest'[i].who) < Base(n_nest'[j].who) /\ ~Nested!Inside(n_nest'[i])
    BY <1>0, <1>5, <1>6 DEF NestShape, n
  <2> QED BY <1>6, <2>1, <2>2, <2>3 DEF NestShape
<1>11. NestedTypes'
  <2>1. Len(n_nest') > 0
    BY <1>4, <1>6
  <2>2. n_pend' \in BOOLEAN
    BY <1>2
  <2> QED BY <1>0, <1>2, <1>6, <1>9, <2>1, <2>2 DEF NestedTypes
<1>12. RunsSelected'
  BY <1>0, <1>2, <1>4, <1>6 DEF RunsSelected, Nested!Inside
<1>13. Nested!NoSwitchLost'
  <2>1. \A t : Nested!Outranks(t)' <=> Nested!Outranks(t)
    BY <1>2 DEF Nested!Outranks
  <2>2. Asks(Nested!Top) => n_pend'
    BY <1>2 DEF Asks
  <2>3. \A i \in 1..n : i = n \/ i \in 1..(n - 1)
    BY <1>1
  <2>4. (\E i \in DOMAIN n_nest : Asks(n_nest[i]))
           => n_pend' \/ \E i \in DOMAIN n_nest' : Asks(n_nest'[i])
    BY <1>1, <1>6, <2>2, <2>3
  <2>5. n_pend => n_pend'
    BY <1>2
  <2> QED BY <1>0, <1>2, <2>1, <2>4, <2>5, LostIs DEF Nested!NoSwitchLost, Asks
<1>14. SameFlight
  <2> SUFFICES ASSUME NEW u \in Nested!Source
               PROVE  /\ Nested!InFlight(u)' = Nested!InFlight(u)
                      /\ \A k \in Nested!InFlight(u) : n_nest'[k].seq = n_nest[k].seq
    BY DEF SameFlight
  <2>1. Nested!InFlight(u) = {i \in 1..n : Carries(n_nest[i], u)}
    BY <1>1 DEF Nested!InFlight, Carries
  <2>2. Nested!InFlight(u)' = {i \in 1..(n - 1) : Carries(n_nest'[i], u)}
    BY <1>6 DEF Nested!InFlight, Carries
  <2>3. ~Carries(n_nest[n], u)
    BY <1>1, <1>2 DEF Carries
  <2>4. \A i \in 1..n : i = n \/ i \in 1..(n - 1)
    BY <1>1
  <2>5. {i \in 1..n : Carries(n_nest[i], u)} = {i \in 1..(n - 1) : Carries(n_nest'[i], u)}
    BY <1>5, <1>6, <2>3, <2>4
  <2> QED BY <1>6, <2>1, <2>2, <2>5
<1>15. NestInv'
  BY <1>9, <1>10, <1>11, <1>12, <1>13 DEF NestInv
<1> QED BY <1>0, <1>2, <1>14, <1>15, NumbersKept DEF NestedInv

\* The most urgent of the tasks that do not wait.
LEMMA MostUrgentIs ==
    ASSUME "idle" \notin n_parked
    PROVE  /\ Nested!MostUrgent \in Nested!Task \ n_parked
           /\ \A u \in Nested!Task \ n_parked : ~(Nested!Rank(u) > Nested!Rank(Nested!MostUrgent))
<1>1. /\ Nested!Rank("consumer") = 2 /\ Nested!Rank("producer") = 1 /\ Nested!Rank("idle") = 0
      /\ Nested!Task = {"consumer", "producer", "idle"}
  BY DEF Nested!Rank, Nested!Task
<1>2. \E t \in Nested!Task \ n_parked :
         \A u \in Nested!Task \ n_parked : Nested!Rank(t) >= Nested!Rank(u)
  <2>1. CASE "consumer" \notin n_parked
    BY <1>1, <2>1
  <2>2. CASE "consumer" \in n_parked /\ "producer" \notin n_parked
    BY <1>1, <2>2
  <2>3. CASE "consumer" \in n_parked /\ "producer" \in n_parked
    BY <1>1, <2>3
  <2> QED BY <2>1, <2>2, <2>3
<1>3. /\ Nested!MostUrgent \in Nested!Task \ n_parked
      /\ \A u \in Nested!Task \ n_parked : Nested!Rank(Nested!MostUrgent) >= Nested!Rank(u)
  BY <1>2 DEF Nested!MostUrgent
<1>4. \A u \in Nested!Task : Nested!Rank(u) \in Nat
  BY <1>1
<1> QED BY <1>3, <1>4

\* The switch stores the frame it interrupted, which was outside the kernel, and
\* puts the most urgent task's under itself.
LEMMA NestedSwitch ==
    ASSUME NestedInv, Nested!Switch PROVE NestedInv'
<1>. DEFINE from == n_nest[1].who
            mu == Nested!MostUrgent
            F == [Nested!Top EXCEPT !.pc = "end"]
            g == IF from = mu THEN n_nest[1] ELSE n_contexts[mu]
<1>0. /\ NestInv /\ NumbersInv /\ NestedTypes /\ NestShape /\ NestLevel /\ RunsSelected
  BY DEF NestedInv, NestInv
<1>1. /\ Nested!Top \in NestedFrame /\ Nested!Top.who = "switch" /\ Nested!Top.pc = "switch"
      /\ Nested!Inside(Nested!Top)
  BY <1>0, InsideIs, TopIs DEF Nested!Switch, Nested!At
<1>2. Len(n_nest) = 2 /\ n_nest[1] \in NestedFrame /\ DOMAIN n_nest = 1..2 /\ Nested!Top = n_nest[2]
  <2>1. Len(n_nest) = 2
    BY <1>0, <1>1, TopSwitch
  <2>2. 1 \in 1..Len(n_nest)
    BY <2>1
  <2> QED BY <1>0, <2>1, <2>2, TopIs
<1>3. /\ n_selected' = mu /\ n_level' = Nested!Top.ps
      /\ n_nest' = <<g, F>>
      /\ n_contexts' = (IF from = mu \/ from = "boot" THEN n_contexts
                        ELSE [n_contexts EXCEPT ![from] = n_nest[1]])
      /\ UNCHANGED <<n_pend, n_parked>>
      /\ UNCHANGED <<n_fromIsr, n_sent, n_refused, n_received>>
  BY DEF Nested!Switch, Nested!counts
<1>4. mu \in Nested!Task \ n_parked /\ \A u \in Nested!Task \ n_parked : ~(Nested!Rank(u) > Nested!Rank(mu))
  BY <1>0, MostUrgentIs DEF RunsSelected
<1> HIDE DEF mu
<1>5. /\ from \in Nested!Task \cup {"boot"} /\ Nested!Top.under = Base(from)
      /\ ~Nested!Inside(n_nest[1])
  <2>1. 2 \in 2..Len(n_nest) /\ 2 - 1 = 1 /\ 1 \in 1..Len(n_nest) /\ 2 \in 1..Len(n_nest) /\ 1 < 2
    BY <1>2
  <2>2. n_nest[2].under = Base(n_nest[2 - 1].who) /\ ~Nested!Inside(n_nest[1])
    BY <1>0, <2>1 DEF NestShape
  <2> QED BY <1>0, <1>2, <2>1, <2>2 DEF NestShape
<1>6. g \in NestedFrame /\ g.who = mu /\ ~Nested!Inside(g)
  BY <1>0, <1>2, <1>4, <1>5 DEF NestedTypes, RunsSelected
<1>7. /\ F \in NestedFrame /\ F.who = "switch" /\ F.pc = "end" /\ F.under = Base(from)
  BY <1>1, <1>5 DEF NestedFrame, NestedPc
<1> HIDE DEF g, F
<1>8. Base(from) = 0 /\ Base(mu) = 0 /\ Base("switch") = 1
  BY <1>4, <1>5 DEF Base, Nested!Task, Nested!Handler, Nested!Source
<1>9. /\ n_nest' \in Seq(NestedFrame) /\ Len(n_nest') = 2 /\ n_nest'[1] = g /\ n_nest'[2] = F
      /\ DOMAIN n_nest' = 1..2
  BY <1>3, <1>6, <1>7
<1>10. ~Nested!Inside(F)
  BY <1>7, InsideIs
<1>11. n_level' = 1
  BY <1>0, <1>1, <1>3, <1>8 DEF NestLevel
<1>12. NestShape'
  <2>1. \A i \in 2..2 : i = 2 /\ i - 1 = 1
    OBVIOUS
  <2>2. \A i, j \in 1..2 : i < j => i = 1 /\ j = 2
    OBVIOUS
  <2>3. /\ n_nest'[1].who \in Nested!Task \cup {"boot"} /\ "switch" \in Nested!Handler
        /\ n_nest'[2].who \in Nested!Handler /\ n_nest'[2].under = Base(n_nest'[1].who)
        /\ Base(n_nest'[1].who) < Base(n_nest'[2].who) /\ ~Nested!Inside(n_nest'[1])
    BY <1>4, <1>6, <1>7, <1>8, <1>9 DEF Nested!Handler
  <2> QED BY <1>9, <2>1, <2>2, <2>3 DEF NestShape
<1>13. NestLevel'
  <2>1. Nested!Top' = F
    BY <1>9 DEF Nested!Top
  <2> QED BY <1>7, <1>8, <1>10, <1>11, <2>1 DEF NestLevel
<1>14. NestedTypes'
  <2>1. n_contexts' \in [Nested!Task -> NestedFrame]
    BY <1>0, <1>2, <1>3 DEF NestedTypes
  <2>2. Len(n_nest') > 0 /\ n_level' \in Nat
    BY <1>9, <1>11
  <2> QED BY <1>0, <1>3, <1>4, <1>9, <2>1, <2>2 DEF NestedTypes
<1>15. RunsSelected'
  <2>1. \A t \in Nested!Task : n_contexts'[t].who = t /\ ~Nested!Inside(n_contexts'[t])
    BY <1>0, <1>3, <1>5 DEF NestedTypes, RunsSelected
  <2>2. "idle" \notin n_parked' /\ n_nest'[1].who = n_selected'
    BY <1>0, <1>3, <1>6, <1>9 DEF RunsSelected
  <2> QED BY <2>1, <2>2 DEF RunsSelected, Nested!Inside
<1>16. Nested!NoSwitchLost'
  <2>1. \A t \in Nested!Task \ n_parked' : ~Nested!Outranks(t)'
    BY <1>3, <1>4 DEF Nested!Outranks
  <2> QED BY <2>1 DEF Nested!NoSwitchLost
<1>17. SameFlight
  <2> SUFFICES ASSUME NEW u \in Nested!Source
               PROVE  Nested!InFlight(u)' = {} /\ Nested!InFlight(u) = {}
    BY DEF SameFlight
  <2>1. \A i \in 1..2 : i = 1 \/ i = 2
    OBVIOUS
  <2>2. u # "switch" /\ u # "boot" /\ u \notin Nested!Task
    BY DEF Nested!Source, Nested!Task
  <2>3. \A i \in 1..2 : n_nest[i].who # u /\ n_nest'[i].who # u
    BY <1>1, <1>2, <1>4, <1>5, <1>6, <1>7, <1>9, <2>1, <2>2
  <2> QED BY <1>2, <1>9, <2>3 DEF Nested!InFlight
<1>18. NestInv'
  BY <1>12, <1>13, <1>14, <1>15, <1>16 DEF NestInv
<1> QED BY <1>0, <1>3, <1>17, <1>18, NumbersKept DEF NestedInv

\* At boot the switch to the first task is requested, and nothing was sent.
LEMMA NestedStarts ==
    ASSUME Nested!Init PROVE NestedInv
<1>1. /\ n_level = 0 /\ n_nest = <<Nested!Frame("boot", "run", 0)>> /\ n_pend = TRUE
      /\ n_contexts = [t \in Nested!Task |-> Nested!Frame(t, "run", 0)]
      /\ n_selected = "consumer" /\ n_parked = {} /\ n_fromIsr = <<>>
      /\ n_sent = [s \in Nested!Source |-> 0] /\ n_refused = n_sent
      /\ n_received = [s \in Nested!Source |-> <<>>]
  BY DEF Nested!Init
<1>. DEFINE b == Nested!Frame("boot", "run", 0)
<1>2. b \in NestedFrame /\ b.who = "boot" /\ b.pc = "run"
  BY DEF Nested!Frame, NestedFrame, NestedPc
<1> HIDE DEF b
<1>3. /\ n_nest \in Seq(NestedFrame) /\ Len(n_nest) = 1 /\ DOMAIN n_nest = 1..1 /\ n_nest[1] = b
      /\ Nested!Top = b
  BY <1>1, <1>2 DEF Nested!Top, b
<1>4. n_contexts \in [Nested!Task -> NestedFrame]
      /\ \A t \in Nested!Task : n_contexts[t].who = t /\ n_contexts[t].pc = "run"
  BY <1>1 DEF Nested!Frame, NestedFrame, NestedPc
<1>5. NestedTypes
  <2>1. Len(n_nest) > 0 /\ n_level \in Nat /\ n_pend \in BOOLEAN /\ n_parked \subseteq Nested!Task
    BY <1>1, <1>3
  <2>2. n_selected \in Nested!Task
    BY <1>1 DEF Nested!Task
  <2> QED BY <1>3, <1>4, <2>1, <2>2 DEF NestedTypes
<1>6. NestShape
  <2>1. (2..1) = {} /\ \A i, j \in 1..1 : ~(i < j)
    OBVIOUS
  <2> QED BY <1>2, <1>3, <2>1 DEF NestShape
<1>7. NestLevel
  <2>1. ~Nested!Inside(b) /\ Base("boot") = 0
    BY <1>2, InsideIs DEF Base, Nested!Handler, Nested!Source
  <2> QED BY <1>1, <1>2, <1>3, <2>1 DEF NestLevel
<1>8. RunsSelected
  BY <1>1, <1>2, <1>3, <1>4, InsideIs DEF RunsSelected
<1>9. Nested!NoSwitchLost
  BY <1>1 DEF Nested!NoSwitchLost
<1>10. NumberTypes
  BY <1>1 DEF NumberTypes
<1>11. ASSUME NEW s \in Nested!Source PROVE NumbersOf(s)
  <2>1. n_received[s] = <<>> /\ n_sent[s] = 0 /\ n_refused[s] = 0 /\ Len(n_received[s]) = 0
        /\ DOMAIN n_received[s] = {}
    BY <1>1
  <2>2. From(n_fromIsr, s) = {} /\ Cardinality({}) = 0
    BY <1>1, FS_EmptySet DEF From
  <2>3. Nested!InFlight(s) = {}
    BY <1>2, <1>3 DEF Nested!InFlight
  <2> QED BY <2>1, <2>2, <2>3 DEF NumbersOf
<1>12. NumbersInv
  BY <1>10, <1>11, NumbersAre
<1> QED BY <1>5, <1>6, <1>7, <1>8, <1>9, <1>12 DEF NestInv, NestedInv

\* Every step of the nested interrupts keeps the invariant.
LEMMA NestedNext ==
    ASSUME NestedInv, [BoardsNext]_all PROVE NestedInv'
<1>1. CASE Nested!Next
  BY <1>1, NestedInterrupt, NestedReturn, NestedClear, NestedMask, NestedReceive,
     NestedTick, NestedSwitch, NestedCount, NestedSend, NestedConsume, NestedProduce,
     NestedYieldNow DEF Nested!Next
<1>2. CASE UNCHANGED nested
  <2>1. \A f : Nested!Inside(f)' <=> Nested!Inside(f)
    BY DEF Nested!Inside
  <2>2. NestInv'
    <3>1. NestedTypes' /\ NestShape' /\ NestLevel' /\ RunsSelected'
      BY <1>2
      DEF nested, NestedInv, NestInv, NestedTypes, NestShape, NestLevel, RunsSelected,
          Nested!Top
    <3>2. Nested!NoSwitchLost'
      BY <1>2 DEF nested, NestedInv, NestInv, Nested!NoSwitchLost, Nested!Outranks
    <3> QED BY <3>1, <3>2 DEF NestInv
  <2>3. SameFlight
    BY <1>2 DEF nested, SameFlight, Nested!InFlight
  <2>4. UNCHANGED <<n_fromIsr, n_sent, n_refused, n_received>>
    BY <1>2 DEF nested
  <2> QED BY <2>2, <2>3, <2>4, NumbersKept DEF NestedInv
<1> QED BY <1>1, <1>2, NestedMoves

\* xiao-s3-nested, for every length of the queue and any number of interrupts: no
\* interrupt is taken inside a kernel section and none interrupts itself, every
\* value an interrupt numbered is received, refused, queued or on its way, in its
\* source's order, and a task more urgent than the selected one is about to run.
THEOREM NestedIsSafe == BoardsSpec => []NestedSafe
<1>1. BoardsInit => NestedInv
  BY NestedStarts DEF BoardsInit
<1>2. NestedInv /\ [BoardsNext]_all => NestedInv'
  BY NestedNext
<1>3. NestedInv => NestedSafe
  BY NestExcludes DEF NestedInv, NestInv, NumbersInv, NestedSafe
<1> QED BY <1>1, <1>2, <1>3, PTL DEF BoardsSpec

\* A step of the boards is a step of the grid, or leaves it alone.
LEMMA GridMoves ==
    ASSUME [BoardsNext]_all PROVE Grid!Next \/ UNCHANGED grid
BY DEF BoardsNext, all, Ended

-----------------------------------------------------------------------------
(* GridTick.                                                               *)

GridIdle == {"run", "ask", "program", "asleep", "awake", "account", "wind"}

\* The grid's variables and what they may hold.
GridTypes ==
    /\ g_now \in Nat /\ g_now <= GridEnd
    /\ g_alarm \in Nat \cup {Nobody} /\ g_pending \in BOOLEAN
    /\ g_grid \in Nat /\ g_masked \in BOOLEAN /\ g_sleeping \in BOOLEAN
    /\ g_handler \in {"none", "increment"} /\ g_idle \in GridIdle
    /\ g_asked \in Nat /\ g_before \in Nat /\ g_slept \in Nat
    /\ g_ticks \in Nat /\ g_wakeAt \in Nat

\* The idle task inside the kernel is masked, or asleep behind SLEEPING.
GridMasks ==
    /\ g_masked <=> g_idle \in {"ask", "program", "account", "wind"}
    /\ g_sleeping <=> g_idle \in {"asleep", "awake"}
    /\ g_handler = "increment" => g_idle = "run"

\* The kernel does not move while the idle task is in it.
GridAsked ==
    /\ g_idle # "run" => g_ticks + g_asked = g_wakeAt
    /\ g_idle = "wind" => g_slept <= g_asked
    /\ g_idle = "program" => g_before < Grid!Boundary

\* Where a tick can be taken, it is not taken before its point.
AlarmOnGrid ==
    g_idle \in {"run", "ask", "wind"} =>
        /\ g_alarm # Nobody => g_grid <= g_alarm
        /\ g_pending => g_grid <= g_now

\* The ticks that left the grid.
GridTicks == g_ticks + Grid!OnTheWay

\* GridSafe with the strengthening that makes it inductive.
GridInv ==
    /\ GridTypes /\ GridMasks /\ GridAsked /\ AlarmOnGrid
    /\ Grid!GridKept /\ GridTicks * Period <= g_now
    /\ Grid!TickIsArmed

\* The wrap of the stored grid is beyond the time the model runs.
GridFits == GridEnd + Period < Wrap

\* At boot the first alarm stands one period ahead.
LEMMA GridStarts ==
    ASSUME Grid!Init PROVE GridInv
<1> USE ClockConstants
<1>1. GridTypes
  <2>1. 0 \in Nat /\ 0 <= GridEnd /\ Period \in Nat
    OBVIOUS
  <2> QED BY <2>1 DEF Grid!Init, GridTypes, GridIdle
<1>2. GridMasks /\ GridAsked /\ AlarmOnGrid
  BY DEF Grid!Init, GridMasks, GridAsked, AlarmOnGrid
<1>3. Grid!OnTheWay = 0 /\ (0 + 0 + 1) * Period = Period /\ (0 + 0) * Period = 0
  BY DEF Grid!Init, Grid!OnTheWay
<1>4. Grid!GridKept /\ GridTicks * Period <= g_now
  BY <1>3 DEF Grid!Init, Grid!GridKept, GridTicks
<1>5. Grid!TickIsArmed
  BY DEF Grid!Init, Grid!TickIsArmed, Grid!Max2
<1> QED BY <1>1, <1>2, <1>4, <1>5 DEF GridInv

\* Time passes up to the alarm, and makes it pending.
LEMMA GridPass ==
    ASSUME GridFits, GridInv, Grid!Pass PROVE GridInv'
<1> USE ClockConstants
<1>0. GridTypes /\ GridMasks
  BY DEF GridInv
<1>1. GridTypes'
  <2>1. g_now' \in Nat /\ g_now' <= GridEnd
    BY <1>0 DEF Grid!Pass, GridTypes
  <2> QED BY <1>0, <2>1 DEF Grid!Pass, Grid!core, Grid!task, Grid!kernel, GridTypes
<1>2. GridMasks'
  BY <1>0 DEF Grid!Pass, Grid!core, Grid!task, GridMasks
<1>3. GridAsked'
  BY <1>0 DEF Grid!Pass, Grid!task, Grid!kernel, GridInv, GridAsked, Grid!Boundary
<1>4. AlarmOnGrid'
  BY <1>0 DEF Grid!Pass, Grid!task, GridInv, GridTypes, AlarmOnGrid
<1>5. Grid!GridKept'
  BY <1>0
  DEF Grid!Pass, Grid!core, Grid!task, Grid!kernel, GridInv, Grid!GridKept, Grid!OnTheWay
<1>6. (GridTicks * Period <= g_now)'
  BY <1>0
  DEF Grid!Pass, Grid!core, Grid!task, Grid!kernel, GridInv, GridTypes, GridTicks,
      Grid!OnTheWay
<1>7. Grid!TickIsArmed'
  BY <1>0 DEF Grid!Pass, Grid!task, GridInv, GridTypes, Grid!TickIsArmed, Grid!Max2
<1> QED BY <1>1, <1>2, <1>3, <1>4, <1>5, <1>6, <1>7 DEF GridInv

\* The alarm's handler during a window only wakes the core.
LEMMA GridAlarmInSleep ==
    ASSUME GridFits, GridInv, Grid!AlarmInSleep PROVE GridInv'
<1> USE ClockConstants
<1>0. GridTypes /\ GridMasks
  BY DEF GridInv
<1>1. GridTypes'
  BY <1>0 DEF Grid!AlarmInSleep, Grid!core, Grid!kernel, GridTypes, GridIdle
<1>2. GridMasks'
  BY <1>0 DEF Grid!AlarmInSleep, Grid!Suppressed, Grid!core, GridMasks
<1>3. GridAsked'
  BY <1>0
  DEF Grid!AlarmInSleep, Grid!Suppressed, Grid!kernel, GridInv, GridMasks, GridAsked
<1>4. AlarmOnGrid'
  BY <1>0 DEF Grid!AlarmInSleep, AlarmOnGrid
<1>5. Grid!GridKept'
  BY <1>0
  DEF Grid!AlarmInSleep, Grid!Suppressed, Grid!core, Grid!kernel, GridInv, GridMasks,
      Grid!GridKept, Grid!OnTheWay
<1>6. (GridTicks * Period <= g_now)'
  BY <1>0
  DEF Grid!AlarmInSleep, Grid!core, Grid!kernel, GridInv, GridTypes, GridTicks,
      Grid!OnTheWay
<1>7. Grid!TickIsArmed'
  BY <1>0 DEF Grid!AlarmInSleep, Grid!TickIsArmed
<1> QED BY <1>1, <1>2, <1>3, <1>4, <1>5, <1>6, <1>7 DEF GridInv

\* Another interrupt ends a window before its alarm.
LEMMA GridWokenEarly ==
    ASSUME GridFits, GridInv, Grid!WokenEarly PROVE GridInv'
<1> USE ClockConstants
<1>0. GridTypes /\ GridMasks
  BY DEF GridInv
<1>1. GridTypes'
  BY <1>0 DEF Grid!WokenEarly, Grid!clock, Grid!core, Grid!kernel, GridTypes, GridIdle
<1>2. GridMasks'
  BY <1>0 DEF Grid!WokenEarly, Grid!core, GridMasks
<1>3. GridAsked'
  BY <1>0 DEF Grid!WokenEarly, Grid!kernel, GridInv, GridAsked
<1>4. AlarmOnGrid'
  BY <1>0 DEF Grid!WokenEarly, AlarmOnGrid
<1>5. Grid!GridKept'
  BY <1>0
  DEF Grid!WokenEarly, Grid!clock, Grid!core, Grid!kernel, GridInv, Grid!GridKept,
      Grid!OnTheWay
<1>6. (GridTicks * Period <= g_now)'
  BY <1>0
  DEF Grid!WokenEarly, Grid!clock, Grid!core, Grid!kernel, GridInv, GridTicks,
      Grid!OnTheWay
<1>7. Grid!TickIsArmed'
  BY <1>0 DEF Grid!WokenEarly, Grid!TickIsArmed
<1> QED BY <1>1, <1>2, <1>3, <1>4, <1>5, <1>6, <1>7 DEF GridInv

\* The tick's handler takes every whole period behind it off the grid at once.
LEMMA GridTickInterrupt ==
    ASSUME GridFits, GridInv, Grid!TickInterrupt PROVE GridInv'
<1> USE ClockConstants
<1>0. GridTypes /\ GridMasks
  BY DEF GridInv
<1>. DEFINE next == g_grid + Period
<1>a. /\ g_idle = "run" /\ g_handler = "none" /\ g_pending
      /\ g_grid = (g_ticks + 1) * Period /\ g_grid <= g_now
  <2>1. g_handler = "none" /\ g_pending /\ g_idle = "run"
    BY <1>0
    DEF Grid!TickInterrupt, Grid!Open, Grid!Suppressed, GridTypes, GridMasks, GridIdle
  <2>2. Grid!OnTheWay = 0
    BY <2>1 DEF Grid!OnTheWay
  <2>3. g_grid = (g_ticks + 0 + 1) * Period /\ g_ticks + 0 + 1 = g_ticks + 1
    BY <1>0, <2>2 DEF GridInv, Grid!GridKept, GridTypes
  <2> QED BY <2>1, <2>3 DEF GridInv, AlarmOnGrid
<1>b. g_grid' = next /\ next \in Nat
  <2>1. next \in Nat /\ next < Wrap /\ 1 * Period = Period
    BY <1>0, <1>a DEF GridTypes, GridFits
  <2>2. (next % Wrap) = next
    BY <2>1, Stored
  <2> QED BY <2>1, <2>2 DEF Grid!TickInterrupt, Grid!Advance
<1>c. next = (g_ticks + 2) * Period
  BY <1>0, <1>a, Products DEF GridTypes
<1>d. g_alarm' = Grid!Max2(next, g_now + 1) /\ g_pending' = FALSE /\ g_handler' = "increment"
  BY <1>b DEF Grid!TickInterrupt, Grid!ArmAt
<1>e. g_alarm' \in Nat /\ next <= g_alarm'
  BY <1>0, <1>b, <1>d DEF GridTypes, Grid!Max2
<1> HIDE DEF next
<1> USE DEF Grid!TickInterrupt, Grid!task, Grid!kernel
<1>1. GridTypes'
  BY <1>0, <1>b, <1>d, <1>e DEF GridTypes
<1>2. GridMasks'
  BY <1>0, <1>a, <1>d DEF GridMasks
<1>3. GridAsked'
  BY <1>a DEF GridAsked
<1>4. AlarmOnGrid'
  BY <1>b, <1>d, <1>e DEF AlarmOnGrid
<1>x. Grid!OnTheWay' = 1 /\ g_ticks' = g_ticks
  BY <1>a, <1>d DEF Grid!OnTheWay
<1>5. Grid!GridKept'
  BY <1>0, <1>b, <1>c, <1>x DEF Grid!GridKept, GridTypes
<1>6. (GridTicks * Period <= g_now)'
  BY <1>0, <1>a, <1>x DEF GridTicks, GridTypes
<1>7. Grid!TickIsArmed'
  BY <1>b, <1>d, <1>e DEF Grid!TickIsArmed, Grid!Max2
<1> QED BY <1>1, <1>2, <1>3, <1>4, <1>5, <1>6, <1>7 DEF GridInv

\* The kernel is handed one of the ticks the handler counted.
LEMMA GridIncrementTick ==
    ASSUME GridFits, GridInv, Grid!IncrementTick PROVE GridInv'
<1> USE ClockConstants
<1>0. GridTypes /\ GridMasks
  BY DEF GridInv
<1>1. GridTypes'
  BY <1>0 DEF Grid!IncrementTick, Grid!clock, Grid!task, GridTypes
<1>2. GridMasks'
  BY <1>0 DEF Grid!IncrementTick, Grid!task, GridMasks
<1>3. GridAsked'
  BY <1>0 DEF Grid!IncrementTick, Grid!task, GridMasks, GridAsked
<1>4. AlarmOnGrid'
  BY <1>0 DEF Grid!IncrementTick, Grid!clock, GridInv, GridMasks, AlarmOnGrid
<1>5. Grid!GridKept'
  BY <1>0
  DEF Grid!IncrementTick, Grid!clock, Grid!task, GridInv, GridMasks, Grid!GridKept,
      Grid!OnTheWay
<1>6. (GridTicks * Period <= g_now)'
  BY <1>0
  DEF Grid!IncrementTick, Grid!clock, Grid!task, GridInv, GridMasks, GridTicks,
      Grid!OnTheWay
<1>7. Grid!TickIsArmed'
  BY <1>0 DEF Grid!IncrementTick, Grid!clock, GridInv, GridMasks, Grid!TickIsArmed
<1> QED BY <1>1, <1>2, <1>3, <1>4, <1>5, <1>6, <1>7 DEF GridInv

\* A task's work leaves the clock alone.
LEMMA GridWork ==
    ASSUME GridFits, GridInv, Grid!Work PROVE GridInv'
<1> USE ClockConstants
<1>0. GridTypes /\ GridMasks
  BY DEF GridInv
<1>1. GridTypes'
  BY <1>0 DEF Grid!Work, Grid!clock, Grid!core, Grid!task, GridTypes
<1>2. GridMasks'
  BY <1>0 DEF Grid!Work, Grid!core, Grid!task, GridMasks
<1>3. GridAsked'
  BY <1>0 DEF Grid!Work, Grid!Runs, Grid!task, GridAsked
<1>4. AlarmOnGrid'
  BY <1>0 DEF Grid!Work, Grid!clock, Grid!task, GridInv, AlarmOnGrid
<1>5. Grid!GridKept'
  BY <1>0
  DEF Grid!Work, Grid!clock, Grid!core, Grid!task, GridInv, Grid!GridKept, Grid!OnTheWay
<1>6. (GridTicks * Period <= g_now)'
  BY <1>0
  DEF Grid!Work, Grid!clock, Grid!core, Grid!task, GridInv, GridTicks, Grid!OnTheWay
<1>7. Grid!TickIsArmed'
  BY <1>0 DEF Grid!Work, Grid!clock, Grid!task, GridInv, Grid!TickIsArmed
<1> QED BY <1>1, <1>2, <1>3, <1>4, <1>5, <1>6, <1>7 DEF GridInv

\* The idle task asks how far it may sleep, masked.
LEMMA GridSuppress ==
    ASSUME GridFits, GridInv, Grid!Suppress PROVE GridInv'
<1> USE ClockConstants
<1>0. GridTypes /\ GridMasks
  BY DEF GridInv
<1>1. GridTypes'
  BY <1>0 DEF Grid!Suppress, Grid!clock, Grid!kernel, GridTypes, GridIdle
<1>2. GridMasks'
  BY <1>0 DEF Grid!Suppress, Grid!Runs, GridMasks
<1>3. GridAsked'
  BY <1>0 DEF Grid!Suppress, Grid!kernel, GridTypes, GridAsked
<1>4. AlarmOnGrid'
  BY <1>0 DEF Grid!Suppress, Grid!Runs, Grid!clock, GridInv, AlarmOnGrid
<1>5. Grid!GridKept'
  BY <1>0
  DEF Grid!Suppress, Grid!Runs, Grid!clock, Grid!kernel, GridInv, Grid!GridKept,
      Grid!OnTheWay
<1>6. (GridTicks * Period <= g_now)'
  BY <1>0
  DEF Grid!Suppress, Grid!clock, Grid!kernel, GridInv, GridTypes, GridTicks, Grid!OnTheWay
<1>7. Grid!TickIsArmed'
  BY <1>0 DEF Grid!Suppress, Grid!Runs, Grid!clock, GridInv, Grid!TickIsArmed
<1> QED BY <1>1, <1>2, <1>3, <1>4, <1>5, <1>6, <1>7 DEF GridInv

\* A window that is too short is not opened.
LEMMA GridDecline ==
    ASSUME GridFits, GridInv, Grid!Decline PROVE GridInv'
<1> USE ClockConstants
<1>0. GridTypes /\ GridMasks
  BY DEF GridInv
<1>1. GridTypes'
  BY <1>0 DEF Grid!Decline, Grid!clock, Grid!core, Grid!kernel, GridTypes, GridIdle
<1>2. GridMasks'
  BY <1>0 DEF Grid!Decline, Grid!Runs, Grid!core, GridMasks
<1>3. GridAsked'
  BY <1>0 DEF Grid!Decline, Grid!Runs, Grid!kernel, GridInv, GridTypes, GridAsked
<1>4. AlarmOnGrid'
  BY <1>0 DEF Grid!Decline, Grid!Runs, Grid!clock, GridInv, AlarmOnGrid
<1>5. Grid!GridKept'
  BY <1>0
  DEF Grid!Decline, Grid!Runs, Grid!clock, Grid!core, Grid!kernel, GridInv,
      Grid!GridKept, Grid!OnTheWay
<1>6. (GridTicks * Period <= g_now)'
  BY <1>0
  DEF Grid!Decline, Grid!clock, Grid!core, Grid!kernel, GridInv, GridTypes, GridTicks,
      Grid!OnTheWay
<1>7. Grid!TickIsArmed'
  BY <1>0 DEF Grid!Decline, Grid!Runs, Grid!clock, GridInv, Grid!TickIsArmed
<1> QED BY <1>1, <1>2, <1>3, <1>4, <1>5, <1>6, <1>7 DEF GridInv

\* A window ends where the kernel's next tick is due on the grid.
LEMMA GridWindow ==
    ASSUME GridFits, GridInv, Grid!Window PROVE GridInv'
<1> USE ClockConstants
<1>0. GridTypes /\ GridMasks
  BY DEF GridInv
<1>1. GridTypes'
  BY <1>0 DEF Grid!Window, Grid!clock, Grid!core, Grid!kernel, GridTypes, GridIdle
<1>2. GridMasks'
  BY <1>0 DEF Grid!Window, Grid!Runs, Grid!core, GridMasks
<1>3. GridAsked'
  BY <1>0
  DEF Grid!Window, Grid!Runs, Grid!clock, Grid!kernel, GridInv, GridAsked, Grid!Boundary
<1>4. AlarmOnGrid'
  BY <1>0 DEF Grid!Window, AlarmOnGrid
<1>5. Grid!GridKept'
  BY <1>0
  DEF Grid!Window, Grid!Runs, Grid!clock, Grid!core, Grid!kernel, GridInv, Grid!GridKept,
      Grid!OnTheWay
<1>6. (GridTicks * Period <= g_now)'
  BY <1>0
  DEF Grid!Window, Grid!clock, Grid!core, Grid!kernel, GridInv, GridTypes, GridTicks,
      Grid!OnTheWay
<1>7. Grid!TickIsArmed'
  BY <1>0 DEF Grid!Window, Grid!TickIsArmed
<1> QED BY <1>1, <1>2, <1>3, <1>4, <1>5, <1>6, <1>7 DEF GridInv

\* An alarm that is already behind is not slept on.
LEMMA GridRefused ==
    ASSUME GridFits, GridInv, Grid!Refused PROVE GridInv'
<1> USE ClockConstants
<1>0. GridTypes /\ GridMasks
  BY DEF GridInv
<1>1. GridTypes'
  <2>1. Grid!Max2(g_grid, g_now + 1) \in Nat
    BY <1>0 DEF GridTypes, Grid!Max2
  <2> QED
    BY <1>0, <2>1
    DEF Grid!Refused, Grid!ArmAt, Grid!core, Grid!kernel, GridTypes, GridIdle
<1>2. GridMasks'
  BY <1>0 DEF Grid!Refused, Grid!Runs, Grid!core, GridMasks
<1>3. GridAsked'
  BY <1>0 DEF Grid!Refused, Grid!Runs, Grid!kernel, GridInv, GridTypes, GridAsked
<1>4. AlarmOnGrid'
  BY <1>0 DEF Grid!Refused, Grid!ArmAt, GridTypes, AlarmOnGrid, Grid!Max2
<1>5. Grid!GridKept'
  BY <1>0
  DEF Grid!Refused, Grid!Runs, Grid!core, Grid!kernel, GridInv, Grid!GridKept,
      Grid!OnTheWay
<1>6. (GridTicks * Period <= g_now)'
  BY <1>0
  DEF Grid!Refused, Grid!core, Grid!kernel, GridInv, GridTypes, GridTicks, Grid!OnTheWay
<1>7. Grid!TickIsArmed'
  BY <1>0 DEF Grid!Refused, Grid!ArmAt, GridTypes, Grid!TickIsArmed, Grid!Max2
<1> QED BY <1>1, <1>2, <1>3, <1>4, <1>5, <1>6, <1>7 DEF GridInv

\* The core sleeps, unmasked behind SLEEPING.
LEMMA GridSleep ==
    ASSUME GridFits, GridInv, Grid!Sleep PROVE GridInv'
<1> USE ClockConstants
<1>0. GridTypes /\ GridMasks
  BY DEF GridInv
<1>1. GridTypes'
  <2>1. g_idle = "program" => g_before < Grid!Boundary
    BY DEF GridInv, GridAsked
  <2>2. Grid!Boundary \in Int
    BY <1>0 DEF GridTypes, Grid!Boundary
  <2>3. g_idle = "program" => g_now + (Grid!Boundary - g_before) \in Nat
    BY <1>0, <2>1, <2>2 DEF GridTypes
  <2> QED
    BY <1>0, <2>3 DEF Grid!Sleep, Grid!Runs, Grid!kernel, GridTypes, GridIdle
<1>2. GridMasks'
  BY <1>0 DEF Grid!Sleep, Grid!Runs, GridMasks
<1>3. GridAsked'
  BY <1>0 DEF Grid!Sleep, Grid!Runs, Grid!kernel, GridInv, GridAsked
<1>4. AlarmOnGrid'
  BY <1>0 DEF Grid!Sleep, AlarmOnGrid
<1>5. Grid!GridKept'
  BY <1>0 DEF Grid!Sleep, Grid!Runs, Grid!kernel, GridInv, Grid!GridKept, Grid!OnTheWay
<1>6. (GridTicks * Period <= g_now)'
  BY <1>0 DEF Grid!Sleep, Grid!kernel, GridInv, GridTypes, GridTicks, Grid!OnTheWay
<1>7. Grid!TickIsArmed'
  BY <1>0 DEF Grid!Sleep, Grid!TickIsArmed
<1> QED BY <1>1, <1>2, <1>3, <1>4, <1>5, <1>6, <1>7 DEF GridInv

\* The woken idle task masks again.
LEMMA GridRemask ==
    ASSUME GridFits, GridInv, Grid!Remask PROVE GridInv'
<1> USE ClockConstants
<1>0. GridTypes /\ GridMasks
  BY DEF GridInv
<1>1. GridTypes'
  BY <1>0
  DEF Grid!Remask, Grid!MaskAfterWait, Grid!clock, Grid!kernel, GridTypes, GridIdle
<1>2. GridMasks'
  BY <1>0 DEF Grid!Remask, Grid!MaskAfterWait, Grid!Runs, GridMasks
<1>3. GridAsked'
  BY <1>0 DEF Grid!Remask, Grid!Runs, Grid!kernel, GridInv, GridAsked
<1>4. AlarmOnGrid'
  BY <1>0 DEF Grid!Remask, AlarmOnGrid
<1>5. Grid!GridKept'
  BY <1>0
  DEF Grid!Remask, Grid!Runs, Grid!clock, Grid!kernel, GridInv, Grid!GridKept,
      Grid!OnTheWay
<1>6. (GridTicks * Period <= g_now)'
  BY <1>0
  DEF Grid!Remask, Grid!clock, Grid!kernel, GridInv, GridTypes, GridTicks, Grid!OnTheWay
<1>7. Grid!TickIsArmed'
  BY <1>0 DEF Grid!Remask, Grid!TickIsArmed
<1> QED BY <1>1, <1>2, <1>3, <1>4, <1>5, <1>6, <1>7 DEF GridInv

\* What was slept is counted in whole periods of the grid.
LEMMA GridAccount ==
    ASSUME GridFits, GridInv, Grid!Account PROVE GridInv'
<1> USE ClockConstants
<1>0. GridTypes /\ GridMasks
  BY DEF GridInv
<1>. DEFINE n == Grid!Reported(Grid!PointsPassed)
            next == g_grid + n * Period
<1>a. /\ g_idle = "account" /\ g_handler = "none"
      /\ g_grid = (g_ticks + 1) * Period /\ g_ticks * Period <= g_now
      /\ g_ticks + g_asked = g_wakeAt
  <2>1. g_idle = "account" /\ g_handler = "none"
    BY DEF Grid!Account, Grid!Runs
  <2>2. Grid!OnTheWay = 0
    BY <2>1 DEF Grid!OnTheWay
  <2> QED
    BY <1>0, <2>1, <2>2 DEF GridInv, GridTypes, GridAsked, Grid!GridKept, GridTicks
<1>b. n \in Nat /\ n <= g_asked /\ (n > 0 => g_grid + (n - 1) * Period <= g_now)
  <2>1. CASE g_now < g_grid
    BY <1>0, <2>1 DEF GridTypes, Grid!Reported, Grid!PointsPassed
  <2>2. CASE ~(g_now < g_grid)
    <3>. DEFINE d == (g_now - g_grid) \div Period
    <3>1. g_now - g_grid \in Nat
      BY <1>0, <2>2 DEF GridTypes
    <3>2. d \in Nat /\ d * Period <= g_now - g_grid
      BY <3>1, WholePeriods
    <3>3. n \in Nat /\ n <= g_asked /\ n <= d + 1
      BY <1>0, <2>2, <3>2 DEF GridTypes, Grid!Reported, Grid!PointsPassed
    <3> HIDE DEF d, n
    <3>4. ASSUME n > 0 PROVE g_grid + (n - 1) * Period <= g_now
      <4>1. n - 1 \in Nat /\ n - 1 <= d
        BY <3>2, <3>3, <3>4
      <4>2. (n - 1) * Period <= d * Period /\ (n - 1) * Period \in Nat /\ d * Period \in Nat
        BY <3>2, <4>1, Products
      <4> QED BY <1>0, <3>2, <4>2 DEF GridTypes
    <3> QED BY <3>3, <3>4
  <2> QED BY <2>1, <2>2
<1>c. next = (g_ticks + n + 1) * Period /\ next \in Nat /\ (g_ticks + n) * Period <= g_now
  <2> HIDE DEF n
  <2>1. /\ (g_ticks + 1 + n) * Period = (g_ticks + 1) * Period + n * Period
        /\ n * Period \in Nat
    BY <1>0, <1>b, Products DEF GridTypes
  <2>2. g_ticks + n + 1 = g_ticks + 1 + n
    BY <1>0, <1>b DEF GridTypes
  <2>3. next = (g_ticks + n + 1) * Period /\ next \in Nat
    BY <1>0, <1>a, <2>1, <2>2 DEF GridTypes
  <2>4. CASE n = 0
    BY <1>0, <1>a, <2>3, <2>4 DEF GridTypes
  <2>5. CASE n > 0
    <3>1. n - 1 \in Nat /\ g_ticks + n = g_ticks + 1 + (n - 1)
      BY <1>0, <1>b, <2>5 DEF GridTypes
    <3>2. (g_ticks + 1 + (n - 1)) * Period = (g_ticks + 1) * Period + (n - 1) * Period
      BY <1>0, <3>1, Products DEF GridTypes
    <3> QED BY <1>a, <1>b, <2>3, <2>5, <3>1, <3>2
  <2> QED BY <1>b, <2>3, <2>4, <2>5
<1>d. g_slept' = n /\ g_grid' = next
  <2>1. next < Wrap
    <3> HIDE DEF n
    <3>1. next = (g_ticks + n) * Period + Period /\ (g_ticks + n) * Period \in Nat
      <4>1. g_ticks + n \in Nat /\ 1 * Period = Period
        BY <1>0, <1>b DEF GridTypes
      <4> QED BY <1>c, <4>1, Products
    <3> HIDE DEF next
    <3> QED BY <1>0, <1>c, <3>1 DEF GridTypes, GridFits
  <2>2. (next % Wrap) = next
    BY <1>c, <2>1, Stored
  <2> QED BY <2>2 DEF Grid!Account, Grid!Advance
<1>e. g_alarm' = Grid!Max2(next, g_now + 1) /\ g_pending' = FALSE /\ g_idle' = "wind"
  BY <1>d DEF Grid!Account, Grid!ArmAt
<1> HIDE DEF n, next
<1>f. g_alarm' \in Nat /\ next <= g_alarm'
  BY <1>0, <1>c, <1>e DEF GridTypes, Grid!Max2
<1>g. UNCHANGED <<g_now, Grid!core, g_asked, g_before, Grid!kernel>>
  BY DEF Grid!Account
<1>1. GridTypes'
  BY <1>0, <1>b, <1>c, <1>d, <1>e, <1>f, <1>g
  DEF GridTypes, GridIdle, Grid!core, Grid!kernel
<1>2. GridMasks'
  BY <1>0, <1>a, <1>e, <1>g DEF GridMasks, Grid!core
<1>3. GridAsked'
  BY <1>0, <1>a, <1>b, <1>d, <1>e, <1>g DEF GridAsked, Grid!kernel
<1>4. AlarmOnGrid'
  BY <1>d, <1>e, <1>f DEF AlarmOnGrid
<1>x. GridTicks' = g_ticks + n /\ (g_ticks + Grid!OnTheWay)' = g_ticks + n
  BY <1>0, <1>a, <1>b, <1>d, <1>e, <1>g
  DEF GridTicks, Grid!OnTheWay, Grid!core, Grid!kernel
<1>5. Grid!GridKept'
  BY <1>c, <1>d, <1>x DEF Grid!GridKept
<1>6. (GridTicks * Period <= g_now)'
  BY <1>c, <1>g, <1>x
<1>7. Grid!TickIsArmed'
  BY <1>d, <1>e, <1>f, <1>g DEF Grid!TickIsArmed, Grid!Max2
<1> QED BY <1>1, <1>2, <1>3, <1>4, <1>5, <1>6, <1>7 DEF GridInv

\* The kernel is wound on by what was slept.
LEMMA GridWind ==
    ASSUME GridFits, GridInv, Grid!Wind PROVE GridInv'
<1> USE ClockConstants
<1>0. GridTypes /\ GridMasks
  BY DEF GridInv
<1>1. GridTypes'
  <2>1. g_ticks + g_slept \in Nat
    BY <1>0 DEF GridTypes
  <2> QED
    BY <1>0, <2>1 DEF Grid!Wind, Grid!clock, GridTypes, GridIdle
<1>2. GridMasks'
  BY <1>0 DEF Grid!Wind, Grid!Runs, GridMasks
<1>3. GridAsked'
  BY <1>0 DEF Grid!Wind, GridAsked
<1>4. AlarmOnGrid'
  BY <1>0 DEF Grid!Wind, Grid!Runs, Grid!clock, GridInv, AlarmOnGrid
<1>5. Grid!GridKept'
  BY <1>0
  DEF Grid!Wind, Grid!Runs, Grid!clock, GridInv, GridTypes, Grid!GridKept, Grid!OnTheWay
<1>6. (GridTicks * Period <= g_now)'
  BY <1>0
  DEF Grid!Wind, Grid!Runs, Grid!clock, GridInv, GridTypes, GridTicks, Grid!OnTheWay
<1>7. Grid!TickIsArmed'
  BY <1>0 DEF Grid!Wind, Grid!Runs, Grid!clock, GridInv, Grid!TickIsArmed
<1> QED BY <1>1, <1>2, <1>3, <1>4, <1>5, <1>6, <1>7 DEF GridInv

\* Every step of the grid keeps the invariant.
LEMMA GridNext ==
    ASSUME GridFits, GridInv, [BoardsNext]_all PROVE GridInv'
<1>1. CASE Grid!Next
  BY <1>1, GridPass, GridAlarmInSleep, GridWokenEarly, GridTickInterrupt,
     GridIncrementTick, GridWork, GridSuppress, GridDecline, GridWindow,
     GridRefused, GridSleep, GridRemask, GridAccount, GridWind DEF Grid!Next
<1>2. CASE UNCHANGED grid
  BY <1>2
  DEF grid, GridInv, GridTypes, GridMasks, GridAsked, AlarmOnGrid, GridTicks,
      Grid!GridKept, Grid!OnTheWay, Grid!TickIsArmed, Grid!Boundary
<1> QED BY <1>1, <1>2, GridMoves

\* xiao-s3-tickless, for every tick period, window and delay, as long
\* as the clock stays a period below its wrap: the kernel is held by one, the
\* ticks stay on the grid and behind the time, and the next one is always armed.
THEOREM GridIsSafe == GridFits /\ BoardsSpec => []GridSafe
<1> SUFFICES ASSUME GridFits PROVE BoardsSpec => []GridSafe
  OBVIOUS
<1>1. BoardsInit => GridInv
  BY GridStarts DEF BoardsInit
<1>2. GridInv /\ [BoardsNext]_all => GridInv'
  BY GridNext
<1>3. GridInv => GridSafe
  <2> SUFFICES ASSUME GridInv PROVE GridSafe
    OBVIOUS
  <2>1. Grid!KernelHeldByOne
    BY DEF GridInv, GridMasks, Grid!KernelHeldByOne
  <2>2. Grid!ClockNotAhead
    BY ClockConstants DEF GridInv, GridTypes, GridTicks, GridAsked, Grid!ClockNotAhead
  <2> QED BY <2>1, <2>2 DEF GridInv, GridSafe
<1> QED BY <1>1, <1>2, <1>3, PTL DEF BoardsSpec
-----------------------------------------------------------------------------
(* SysTickSleep.                                                           *)

\* A step of the boards is a step of the down-counter's, or leaves it alone.
LEMMA SleepMoves ==
    ASSUME [BoardsNext]_all PROVE Sleep!Next \/ UNCHANGED sleep
BY DEF BoardsNext, all, Ended

\* One load of the register buys two ticks at least.
SleepFits == 2 * Sleep!PerTick <= MaxReload

\* The cycles of so many ticks.
Cycles(n) == n * Sleep!PerTick

SleepWindow == {"asleep", "wake", "stoppingAgain", "clear"}
SleepIdle == {"run", "stop", "stopping", "decline", "program", "wind"} \cup SleepWindow

\* The down-counter's variables and what they may hold.
SleepTypes ==
    /\ s_now \in Nat /\ s_enabled \in BOOLEAN /\ s_rvr \in Nat /\ s_cvr \in Nat
    /\ s_countflag \in BOOLEAN /\ s_pendst \in BOOLEAN /\ s_torn \in BOOLEAN
    /\ s_idle \in SleepIdle /\ s_asked \in Nat /\ s_seen \in BOOLEAN
    /\ s_left \in Nat /\ s_slept \in Nat /\ s_ticks \in Nat /\ s_wakeAt \in Nat

\* What the idle task has programmed, and what it holds in its locals.
SleepPlaces ==
    /\ s_enabled <=> s_idle \notin {"decline", "program", "clear"}
    /\ s_rvr = (IF s_idle \in SleepWindow THEN Sleep!Total - 1 ELSE Reload)
    /\ s_cvr <= s_rvr /\ s_rvr > 0
    /\ s_idle # "run" => s_ticks + s_asked = s_wakeAt /\ s_asked >= 2
    /\ s_idle \notin {"clear", "wind"} => s_slept = 0
    /\ s_slept <= s_asked
    /\ s_idle \in {"program"} \cup SleepWindow => s_left > 0 /\ s_left <= Reload

\* How far the counter is from its last load.
Elapsed == IF s_cvr = 0 THEN 0 ELSE s_rvr + 1 - s_cvr
\* When the tick that was under way began.
TickBegan == Cycles(s_ticks) + Sleep!PerTick - s_left
Owed == IF s_pendst THEN 1 ELSE 0

\* The kernel's ticks, those on the way and the counter together are behind
\* the time.
SleepClock ==
    /\ s_idle \in {"run", "stop", "stopping", "decline", "wind"} =>
          Cycles(s_ticks + s_slept + Owed) + Elapsed <= s_now
    /\ s_idle = "program" => TickBegan <= s_now
    /\ s_idle \in SleepWindow \ {"clear"} => TickBegan + Elapsed <= s_now
    /\ s_idle = "clear" => Cycles(s_ticks + s_slept) <= s_now

\* Whatever says that the window has expired says so when it has.
SleepExpiry ==
    /\ s_idle \in {"asleep", "wake"} /\ s_countflag => TickBegan + Sleep!Total <= s_now
    /\ s_idle = "stoppingAgain" /\ s_seen => TickBegan + Sleep!Total <= s_now
    /\ s_idle \in {"wake", "stoppingAgain"} /\ s_cvr = 0 =>
          TickBegan + Sleep!Total <= s_now

\* The clock's part of SleepSafe with the strengthening that makes it inductive.
SleepInv == SleepTypes /\ SleepPlaces /\ SleepClock /\ SleepExpiry

\* A pending exception is in the flag, or has been read out of it, unless a stop
\* was torn.
SleepOwed ==
    /\ s_idle = "stop" /\ s_pendst => s_countflag
    /\ s_idle = "stopping" /\ s_pendst => s_seen \/ s_countflag
    /\ s_idle = "stoppingAgain" /\ s_pendst => s_torn \/ s_seen \/ s_countflag
    /\ s_idle = "program" /\ s_pendst => s_torn
    /\ s_idle \in {"asleep", "wake"} /\ s_pendst => s_torn \/ s_countflag
    /\ s_idle = "clear" /\ s_pendst => s_torn \/ s_slept = Sleep!Want

\* The cycles of two runs of ticks are the cycles of both.
LEMMA CyclesAdd ==
    /\ Cycles(0) = 0 /\ Cycles(1) = Sleep!PerTick
    /\ Sleep!PerTick \in Nat /\ Sleep!PerTick = Reload + 1
    /\ \A a \in Nat : Cycles(a) \in Nat /\ Cycles(a + 1) = Cycles(a) + Sleep!PerTick
    /\ \A a, b \in Nat : /\ Cycles(a + b) = Cycles(a) + Cycles(b)
                         /\ a <= b => Cycles(a) <= Cycles(b)
<1>1. Sleep!PerTick \in Nat /\ Sleep!PerTick = Reload + 1
  BY ClockConstants DEF Sleep!PerTick
<1>2. Cycles(0) = 0 /\ Cycles(1) = Sleep!PerTick
  BY <1>1 DEF Cycles
<1>3. \A a, b \in Nat : /\ Cycles(a + b) = Cycles(a) + Cycles(b)
                        /\ a <= b => Cycles(a) <= Cycles(b)
                        /\ Cycles(a) \in Nat
  BY <1>1, Products DEF Cycles
<1>4. ASSUME NEW a \in Nat PROVE Cycles(a + 1) = Cycles(a) + Sleep!PerTick
  <2>1. 1 \in Nat
    OBVIOUS
  <2> QED BY <2>1, <1>2, <1>3
<1> QED BY <1>1, <1>2, <1>3, <1>4

\* The window is what is left of the tick and whole ticks after it, never cut
\* by the register's width.
LEMMA WindowIs ==
    ASSUME SleepFits, SleepTypes, s_asked >= 2, s_left > 0, s_left <= Reload
    PROVE  /\ Sleep!Want \in Nat /\ 2 <= Sleep!Want /\ Sleep!Want <= s_asked
           /\ Sleep!Total \in Nat /\ Sleep!Total > Sleep!PerTick
           /\ Sleep!Total = s_left + Cycles(Sleep!Want) - Sleep!PerTick
<1> DEFINE per == Sleep!PerTick
           most == MaxReload \div per
           w == Sleep!Want
<1>1. per \in Nat \ {0} /\ per = Reload + 1 /\ MaxReload \in Nat
  BY ClockConstants, CyclesAdd
<1>2. most \in Nat /\ most * per <= MaxReload /\ MaxReload < (most + 1) * per
  BY <1>1, WholePeriods
<1>3. 2 <= most
  <2> SUFFICES ASSUME most + 1 <= 2 PROVE FALSE
    BY <1>2
  <2>1. (most + 1) * per <= 2 * per /\ (most + 1) * per \in Nat /\ 2 * per \in Nat
    BY <1>1, <1>2, Products
  <2> QED BY <1>1, <1>2, <2>1 DEF SleepFits
<1>4. w \in Nat /\ 2 <= w /\ w <= s_asked /\ w <= most
  BY <1>2, <1>3 DEF Sleep!Want, Sleep!Min2, SleepTypes
<1> HIDE DEF most, w
<1>5. w - 1 \in Nat /\ (w - 1) + 1 = w
  BY <1>4
<1>6. Cycles(w) = (w - 1) * per + per /\ (w - 1) * per \in Nat
  <2>1. Cycles((w - 1) + 1) = Cycles(w - 1) + per
    BY <1>5, CyclesAdd
  <2> QED BY <1>5, <2>1, CyclesAdd DEF Cycles
<1>7. w * per <= most * per /\ w * per = Cycles(w)
  BY <1>1, <1>2, <1>4, Products DEF Cycles
<1>8. per <= (w - 1) * per
  <2>1. 1 * per <= (w - 1) * per
    BY <1>1, <1>4, <1>5, Products
  <2> QED BY <1>1, <2>1
<1>9. s_left + (w - 1) * per <= MaxReload
  <2>1. (w - 1) * per + per <= MaxReload
    <3>1. most * per \in Nat /\ w * per \in Nat
      BY <1>1, <1>2, <1>4, Products
    <3>2. w * per <= MaxReload
      BY <1>1, <1>2, <1>7, <3>1
    <3> QED BY <1>6, <1>7, <3>2
  <2>2. s_left <= per
    BY <1>1, ClockConstants DEF SleepTypes
  <2> QED BY <1>1, <1>6, <2>1, <2>2 DEF SleepTypes
<1>10. Sleep!Total = s_left + (w - 1) * per
  BY <1>1, <1>5, <1>6, <1>9 DEF Sleep!Total, Sleep!Min2, SleepTypes, w
<1> HIDE DEF per
<1> QED BY <1>1, <1>4, <1>6, <1>8, <1>10 DEF SleepTypes, w, per

\* A multiple of a number divides by it exactly.
LEMMA MultipleDivides ==
    ASSUME NEW a \in Nat, NEW p \in Nat \ {0}
    PROVE  (a * p) \div p = a
<1> DEFINE d == (a * p) \div p
<1>1. a * p \in Nat /\ d \in Nat /\ d * p <= a * p /\ a * p < (d + 1) * p
  <2>1. a * p \in Nat
    BY Products
  <2> QED BY <2>1, WholePeriods
<1> HIDE DEF d
<1>2. ~(d < a) /\ ~(a < d)
  <2>1. ASSUME d + 1 <= a PROVE FALSE
    <3>1. (d + 1) * p <= a * p /\ (d + 1) * p \in Nat
      BY <1>1, <2>1, Products
    <3> QED BY <1>1, <3>1
  <2>2. ASSUME a + 1 <= d PROVE FALSE
    <3>1. (a + 1) * p <= d * p /\ (a + 1) * p = a * p + 1 * p /\ d * p \in Nat /\ 1 * p = p
      BY <1>1, <2>2, Products
    <3> QED BY <1>1, <3>1
  <2> QED BY <1>1, <2>1, <2>2
<1> QED BY <1>1, <1>2 DEF d

\* What the invariant says to the outside.
LEMMA ClockFollows ==
    ASSUME SleepInv PROVE Sleep!ClockNotAhead /\ Sleep!WindowEnds
<1>0. SleepTypes /\ SleepPlaces
  BY DEF SleepInv
<1>1. Sleep!WindowEnds
  BY <1>0 DEF SleepPlaces, Sleep!WindowEnds
<1>2. s_ticks + s_slept <= s_wakeAt \/ ~Sleep!Masked
  BY <1>0 DEF SleepTypes, SleepPlaces, Sleep!Masked
<1>. DEFINE t == s_ticks + s_slept
            due == IF s_pendst /\ s_idle \in {"run", "wind"} THEN 1 ELSE 0
<1>3. t \in Nat /\ due \in {0, 1} /\ Owed \in {0, 1} /\ Elapsed \in Nat
  BY <1>0 DEF SleepTypes, SleepPlaces, Owed, Elapsed
<1>4. /\ Cycles(t) \in Nat /\ Cycles(t + due) \in Nat /\ Cycles(t + Owed) \in Nat
      /\ Cycles(t) <= Cycles(t + Owed) /\ t + 0 = t
      /\ s_ticks \in Nat /\ Cycles(s_ticks) \in Nat
  <2>1. t + due \in Nat /\ t + Owed \in Nat /\ t <= t + Owed /\ t + 0 = t
    BY <1>3
  <2>2. s_ticks \in Nat
    BY <1>0 DEF SleepTypes
  <2> QED BY <1>3, <2>1, <2>2, CyclesAdd
<1>5. CASE s_idle \in {"run", "wind"}
  <2>1. Cycles(t + Owed) + Elapsed <= s_now /\ due = Owed
    BY <1>5 DEF SleepInv, SleepClock, Owed
  <2>2. Cycles(t + due) <= s_now
    BY <1>0, <1>3, <1>4, <2>1 DEF SleepTypes
  <2> QED BY <1>1, <1>2, <2>2 DEF Sleep!ClockNotAhead, Cycles
<1>6. CASE s_idle \notin {"run", "wind"}
  <2>1. due = 0 /\ Cycles(t + due) = Cycles(t)
    BY <1>4, <1>6
  <2>2. ASSUME s_idle \in {"stop", "stopping", "decline"} PROVE Cycles(t) <= s_now
    <3>1. Cycles(t + Owed) + Elapsed <= s_now
      BY <2>2 DEF SleepInv, SleepClock
    <3> QED BY <1>0, <1>3, <1>4, <3>1 DEF SleepTypes
  <2>3. ASSUME s_idle = "clear" PROVE Cycles(t) <= s_now
    BY <2>3 DEF SleepInv, SleepClock
  <2>4. ASSUME s_idle \in {"program", "asleep", "wake", "stoppingAgain"}
        PROVE  Cycles(t) <= s_now
    <3>1. s_slept = 0 /\ s_left <= Reload /\ t = s_ticks
      BY <1>0, <2>4 DEF SleepTypes, SleepPlaces, SleepWindow
    <3>2. TickBegan <= s_now
      <4>1. TickBegan \in Int
        BY <1>0, <1>4, CyclesAdd DEF SleepTypes, TickBegan
      <4>2. TickBegan <= s_now \/ TickBegan + Elapsed <= s_now
        BY <2>4 DEF SleepInv, SleepClock, SleepWindow
      <4> QED BY <1>0, <1>3, <4>1, <4>2 DEF SleepTypes
    <3>3. Sleep!PerTick = Reload + 1
      BY CyclesAdd
    <3>4. Cycles(s_ticks) <= s_now
      BY <1>0, <1>4, <3>1, <3>2, <3>3, ClockConstants DEF SleepTypes, TickBegan
    <3> QED BY <3>1, <3>4
  <2>5. Cycles(t) <= s_now
    BY <1>0, <1>6, <2>2, <2>3, <2>4 DEF SleepTypes, SleepIdle, SleepWindow
  <2> QED BY <1>1, <1>2, <2>1, <2>5 DEF Sleep!ClockNotAhead, Cycles
<1> QED BY <1>5, <1>6

\* At boot the counter holds one tick, and nothing has happened.
LEMMA SleepStarts ==
    ASSUME Sleep!Init PROVE SleepInv /\ SleepOwed
<1>1. SleepTypes
  BY ClockConstants DEF Sleep!Init, SleepTypes, SleepIdle
<1>2. SleepPlaces /\ SleepExpiry /\ SleepOwed
  BY ClockConstants DEF Sleep!Init, SleepPlaces, SleepExpiry, SleepOwed, SleepWindow
<1>3. SleepClock
  BY CyclesAdd DEF Sleep!Init, SleepClock, Elapsed, Owed, SleepWindow
<1> QED BY <1>1, <1>2, <1>3 DEF SleepInv

\* A cycle takes one off the counter, or reloads it and makes the exception pending.
LEMMA SleepCycle ==
    ASSUME SleepFits, SleepInv, Sleep!Cycle PROVE SleepInv'
<1> USE ClockConstants
<1>0. SleepTypes /\ SleepPlaces
  BY DEF SleepInv
<1>1. SleepTypes'
  BY <1>0 DEF Sleep!Cycle, Sleep!counter, Sleep!task, Sleep!kernel, SleepTypes
<1>2. SleepPlaces'
  BY <1>0
  DEF Sleep!Cycle, Sleep!counter, Sleep!task, Sleep!kernel, SleepTypes, SleepPlaces,
      Sleep!Total, Sleep!Want
<1>a. /\ s_now' = s_now + 1
      /\ UNCHANGED <<Sleep!task, Sleep!kernel, s_rvr, s_enabled, TickBegan, Sleep!Total>>
  BY DEF Sleep!Cycle, Sleep!counter, Sleep!task, Sleep!kernel, TickBegan, Sleep!Total,
     Sleep!Want
<1>b. Elapsed \in Nat /\ Owed \in {0, 1} /\ Elapsed' \in Nat /\ Owed' \in {0, 1}
  <2>1. Elapsed \in Nat /\ Owed \in {0, 1}
    BY <1>0 DEF SleepTypes, SleepPlaces, Elapsed, Owed
  <2>2. s_cvr' \in Nat /\ s_rvr' \in Nat /\ s_cvr' <= s_rvr' /\ s_pendst' \in BOOLEAN
    BY <1>1, <1>2 DEF SleepTypes, SleepPlaces
  <2>3. Elapsed' \in Nat
    <3>1. \A c, r \in Nat : c <= r => (IF c = 0 THEN 0 ELSE r + 1 - c) \in Nat
      OBVIOUS
    <3> QED BY <2>2, <3>1 DEF Elapsed
  <2> QED BY <2>1, <2>2, <2>3 DEF Owed
<1>c. \/ Owed' = Owed /\ Elapsed' <= Elapsed + 1
      \/ s_enabled /\ Owed' = 1 /\ Elapsed' = 0 /\ Elapsed = s_rvr
  BY <1>0, <1>a DEF Sleep!Cycle, Sleep!counter, SleepTypes, Elapsed, Owed
<1>3. SleepClock'
  <2>1. ASSUME s_idle \in {"run", "stop", "stopping", "decline", "wind"}
        PROVE  Cycles(s_ticks + s_slept + Owed') + Elapsed' <= s_now + 1
    <3> DEFINE t == s_ticks + s_slept
    <3>1. Cycles(t + Owed) + Elapsed <= s_now /\ t \in Nat
      BY <1>0, <2>1 DEF SleepInv, SleepClock, SleepTypes
    <3> HIDE DEF t
    <3>2. /\ Cycles(t) \in Nat /\ Cycles(t + 1) = Cycles(t) + Reload + 1
          /\ Cycles(t + Owed) \in Nat /\ Cycles(t) <= Cycles(t + Owed)
      <4>1. Cycles(t) \in Nat /\ Cycles(t + 1) = Cycles(t) + Reload + 1
        BY <3>1, CyclesAdd, ClockConstants
      <4>2. CASE Owed = 0
        BY <3>1, <4>1, <4>2
      <4>3. CASE Owed = 1
        BY <4>1, <4>3, ClockConstants
      <4> QED BY <1>b, <4>1, <4>2, <4>3
    <3>3. CASE Owed' = Owed /\ Elapsed' <= Elapsed + 1
      <4>1. Cycles(t + Owed') = Cycles(t + Owed)
        BY <3>3
      <4> QED BY <1>0, <1>b, <3>1, <3>2, <3>3, <4>1 DEF SleepTypes, t
    <3>4. CASE Owed' = 1 /\ Elapsed' = 0 /\ Elapsed = s_rvr
      <4>1. s_rvr = Reload
        BY <1>0, <2>1 DEF SleepPlaces, SleepWindow
      <4>2. Cycles(t + Owed') = Cycles(t + 1)
        BY <3>4
      <4> QED
        BY <1>0, <1>b, <3>1, <3>2, <3>4, <4>1, <4>2, ClockConstants DEF SleepTypes, t
    <3> QED BY <1>c, <3>3, <3>4
  <2>2. TickBegan \in Int /\ Cycles(s_ticks + s_slept) \in Nat
    <3>1. s_ticks + s_slept \in Nat /\ s_ticks \in Nat /\ s_left \in Nat
      BY <1>0 DEF SleepTypes
    <3>2. Cycles(s_ticks) \in Nat /\ Cycles(s_ticks + s_slept) \in Nat /\ Sleep!PerTick \in Nat
      BY <3>1, CyclesAdd
    <3> QED BY <3>1, <3>2 DEF TickBegan
  <2>3. ASSUME s_idle \in SleepWindow \ {"clear"} PROVE TickBegan + Elapsed' <= s_now + 1
    <3>1. TickBegan + Elapsed <= s_now /\ Elapsed' <= Elapsed + 1
      BY <1>0, <1>b, <1>c, <2>3 DEF SleepInv, SleepClock
    <3>2. TickBegan \in Int /\ s_now \in Nat /\ Elapsed \in Nat /\ Elapsed' \in Nat
      BY <1>0, <1>b, <2>2 DEF SleepTypes
    <3>3. \A b \in Int, e, f, n \in Nat : b + e <= n /\ f <= e + 1 => b + f <= n + 1
      OBVIOUS
    <3> QED BY <3>1, <3>2, <3>3
  <2> QED
    BY <1>0, <1>a, <2>1, <2>2, <2>3
    DEF SleepInv, SleepClock, SleepTypes, Sleep!task, Sleep!kernel
<1>4. SleepExpiry'
  <2>1. CASE s_idle \notin {"asleep", "wake", "stoppingAgain"}
    BY <1>a, <2>1 DEF SleepExpiry, Sleep!task
  <2>2. CASE s_idle \in {"asleep", "wake", "stoppingAgain"}
    <3> DEFINE due == TickBegan + Sleep!Total
    <3>1. s_enabled /\ s_rvr = Sleep!Total - 1 /\ TickBegan + Elapsed <= s_now
      BY <1>0, <2>2 DEF SleepInv, SleepPlaces, SleepClock, SleepWindow
    <3>2. TickBegan \in Int /\ Sleep!Total \in Nat
      <4>1. s_asked >= 2 /\ s_left > 0 /\ s_left <= Reload
        BY <1>0, <2>2 DEF SleepPlaces, SleepWindow
      <4> QED BY <1>0, <4>1, CyclesAdd, WindowIs DEF SleepTypes, TickBegan
    <3>3. due <= s_now => due <= s_now + 1
      BY <1>0, <3>2 DEF SleepTypes
    <3>4. s_cvr = 1 => due <= s_now + 1
      BY <1>0, <3>1, <3>2 DEF SleepTypes, Elapsed
    <3>5. /\ s_cvr' = (IF s_cvr = 0 THEN s_rvr ELSE s_cvr - 1)
          /\ s_countflag' = (s_countflag \/ s_cvr = 1)
      BY <3>1 DEF Sleep!Cycle
    <3>6. s_cvr' = 0 => s_cvr = 1
      BY <1>0, <3>5 DEF SleepTypes, SleepPlaces
    <3> HIDE DEF due
    <3>7. due' = due
      BY <1>a DEF due
    <3> QED
      BY <1>a, <2>2, <3>3, <3>4, <3>5, <3>6, <3>7
      DEF SleepInv, SleepExpiry, Sleep!task, due
  <2> QED BY <2>1, <2>2
<1> QED BY <1>1, <1>2, <1>3, <1>4 DEF SleepInv

\* The exception hands the kernel one tick.
LEMMA SleepSysTick ==
    ASSUME SleepFits, SleepInv, Sleep!SysTick PROVE SleepInv'
<1> USE ClockConstants
<1>0. SleepTypes /\ SleepPlaces
  BY DEF SleepInv
<1>1. SleepTypes'
  <2>1. s_ticks + 1 \in Nat
    BY <1>0 DEF SleepTypes
  <2> QED BY <1>0, <2>1 DEF Sleep!SysTick, Sleep!task, SleepTypes
<1>2. SleepPlaces'
  BY <1>0 DEF Sleep!SysTick, Sleep!Masked, Sleep!task, SleepPlaces, SleepWindow
<1>3. SleepClock'
  <2>1. /\ s_idle = "run" /\ Owed = 1 /\ Owed' = 0 /\ s_ticks' = s_ticks + 1
        /\ UNCHANGED <<s_now, s_cvr, s_rvr, Sleep!task>>
    BY DEF Sleep!SysTick, Sleep!Masked, Owed
  <2>2. s_ticks + s_slept + 1 = s_ticks + 1 + s_slept + 0
    BY <1>0 DEF SleepTypes
  <2>3. Elapsed' = Elapsed
    BY <2>1 DEF Elapsed
  <2> QED BY <2>1, <2>2, <2>3 DEF SleepInv, SleepClock, SleepWindow, Sleep!task
<1>4. SleepExpiry'
  BY DEF Sleep!SysTick, Sleep!Masked, Sleep!task, SleepExpiry
<1> QED BY <1>1, <1>2, <1>3, <1>4 DEF SleepInv

\* A task's work leaves the counter alone.
LEMMA SleepWork ==
    ASSUME SleepFits, SleepInv, Sleep!Work PROVE SleepInv'
<1> USE ClockConstants
<1>0. SleepTypes /\ SleepPlaces
  BY DEF SleepInv
<1>1. SleepTypes'
  BY <1>0 DEF Sleep!Work, Sleep!counter, Sleep!task, SleepTypes
<1>2. SleepPlaces'
  BY <1>0
  DEF Sleep!Work, Sleep!counter, Sleep!task, SleepTypes, SleepPlaces, Sleep!Total,
      Sleep!Want
<1>3. SleepClock'
  BY <1>0, CyclesAdd
  DEF Sleep!Work, Sleep!counter, Sleep!task, SleepInv, SleepClock, TickBegan, Elapsed,
      Owed
<1>4. SleepExpiry'
  BY <1>0, CyclesAdd
  DEF Sleep!Work, Sleep!counter, Sleep!task, SleepInv, SleepExpiry, TickBegan,
      Sleep!Total, Sleep!Want
<1> QED BY <1>1, <1>2, <1>3, <1>4 DEF SleepInv

\* The idle task asks how far it may sleep, masked.
LEMMA SleepSuppress ==
    ASSUME SleepFits, SleepInv, Sleep!Suppress PROVE SleepInv'
<1> USE ClockConstants
<1>0. SleepTypes /\ SleepPlaces
  BY DEF SleepInv
<1>1. SleepTypes'
  BY <1>0 DEF Sleep!Suppress, Sleep!counter, Sleep!kernel, SleepTypes, SleepIdle
<1>2. SleepPlaces'
  BY <1>0
  DEF Sleep!Suppress, Sleep!Undisturbed, Sleep!Masked, Sleep!counter, Sleep!kernel,
      SleepTypes, SleepPlaces, SleepWindow
<1>3. SleepClock'
  BY <1>0, CyclesAdd
  DEF Sleep!Suppress, Sleep!Undisturbed, Sleep!Masked, Sleep!counter, Sleep!kernel,
      SleepInv, SleepClock, SleepWindow, Elapsed, Owed
<1>4. SleepExpiry'
  BY <1>0, CyclesAdd DEF Sleep!Suppress, SleepExpiry
<1> QED BY <1>1, <1>2, <1>3, <1>4 DEF SleepInv

\* The control register is read before the counter is stopped: the read takes the
\* count flag with it.
LEMMA SleepReadStop ==
    ASSUME SleepFits, SleepInv, Sleep!ReadControl("stop", "stopping") PROVE SleepInv'
<1> USE ClockConstants
<1>0. SleepTypes /\ SleepPlaces
  BY DEF SleepInv
<1>1. SleepTypes'
  BY <1>0 DEF Sleep!ReadControl, Sleep!kernel, SleepTypes, SleepIdle
<1>2. SleepPlaces'
  BY <1>0 DEF Sleep!ReadControl, Sleep!kernel, SleepPlaces, SleepWindow
<1>3. SleepClock'
  BY <1>0, CyclesAdd
  DEF Sleep!ReadControl, Sleep!kernel, SleepInv, SleepClock, SleepWindow, Elapsed, Owed
<1>4. SleepExpiry'
  BY <1>0, CyclesAdd DEF Sleep!ReadControl, SleepExpiry
<1> QED BY <1>1, <1>2, <1>3, <1>4 DEF SleepInv

\* The counter is stopped, with what is left of its tick.
LEMMA SleepStop ==
    ASSUME SleepFits, SleepInv, Sleep!Stop PROVE SleepInv'
<1> USE ClockConstants
<1>0. SleepTypes /\ SleepPlaces
  BY DEF SleepInv
<1>1. SleepTypes'
  BY <1>0 DEF Sleep!Stop, Sleep!Torn, Sleep!kernel, SleepTypes, SleepIdle
<1>2. SleepPlaces'
  BY <1>0
  DEF Sleep!Stop, Sleep!MustDecline, Sleep!kernel, SleepTypes, SleepPlaces, SleepWindow
<1>3. SleepClock'
  <2>1. /\ s_idle = "stopping" /\ s_idle' \in {"decline", "program"} /\ s_left' = s_cvr
        /\ s_idle' = "program" => s_cvr # 0
        /\ UNCHANGED <<s_now, s_cvr, s_rvr, s_pendst, s_slept, s_ticks>>
    BY DEF Sleep!Stop, Sleep!MustDecline, Sleep!kernel
  <2>2. Cycles(s_ticks + s_slept + Owed) + Elapsed <= s_now /\ s_slept = 0 /\ s_rvr = Reload
    BY <1>0, <2>1 DEF SleepInv, SleepClock, SleepPlaces, SleepWindow
  <2>3. Elapsed' = Elapsed /\ Owed' = Owed
    BY <2>1 DEF Elapsed, Owed
  <2>4. ASSUME s_cvr # 0 PROVE TickBegan' <= s_now
    <3>1. Elapsed = Sleep!PerTick - s_cvr
      BY <1>0, <2>2, <2>4, CyclesAdd, ClockConstants DEF SleepTypes, Elapsed
    <3>2. Cycles(s_ticks) <= Cycles(s_ticks + s_slept + Owed)
      <4>1. /\ s_ticks + s_slept + Owed \in Nat /\ s_ticks \in Nat
            /\ s_ticks <= s_ticks + s_slept + Owed
        BY <1>0, <2>2 DEF SleepTypes, Owed
      <4> QED BY <4>1, CyclesAdd
    <3>3. s_ticks + s_slept + Owed \in Nat /\ s_ticks \in Nat
      BY <1>0 DEF SleepTypes, Owed
    <3>4. Cycles(s_ticks) \in Nat /\ Cycles(s_ticks + s_slept + Owed) \in Nat
      BY <3>3, CyclesAdd
    <3> QED BY <1>0, <2>1, <2>2, <3>1, <3>2, <3>4, CyclesAdd DEF SleepTypes, TickBegan
  <2> QED BY <2>1, <2>2, <2>3, <2>4 DEF SleepClock, SleepWindow
<1>4. SleepExpiry'
  BY <1>0, CyclesAdd DEF Sleep!Stop, SleepExpiry
<1> QED BY <1>1, <1>2, <1>3, <1>4 DEF SleepInv

\* A window that is declined restarts what was left of the tick.
LEMMA SleepDecline ==
    ASSUME SleepFits, SleepInv, Sleep!Decline PROVE SleepInv'
<1> USE ClockConstants
<1>0. SleepTypes /\ SleepPlaces
  BY DEF SleepInv
<1>1. SleepTypes'
  BY <1>0 DEF Sleep!Decline, Sleep!Restart, Sleep!kernel, SleepTypes, SleepIdle
<1>2. SleepPlaces'
  BY <1>0 DEF Sleep!Decline, Sleep!Restart, Sleep!kernel, SleepPlaces, SleepWindow
<1>3. SleepClock'
  <2>1. /\ s_idle = "decline" /\ s_idle' = "wind" /\ s_slept' = 0 /\ s_cvr' = 0
        /\ UNCHANGED <<s_now, s_pendst, s_ticks>>
    BY DEF Sleep!Decline, Sleep!Restart, Sleep!kernel
  <2>2. Cycles(s_ticks + s_slept + Owed) + Elapsed <= s_now /\ s_slept = 0
    BY <1>0, <2>1 DEF SleepInv, SleepClock, SleepPlaces
  <2>3. Elapsed' = 0 /\ Owed' = Owed /\ Elapsed \in Nat
    BY <1>0, <2>1 DEF SleepTypes, SleepPlaces, Elapsed, Owed
  <2>4. Cycles(s_ticks + s_slept + Owed) \in Nat
    <3>1. s_ticks + s_slept + Owed \in Nat
      BY <1>0 DEF SleepTypes, Owed
    <3> QED BY <3>1, CyclesAdd
  <2>5. Cycles(s_ticks + s_slept + Owed) + 0 <= s_now
    BY <1>0, <2>2, <2>3, <2>4 DEF SleepTypes
  <2> QED BY <2>1, <2>2, <2>3, <2>5 DEF SleepClock, SleepWindow
<1>4. SleepExpiry'
  BY <1>0, CyclesAdd DEF Sleep!Decline, SleepExpiry
<1> QED BY <1>1, <1>2, <1>3, <1>4 DEF SleepInv

\* The counter is loaded with the whole window.
LEMMA SleepProgram ==
    ASSUME SleepFits, SleepInv, Sleep!Program PROVE SleepInv'
<1> USE ClockConstants
<1>0. SleepTypes /\ SleepPlaces
  BY DEF SleepInv
<1>. DEFINE total == Sleep!Total
<1>a. /\ s_idle = "program" /\ s_idle' = "asleep"
      /\ s_rvr' = total - 1 /\ s_cvr' = 0 /\ s_countflag' = FALSE
      /\ s_enabled' = TRUE
      /\ UNCHANGED <<s_now, s_pendst, s_torn, s_asked, s_seen, s_left, s_slept, Sleep!kernel>>
  BY DEF Sleep!Program, Sleep!Restart
<1>b. s_asked >= 2 /\ s_left > 0 /\ s_left <= Reload
  BY <1>0, <1>a DEF SleepPlaces
<1>c. total \in Nat /\ total > 1
  BY <1>0, <1>b, WindowIs, CyclesAdd DEF SleepTypes
<1>d. Sleep!Total' = total
  BY <1>a DEF Sleep!Total, Sleep!Want
<1> HIDE DEF total
<1>1. SleepTypes'
  <2>1. total - 1 \in Nat
    BY <1>c
  <2> QED BY <1>0, <1>a, <2>1 DEF SleepTypes, SleepIdle, SleepWindow, Sleep!kernel
<1>2. SleepPlaces'
  <2>1. total - 1 > 0 /\ 0 <= total - 1
    BY <1>c
  <2> QED BY <1>0, <1>a, <1>b, <1>d, <2>1 DEF SleepPlaces, SleepWindow, Sleep!kernel
<1>3. SleepClock'
  BY <1>0, CyclesAdd
  DEF Sleep!Program, Sleep!Restart, Sleep!kernel, SleepInv, SleepTypes, SleepClock,
      TickBegan, Elapsed
<1>4. SleepExpiry'
  BY <1>0, CyclesAdd DEF Sleep!Program, Sleep!Restart, SleepExpiry
<1> QED BY <1>1, <1>2, <1>3, <1>4 DEF SleepInv

\* An interrupt or the window's end wakes the core.
LEMMA SleepWoken ==
    ASSUME SleepFits, SleepInv, Sleep!Woken PROVE SleepInv'
<1> USE ClockConstants
<1>0. SleepTypes /\ SleepPlaces
  BY DEF SleepInv
<1>1. SleepTypes'
  BY <1>0 DEF Sleep!Woken, Sleep!counter, Sleep!kernel, SleepTypes, SleepIdle, SleepWindow
<1>2. SleepPlaces'
  BY <1>0
  DEF Sleep!Woken, Sleep!counter, Sleep!kernel, SleepPlaces, SleepWindow, Sleep!Total,
      Sleep!Want
<1>3. SleepClock'
  BY <1>0, CyclesAdd
  DEF Sleep!Woken, Sleep!counter, Sleep!kernel, SleepInv, SleepClock, SleepWindow,
      TickBegan, Elapsed
<1>4. SleepExpiry'
  <2>1. /\ s_idle = "asleep" /\ s_idle' = "wake" /\ (s_cvr # 0 \/ s_countflag \/ s_rvr = 0)
        /\ UNCHANGED <<s_now, s_cvr, s_countflag, s_left, s_ticks, s_asked>>
    BY DEF Sleep!Woken, Sleep!counter, Sleep!kernel
  <2>2. TickBegan' = TickBegan /\ Sleep!Total' = Sleep!Total
    BY <2>1 DEF TickBegan, Sleep!Total, Sleep!Want
  <2>3. s_cvr = 0 => s_countflag
    BY <1>0, <2>1 DEF SleepTypes, SleepPlaces
  <2>. DEFINE due == TickBegan + Sleep!Total
  <2>4. s_countflag => due <= s_now
    BY <2>1 DEF SleepInv, SleepExpiry
  <2>5. due' = due
    BY <2>2
  <2> HIDE DEF due
  <2> QED BY <2>1, <2>3, <2>4, <2>5 DEF SleepExpiry, due
<1> QED BY <1>1, <1>2, <1>3, <1>4 DEF SleepInv

\* The control register is read again, before the second stop.
LEMMA SleepReadWake ==
    ASSUME SleepFits, SleepInv, Sleep!ReadControl("wake", "stoppingAgain") PROVE SleepInv'
<1> USE ClockConstants
<1>0. SleepTypes /\ SleepPlaces
  BY DEF SleepInv
<1>1. SleepTypes'
  BY <1>0 DEF Sleep!ReadControl, Sleep!kernel, SleepTypes, SleepIdle, SleepWindow
<1>2. SleepPlaces'
  BY <1>0
  DEF Sleep!ReadControl, Sleep!kernel, SleepPlaces, SleepWindow, Sleep!Total, Sleep!Want
<1>3. SleepClock'
  BY <1>0, CyclesAdd
  DEF Sleep!ReadControl, Sleep!kernel, SleepInv, SleepClock, SleepWindow, TickBegan,
      Elapsed
<1>4. SleepExpiry'
  BY <1>0, CyclesAdd
  DEF Sleep!ReadControl, Sleep!kernel, SleepInv, SleepExpiry, TickBegan, Sleep!Total,
      Sleep!Want
<1> QED BY <1>1, <1>2, <1>3, <1>4 DEF SleepInv

\* The ticks slept are what the counter has passed, or all of the window.
LEMMA SleepStopAgain ==
    ASSUME SleepFits, SleepInv, Sleep!StopAgain PROVE SleepInv'
<1> USE ClockConstants
<1>0. SleepTypes /\ SleepPlaces
  BY DEF SleepInv
<1>. DEFINE n == s_slept'
            went == Sleep!Total - s_cvr
<1>a. /\ s_idle = "stoppingAgain" /\ s_idle' = "clear" /\ s_enabled' = FALSE
      /\ n = (IF s_seen THEN Sleep!Want ELSE Sleep!WholeTicks(went))
      /\ s_torn' = (s_torn \/ Sleep!Torn)
      /\ UNCHANGED <<s_now, s_rvr, s_cvr, s_countflag, s_pendst, s_asked, s_seen, s_left,
                     Sleep!kernel, Sleep!Total>>
  BY DEF Sleep!StopAgain, Sleep!Total, Sleep!Want
<1>b. s_asked >= 2 /\ s_left > 0 /\ s_left <= Reload /\ s_rvr = Sleep!Total - 1 /\ s_cvr <= s_rvr
  BY <1>0, <1>a DEF SleepPlaces, SleepWindow
<1>c. /\ Sleep!Want \in Nat /\ 2 <= Sleep!Want /\ Sleep!Want <= s_asked
      /\ Sleep!Total \in Nat
      /\ Sleep!Total = s_left + Cycles(Sleep!Want) - Sleep!PerTick
  BY <1>0, <1>b, WindowIs
<1>d. Cycles(s_ticks) \in Nat /\ Sleep!PerTick = Reload + 1 /\ Sleep!PerTick \in Nat
  BY <1>0, CyclesAdd DEF SleepTypes
<1>e. TickBegan + Elapsed <= s_now /\ (s_seen \/ s_cvr = 0 => TickBegan + Sleep!Total <= s_now)
  BY <1>a DEF SleepInv, SleepClock, SleepExpiry, SleepWindow
<1>f. went \in Nat /\ went <= Sleep!Total /\ TickBegan + went <= s_now
  BY <1>0, <1>b, <1>c, <1>d, <1>e DEF SleepTypes, Elapsed
<1>g. n \in Nat /\ n <= Sleep!Want /\ Cycles(s_ticks) + Cycles(n) <= s_now
  <2>1. CASE s_seen
    <3>1. n = Sleep!Want /\ Cycles(n) \in Nat
      BY <1>a, <1>c, <2>1, CyclesAdd
    <3> QED BY <1>0, <1>c, <1>d, <1>e, <2>1, <3>1 DEF SleepTypes, TickBegan
  <2>2. CASE ~s_seen /\ went < s_left
    <3>1. n = 0 /\ Cycles(n) = 0
      BY <1>a, <2>2, CyclesAdd DEF Sleep!WholeTicks
    <3> QED
      BY <1>0, <1>b, <1>c, <1>d, <1>f, <3>1, ClockConstants DEF SleepTypes, TickBegan
  <2>3. CASE ~s_seen /\ ~(went < s_left)
    <3>. DEFINE past == went - s_left
                d == past \div Sleep!PerTick
    <3>1. n = d + 1
      BY <1>a, <2>3 DEF Sleep!WholeTicks
    <3>2. past \in Nat
      BY <1>0, <1>f, <2>3 DEF SleepTypes
    <3>3. d \in Nat /\ d * Sleep!PerTick <= past
      <4>1. Sleep!PerTick \in Nat \ {0}
        BY <1>d, ClockConstants
      <4> QED BY <3>2, <4>1, WholePeriods
    <3>4. Cycles(d) <= past /\ Cycles(d) \in Nat /\ Cycles(n) = Cycles(d) + Sleep!PerTick
      BY <3>1, <3>3, CyclesAdd DEF Cycles
    <3> HIDE DEF d, went, n
    <3>5. Cycles(s_ticks) + Cycles(n) <= s_now
      BY <1>0, <1>d, <1>f, <3>4 DEF SleepTypes, TickBegan
    <3>6. Cycles(n) <= Cycles(Sleep!Want) /\ Cycles(Sleep!Want) \in Nat
      <4>1. Cycles(Sleep!Want) \in Nat
        BY <1>c, CyclesAdd
      <4> QED BY <1>0, <1>c, <1>d, <1>f, <3>4, <4>1 DEF SleepTypes
    <3>7. n <= Sleep!Want
      <4> SUFFICES ASSUME Sleep!Want + 1 <= n PROVE FALSE
        BY <1>c, <3>1, <3>3
      <4>1. Cycles(Sleep!Want + 1) <= Cycles(n)
        BY <1>c, <3>1, <3>3, CyclesAdd
      <4>2. Cycles(Sleep!Want + 1) = Cycles(Sleep!Want) + Sleep!PerTick
        BY <1>c, CyclesAdd
      <4> QED BY <1>d, <3>4, <3>6, <4>1, <4>2, ClockConstants
    <3> QED BY <3>1, <3>3, <3>5, <3>7
  <2> QED BY <2>1, <2>2, <2>3
<1> HIDE DEF n, went
<1>1. SleepTypes'
  BY <1>0, <1>a, <1>g
  DEF SleepTypes, SleepIdle, SleepWindow, Sleep!Torn, Sleep!kernel, n
<1>2. SleepPlaces'
  <2>1. n <= s_asked
    BY <1>0, <1>c, <1>g DEF SleepTypes
  <2> QED BY <1>0, <1>a, <2>1 DEF SleepPlaces, SleepWindow, Sleep!kernel, n
<1>3. SleepClock'
  <2>1. Cycles(s_ticks + n) = Cycles(s_ticks) + Cycles(n)
    BY <1>0, <1>g, CyclesAdd DEF SleepTypes
  <2> QED BY <1>a, <1>g, <2>1 DEF SleepClock, Sleep!kernel, n
<1>4. SleepExpiry'
  BY <1>0, CyclesAdd DEF Sleep!StopAgain, SleepExpiry
<1> QED BY <1>1, <1>2, <1>3, <1>4 DEF SleepInv

\* The window's own exception is cleared, and the rest of the tick restarted.
LEMMA SleepClearAndRestart ==
    ASSUME SleepFits, SleepInv, Sleep!ClearAndRestart PROVE SleepInv'
<1> USE ClockConstants
<1>0. SleepTypes /\ SleepPlaces
  BY DEF SleepInv
<1>1. SleepTypes'
  BY <1>0
  DEF Sleep!ClearAndRestart, Sleep!Restart, Sleep!PendingAfter, Sleep!kernel, SleepTypes,
      SleepIdle
<1>2. SleepPlaces'
  BY <1>0 DEF Sleep!ClearAndRestart, Sleep!Restart, Sleep!kernel, SleepPlaces, SleepWindow
<1>3. SleepClock'
  <2>1. /\ s_idle = "clear" /\ s_idle' = "wind" /\ s_cvr' = 0 /\ s_pendst' = FALSE
        /\ UNCHANGED <<s_now, s_slept, s_ticks>>
    BY DEF Sleep!ClearAndRestart, Sleep!Restart, Sleep!PendingAfter, Sleep!kernel
  <2>2. s_ticks + s_slept + 0 = s_ticks + s_slept /\ s_ticks + s_slept \in Nat
    BY <1>0 DEF SleepTypes
  <2>3. Cycles(s_ticks + s_slept) \in Nat /\ Cycles(s_ticks + s_slept) <= s_now
    BY <2>1, <2>2, CyclesAdd DEF SleepInv, SleepClock
  <2>4. Elapsed' = 0 /\ Owed' = 0
    BY <2>1 DEF Elapsed, Owed
  <2> QED BY <2>1, <2>2, <2>3, <2>4 DEF SleepClock, SleepWindow
<1>4. SleepExpiry'
  BY <1>0, CyclesAdd DEF Sleep!ClearAndRestart, SleepExpiry
<1> QED BY <1>1, <1>2, <1>3, <1>4 DEF SleepInv

\* The kernel is wound on by what was slept.
LEMMA SleepWind ==
    ASSUME SleepFits, SleepInv, Sleep!Wind PROVE SleepInv'
<1> USE ClockConstants
<1>0. SleepTypes /\ SleepPlaces
  BY DEF SleepInv
<1>1. SleepTypes'
  <2>1. s_ticks + s_slept \in Nat
    BY <1>0 DEF SleepTypes
  <2> QED BY <1>0, <2>1 DEF Sleep!Wind, Sleep!counter, SleepTypes, SleepIdle
<1>2. SleepPlaces'
  <2>1. s_rvr = Reload /\ s_enabled = TRUE
    BY <1>0 DEF Sleep!Wind, SleepPlaces, SleepWindow
  <2> QED BY <1>0, <2>1 DEF Sleep!Wind, Sleep!counter, SleepPlaces, SleepWindow
<1>3. SleepClock'
  <2>1. /\ s_idle = "wind" /\ s_idle' = "run" /\ s_ticks' = s_ticks + s_slept /\ s_slept' = 0
        /\ UNCHANGED <<s_now, s_cvr, s_rvr, s_pendst>>
    BY DEF Sleep!Wind, Sleep!counter
  <2>2. s_ticks + s_slept + 0 + Owed = s_ticks + s_slept + Owed
    BY <1>0 DEF SleepTypes, Owed
  <2>3. Elapsed' = Elapsed /\ Owed' = Owed
    BY <2>1 DEF Elapsed, Owed
  <2>4. Cycles(s_ticks + s_slept + Owed) + Elapsed <= s_now
    BY <2>1 DEF SleepInv, SleepClock
  <2>5. s_ticks' + s_slept' + Owed' = s_ticks + s_slept + Owed
    BY <2>1, <2>2, <2>3
  <2> QED BY <2>1, <2>3, <2>4, <2>5 DEF SleepClock, SleepWindow
<1>4. SleepExpiry'
  BY <1>0, CyclesAdd DEF Sleep!Wind, SleepExpiry
<1> QED BY <1>1, <1>2, <1>3, <1>4 DEF SleepInv

\* Every step of the down-counter keeps the clock's invariant, however many
\* cycles go by between two accesses of the registers.
LEMMA SleepNext ==
    ASSUME SleepFits, SleepInv, [BoardsNext]_all PROVE SleepInv'
<1>1. CASE Sleep!Next
  BY <1>1, SleepCycle, SleepSysTick, SleepWork, SleepSuppress, SleepReadStop,
     SleepStop, SleepDecline, SleepProgram, SleepWoken, SleepReadWake,
     SleepStopAgain, SleepClearAndRestart, SleepWind DEF Sleep!Next
<1>2. CASE UNCHANGED sleep
  BY <1>2
  DEF sleep, SleepInv, SleepTypes, SleepPlaces, SleepClock, SleepExpiry, TickBegan,
      Elapsed, Owed, Sleep!Total, Sleep!Want
<1> QED BY <1>1, <1>2, SleepMoves

\* No exception that becomes pending goes unnoticed, unless a stop is torn.
LEMMA OwedNext ==
    ASSUME SleepFits, SleepInv, SleepOwed, [BoardsNext]_all PROVE SleepOwed'
<1> USE ClockConstants
<1>0. SleepTypes /\ SleepPlaces
  BY DEF SleepInv
<1>1. CASE Sleep!Cycle
  <2>1. /\ UNCHANGED <<s_torn, Sleep!task>>
        /\ s_countflag => s_countflag'
        /\ s_pendst' => s_pendst \/ (s_enabled /\ s_cvr = 1)
        /\ s_enabled /\ s_cvr = 1 => s_countflag'
    BY <1>0, <1>1 DEF Sleep!Cycle, Sleep!counter, SleepTypes
  <2>2. s_asked' = s_asked /\ Sleep!Want' = Sleep!Want
    <3>1. s_asked' = s_asked
      BY <2>1 DEF Sleep!task
    <3> QED BY <3>1 DEF Sleep!Want
  <2>3. s_idle \in {"program", "clear"} => ~s_enabled
    BY <1>0 DEF SleepPlaces
  <2> QED BY <2>1, <2>2, <2>3 DEF SleepOwed, Sleep!task
<1>2. CASE Sleep!SysTick
  BY <1>0, <1>2 DEF Sleep!SysTick, SleepOwed
<1>3. CASE Sleep!Work
  BY <1>0, <1>3 DEF Sleep!Work, Sleep!Undisturbed, Sleep!Masked, Sleep!task, SleepOwed
<1>4. CASE Sleep!Suppress
  BY <1>0, <1>4 DEF Sleep!Suppress, Sleep!Undisturbed, Sleep!counter, SleepOwed
<1>5. CASE Sleep!ReadControl("stop", "stopping")
  BY <1>0, <1>5 DEF Sleep!ReadControl, SleepOwed
<1>6. CASE Sleep!Stop
  BY <1>0, <1>6 DEF Sleep!Stop, Sleep!Torn, Sleep!MustDecline, SleepOwed
<1>7. CASE Sleep!Decline
  BY <1>0, <1>7 DEF Sleep!Decline, SleepOwed
<1>8. CASE Sleep!Program
  BY <1>0, <1>8 DEF Sleep!Program, SleepOwed
<1>9. CASE Sleep!Woken
  BY <1>0, <1>9 DEF Sleep!Woken, Sleep!counter, SleepOwed
<1>10. CASE Sleep!ReadControl("wake", "stoppingAgain")
  BY <1>0, <1>10 DEF Sleep!ReadControl, SleepOwed
<1>11. CASE Sleep!ClearAndRestart
  BY <1>0, <1>11 DEF Sleep!ClearAndRestart, SleepOwed
<1>12. CASE Sleep!Wind
  BY <1>0, <1>12 DEF Sleep!Wind, SleepOwed
<1>13. CASE Sleep!StopAgain
  <2>1. /\ s_idle = "stoppingAgain" /\ s_idle' = "clear"
        /\ UNCHANGED <<s_pendst, Sleep!Want>> /\ s_torn' = (s_torn \/ Sleep!Torn)
        /\ s_slept' = (IF s_seen THEN Sleep!Want ELSE Sleep!WholeTicks(Sleep!Total - s_cvr))
    BY <1>13 DEF Sleep!StopAgain, Sleep!Want
  <2>2. ASSUME s_cvr = 0 PROVE Sleep!WholeTicks(Sleep!Total - s_cvr) = Sleep!Want
    <3>. DEFINE per == Sleep!PerTick
                w == Sleep!Want
    <3>1. s_asked >= 2 /\ s_left > 0 /\ s_left <= Reload
      BY <1>0, <2>1 DEF SleepPlaces, SleepWindow
    <3>2. /\ w \in Nat /\ 2 <= w /\ Sleep!Total = s_left + Cycles(w) - per
          /\ Sleep!Total \in Nat /\ Sleep!Total > per
      BY <1>0, <3>1, WindowIs
    <3>3. per \in Nat \ {0} /\ s_left <= per /\ s_left \in Nat
      BY <1>0, <3>1, CyclesAdd DEF SleepTypes
    <3>4. w - 1 \in Nat /\ Cycles(w) = (w - 1) * per + per /\ (w - 1) * per \in Nat
      <4>1. w - 1 \in Nat /\ (w - 1) + 1 = w
        BY <3>2
      <4>2. Cycles((w - 1) + 1) = Cycles(w - 1) + per /\ Cycles(w - 1) \in Nat
        BY <4>1, CyclesAdd
      <4> QED BY <4>1, <4>2 DEF Cycles
    <3>5. Sleep!Total - 0 - s_left = (w - 1) * per /\ ~(Sleep!Total - 0 < s_left)
      BY <3>2, <3>3, <3>4
    <3> HIDE DEF per, w
    <3>6. ((w - 1) * per) \div per = w - 1
      BY <3>3, <3>4, MultipleDivides
    <3> QED BY <2>2, <3>2, <3>5, <3>6 DEF Sleep!WholeTicks, per, w
  <2> QED BY <2>1, <2>2 DEF SleepOwed, Sleep!Torn
<1>14. CASE UNCHANGED sleep
  BY <1>14 DEF sleep, SleepOwed, Sleep!Want
<1> QED
  BY SleepMoves, <1>1, <1>2, <1>3, <1>4, <1>5, <1>6, <1>7, <1>8, <1>9, <1>10, <1>11,
     <1>12, <1>13, <1>14 DEF Sleep!Next

\* mps2-an385-qemu-tickless, for every reload, delay and register width that holds
\* two ticks, and any number of cycles between two accesses: the kernel's clock is
\* never ahead of the time, a window ends, and a tick is dropped only when the
\* counter expires and is reloaded between a read of CSR and the stop after it.
THEOREM SleepIsSafe == SleepFits /\ BoardsSpec => []SleepSafe
<1> SUFFICES ASSUME SleepFits PROVE BoardsSpec => []SleepSafe
  OBVIOUS
<1>1. BoardsInit => SleepInv /\ SleepOwed
  BY SleepStarts DEF BoardsInit
<1>2. SleepInv /\ SleepOwed /\ [BoardsNext]_all => SleepInv' /\ SleepOwed'
  BY SleepNext, OwedNext
<1>3. SleepInv /\ SleepOwed => SleepSafe
  BY ClockFollows DEF SleepSafe, SleepOwed, Sleep!DroppedOnlyWhenTorn, Sleep!NoTickDropped
<1> QED BY <1>1, <1>2, <1>3, PTL DEF BoardsSpec
-----------------------------------------------------------------------------
(* MpuCell.                                                                *)

\* A step of the boards is a step of the MPU cell, or leaves it alone.
LEMMA MpuMoves ==
    ASSUME [BoardsNext]_all PROVE Mpu!Next \/ UNCHANGED mpu
BY DEF BoardsNext, all, Ended

\* The lines each thread can be at.
MpuLines ==
    /\ m_line["good"] \in {"run", "svc"} /\ m_line["rogue"] \in {"run", "look", "svc"}
    /\ m_line["tmr"] \in {"run", "kernel", "pend"}
    /\ m_line["judge"] \in {"run", "kernel", "pend", "look"} /\ m_line["idle"] = "run"

\* The cell's variables and what they may hold.
MpuTypes ==
    /\ m_thread \in Mpu!Threads
    /\ m_line \in [Mpu!Threads -> {"run", "kernel", "svc", "pend", "look"}]
    /\ MpuLines
    /\ m_primask \in BOOLEAN /\ m_npriv \in BOOLEAN /\ m_judged \in BOOLEAN
    /\ m_ready \subseteq Mpu!Threads
    /\ m_laps \in [Mpu!Apps -> Nat] /\ m_done \in [Mpu!Apps -> BOOLEAN]
    /\ m_lap \in 0..5
    /\ m_faults \in Seq({"MemManage", "BusFault"} \X Mpu!Words \X (Mpu!Apps \cup {"none"}))

\* How many of its reaches rogue has made: on the way to one it has counted it.
Reached ==
    IF m_lap = 5 THEN 4 ELSE IF m_line["rogue"] = "look" THEN m_lap - 1 ELSE m_lap

\* Every reach was refused and logged, and its place in the log is its number.
MpuReaches ==
    /\ Len(m_faults) = Reached
    /\ m_line["rogue"] = "look" => m_lap > 0
    /\ \A i \in 1..Len(m_faults) :
          m_faults[i] = <<Mpu!Kind(Mpu!Reach[i]), Mpu!Reach[i], "rogue">>

\* The applications' memory is what they alone have stored in it.
MpuMemory ==
    /\ m_laps["good"] <= GoodLaps
    /\ m_done["good"] => m_laps["good"] = GoodLaps
    /\ m_laps["rogue"] = m_lap
    /\ m_done["rogue"] => m_lap = 5
    /\ m_judged => m_done["good"] /\ m_done["rogue"]

\* Safe with the strengthening that makes it inductive.
MpuInv ==
    /\ MpuTypes /\ m_mpu_on = TRUE
    /\ Mpu!BoundaryFollows /\ Mpu!KernelExclusive
    /\ Mpu!Confined /\ MpuReaches /\ MpuMemory

\* At boot the most urgent thread runs, inside its boundary.
LEMMA MpuStarts ==
    ASSUME Mpu!Init PROVE MpuInv
<1> USE ClockConstants
<1>1. m_thread = "tmr"
  BY DEF Mpu!Init, Mpu!Tops, Mpu!Threads, Mpu!Apps, Mpu!Prio
<1>2. MpuTypes
  <2>1. 0 \in 0..5 /\ <<>> \in Seq({"MemManage", "BusFault"} \X Mpu!Words \X (Mpu!Apps \cup {"none"}))
    OBVIOUS
  <2>2. m_line \in [Mpu!Threads -> {"run", "kernel", "svc", "pend", "look"}] /\ MpuLines
    BY DEF Mpu!Init, MpuLines, Mpu!Threads, Mpu!Apps
  <2>3. m_laps \in [Mpu!Apps -> Nat] /\ m_done \in [Mpu!Apps -> BOOLEAN]
    BY DEF Mpu!Init
  <2> QED BY <1>1, <2>1, <2>2, <2>3 DEF Mpu!Init, MpuTypes, Mpu!Threads
<1>3. Mpu!BoundaryFollows /\ Mpu!KernelExclusive
  BY <1>1 DEF Mpu!Init, Mpu!BoundaryFollows, Mpu!KernelExclusive, Mpu!AppOf, Mpu!Apps
<1>4. Mpu!Confined /\ MpuReaches /\ MpuMemory
  BY DEF Mpu!Init, Mpu!Confined, MpuReaches, Reached, MpuMemory, Mpu!Threads, Mpu!Apps
<1> QED BY <1>2, <1>3, <1>4 DEF MpuInv, Mpu!Init

\* What an application may touch is its own memory.
LEMMA OnlyItsOwn ==
    ASSUME MpuInv, m_thread \in Mpu!Apps, NEW w \in Mpu!Words
    PROVE  Mpu!Permitted(w) <=> w = m_thread
BY DEF MpuInv, Mpu!BoundaryFollows, Mpu!Permitted, Mpu!AppOf, Mpu!Apps

\* good's lap stores in its own memory.
LEMMA Mpu_task_good ==
    ASSUME MpuInv, Mpu!task_good PROVE MpuInv'
<1> USE ClockConstants
<1>0. MpuTypes /\ m_mpu_on = TRUE /\ Mpu!BoundaryFollows
  BY DEF MpuInv
<1>a. m_thread = "good" /\ Mpu!Permitted("good")
  <2>1. m_thread = "good" /\ m_thread \in Mpu!Apps /\ "good" \in Mpu!Words
    BY DEF Mpu!task_good, Mpu!Apps, Mpu!Words
  <2> QED BY <2>1, OnlyItsOwn
<1>b. /\ m_landed' = m_landed \cup {<<"good", "good">>}
      /\ m_line' = [m_line EXCEPT !["good"] = "svc"]
      /\ UNCHANGED <<m_thread, m_primask, m_pend, Mpu!boundary, Mpu!kernel, m_lap, m_judged,
                     m_faults>>
  BY <1>a DEF Mpu!task_good, Mpu!Access, Mpu!Land, Mpu!Goto
<1>c. \/ m_laps["good"] >= GoodLaps /\ m_laps' = m_laps
         /\ m_done' = [m_done EXCEPT !["good"] = TRUE]
      \/ /\ ~(m_laps["good"] >= GoodLaps) /\ m_done' = m_done
         /\ m_laps' = [m_laps EXCEPT !["good"] = m_laps["good"] + 1]
  BY <1>a DEF Mpu!task_good, Mpu!Store
<1>d. m_laps["good"] \in Nat /\ m_laps["good"] + 1 \in Nat
  BY <1>0 DEF MpuTypes, Mpu!Apps
<1>1. MpuTypes'
  <2>1. m_laps' \in [Mpu!Apps -> Nat] /\ m_done' \in [Mpu!Apps -> BOOLEAN]
    BY <1>0, <1>c, <1>d DEF MpuTypes
  <2>2. MpuLines' /\ m_line' \in [Mpu!Threads -> {"run", "kernel", "svc", "pend", "look"}]
    BY <1>0, <1>b DEF MpuTypes, MpuLines, Mpu!Threads, Mpu!Apps
  <2> QED BY <1>0, <1>b, <2>1, <2>2 DEF MpuTypes, Mpu!boundary, Mpu!kernel
<1>2. m_mpu_on' = TRUE /\ Mpu!BoundaryFollows'
  BY <1>0, <1>b DEF Mpu!boundary, Mpu!kernel, Mpu!BoundaryFollows
<1>3. Mpu!KernelExclusive'
  BY <1>0, <1>b DEF MpuInv, Mpu!KernelExclusive
<1>4. Mpu!Confined'
  BY <1>b DEF MpuInv, Mpu!Confined
<1>5. MpuReaches'
  <2>1. m_line'["rogue"] = m_line["rogue"]
    BY <1>0, <1>b
  <2> QED BY <1>b, <2>1 DEF MpuInv, MpuReaches, Reached
<1>6. MpuMemory'
  <2>1. /\ m_laps'["good"] <= GoodLaps
        /\ m_done'["good"] => m_laps'["good"] = GoodLaps
        /\ m_done["good"] => m_done'["good"]
    BY <1>0, <1>c, <1>d DEF MpuInv, MpuTypes, MpuMemory
  <2>2. m_laps'["rogue"] = m_laps["rogue"] /\ m_done'["rogue"] = m_done["rogue"]
    BY <1>0, <1>c DEF MpuTypes, Mpu!Apps
  <2> QED BY <1>b, <2>1, <2>2 DEF MpuInv, MpuMemory
<1> QED BY <1>1, <1>2, <1>3, <1>4, <1>5, <1>6 DEF MpuInv

\* rogue counts a lap in its own memory.
LEMMA Mpu_RogueCounts ==
    ASSUME MpuInv, Mpu!RogueCounts PROVE MpuInv'
<1> USE ClockConstants
<1>0. MpuTypes /\ m_mpu_on = TRUE /\ Mpu!BoundaryFollows
  BY DEF MpuInv
<1>a. m_thread = "rogue" /\ Mpu!Permitted("rogue")
  <2>1. m_thread = "rogue" /\ m_thread \in Mpu!Apps /\ "rogue" \in Mpu!Words
    BY DEF Mpu!RogueCounts, Mpu!Apps, Mpu!Words
  <2> QED BY <2>1, OnlyItsOwn
<1>b. /\ m_landed' = m_landed \cup {<<"rogue", "rogue">>}
      /\ m_line["rogue"] = "run" /\ m_line' = [m_line EXCEPT !["rogue"] = "look"]
      /\ m_laps' = [m_laps EXCEPT !["rogue"] = m_lap']
      /\ UNCHANGED <<m_thread, m_primask, m_pend, Mpu!boundary, Mpu!kernel, m_done, m_judged,
                     m_faults>>
  BY <1>a DEF Mpu!RogueCounts, Mpu!Access, Mpu!Land, Mpu!Store, Mpu!Goto
<1>c. /\ m_lap \in 0..5 /\ m_lap' \in 1..5 /\ m_lap' \in Nat
      /\ m_lap' = (IF m_lap < 5 THEN m_lap + 1 ELSE m_lap)
  <2>1. Mpu!RogueLaps = 5
    BY DEF Mpu!RogueLaps, Mpu!Reach
  <2> QED BY <1>0, <2>1 DEF MpuTypes, Mpu!RogueCounts
<1>1. MpuTypes'
  <2>1. m_laps' \in [Mpu!Apps -> Nat] /\ m_lap' \in 0..5
    <3>1. m_lap' \in 0..5
      BY <1>c
    <3> QED BY <1>0, <1>b, <1>c, <3>1 DEF MpuTypes
  <2>2. MpuLines' /\ m_line' \in [Mpu!Threads -> {"run", "kernel", "svc", "pend", "look"}]
    BY <1>0, <1>b DEF MpuTypes, MpuLines, Mpu!Threads, Mpu!Apps
  <2> QED BY <1>0, <1>b, <2>1, <2>2 DEF MpuTypes, Mpu!boundary, Mpu!kernel
<1>2. m_mpu_on' = TRUE /\ Mpu!BoundaryFollows'
  BY <1>0, <1>b DEF Mpu!boundary, Mpu!kernel, Mpu!BoundaryFollows
<1>3. Mpu!KernelExclusive'
  BY <1>0, <1>b DEF MpuInv, Mpu!KernelExclusive
<1>4. Mpu!Confined'
  BY <1>b DEF MpuInv, Mpu!Confined
<1>5. MpuReaches'
  <2>1. m_line'["rogue"] = "look"
    BY <1>0, <1>b DEF MpuTypes, Mpu!Threads, Mpu!Apps
  <2>2. Reached' = Reached
    BY <1>b, <1>c, <2>1 DEF Reached
  <2> QED BY <1>b, <1>c, <2>1, <2>2 DEF MpuInv, MpuReaches
<1>6. MpuMemory'
  <2>1. m_laps'["rogue"] = m_lap' /\ m_laps'["good"] = m_laps["good"]
    BY <1>0, <1>b DEF MpuTypes, Mpu!Apps
  <2> QED BY <1>b, <1>c, <2>1 DEF MpuInv, MpuMemory
<1> QED BY <1>1, <1>2, <1>3, <1>4, <1>5, <1>6 DEF MpuInv

\* rogue's reach is refused and logged, whatever it reaches for.
LEMMA Mpu_RogueReaches ==
    ASSUME MpuInv, Mpu!RogueReaches PROVE MpuInv'
<1> USE ClockConstants
<1>0. MpuTypes /\ m_mpu_on = TRUE /\ Mpu!BoundaryFollows
  BY DEF MpuInv
<1>a. /\ m_thread = "rogue" /\ m_line["rogue"] = "look" /\ m_RUNNING_APP = "rogue"
      /\ \A w \in Mpu!Words : Mpu!Permitted(w) => w = "rogue"
  <2>1. m_thread = "rogue" /\ m_thread \in Mpu!Apps /\ m_line["rogue"] = "look"
    BY DEF Mpu!RogueReaches, Mpu!Apps
  <2>2. m_RUNNING_APP = "rogue"
    BY <1>0, <2>1 DEF Mpu!BoundaryFollows, Mpu!AppOf
  <2> QED BY <2>1, <2>2, OnlyItsOwn
<1>b. /\ m_line' = [m_line EXCEPT !["rogue"] = "svc"]
      /\ UNCHANGED <<m_thread, m_primask, m_pend, m_region, m_npriv, m_RUNNING_APP, Mpu!kernel,
                     m_lap, m_judged>>
  BY <1>a DEF Mpu!RogueReaches, Mpu!Goto
<1>c. m_lap \in 1..5 /\ Mpu!RogueLaps = 5
  BY <1>0, <1>a DEF MpuInv, MpuTypes, MpuReaches, Mpu!RogueLaps, Mpu!Reach
<1>d. ASSUME m_lap < 5
      PROVE  LET w == Mpu!Reach[m_lap] IN
             /\ w \in Mpu!Words /\ m_mpu_on' = TRUE /\ m_laps' = m_laps /\ m_done' = m_done
             /\ m_landed' = m_landed /\ m_faults' = Append(m_faults, <<Mpu!Kind(w), w, "rogue">>)
  <2>. DEFINE w == Mpu!Reach[m_lap]
  <2>1. w \in Mpu!Words /\ w # "rogue"
    BY <1>c, <1>d DEF Mpu!Reach, Mpu!Words, Mpu!Apps
  <2>2. ~Mpu!Permitted(w) /\ (w = "good" => ~Mpu!Permitted("good"))
        /\ (w = "ctrl" => ~Mpu!Permitted("ctrl"))
    BY <1>a, <2>1
  <2> HIDE DEF w
  <2>3. /\ Mpu!Access(w)
        /\ m_mpu_on' = (m_mpu_on /\ ~(w = "ctrl" /\ Mpu!Permitted("ctrl")))
        /\ m_laps' = IF w = "good" THEN Mpu!Store("good", GoodLaps + 1) ELSE m_laps
        /\ UNCHANGED m_done
    BY <1>c, <1>d DEF Mpu!RogueReaches, w
  <2> QED BY <1>0, <1>a, <2>1, <2>2, <2>3 DEF Mpu!Access, Mpu!Refuse, Mpu!Store, w
<1>e. ASSUME ~(m_lap < 5)
      PROVE  /\ m_lap = 5 /\ m_done' = [m_done EXCEPT !["rogue"] = TRUE]
             /\ UNCHANGED <<m_mpu_on, m_laps, m_landed, m_faults>>
  BY <1>c, <1>e DEF Mpu!RogueReaches
<1>f. /\ m_mpu_on' = TRUE /\ m_laps' = m_laps /\ m_landed' = m_landed
      /\ m_done' = m_done \/ (m_lap = 5 /\ m_done' = [m_done EXCEPT !["rogue"] = TRUE])
  BY <1>0, <1>d, <1>e
<1>1. MpuTypes'
  <2>1. m_done' \in [Mpu!Apps -> BOOLEAN]
    BY <1>0, <1>f DEF MpuTypes
  <2>2. MpuLines' /\ m_line' \in [Mpu!Threads -> {"run", "kernel", "svc", "pend", "look"}]
    BY <1>0, <1>b DEF MpuTypes, MpuLines, Mpu!Threads, Mpu!Apps
  <2>3. m_faults' \in Seq({"MemManage", "BusFault"} \X Mpu!Words \X (Mpu!Apps \cup {"none"}))
    <3>1. CASE m_lap < 5
      <4>. DEFINE w == Mpu!Reach[m_lap]
                 f == <<Mpu!Kind(w), w, "rogue">>
      <4>1. f \in {"MemManage", "BusFault"} \X Mpu!Words \X (Mpu!Apps \cup {"none"})
        BY <1>d, <3>1 DEF Mpu!Kind, Mpu!Apps
      <4>2. m_faults' = Append(m_faults, f)
        BY <1>d, <3>1
      <4> HIDE DEF f
      <4> QED BY <1>0, <4>1, <4>2 DEF MpuTypes
    <3>2. CASE ~(m_lap < 5)
      BY <1>0, <1>e, <3>2 DEF MpuTypes
    <3> QED BY <3>1, <3>2
  <2> QED BY <1>0, <1>b, <1>f, <2>1, <2>2, <2>3 DEF MpuTypes, Mpu!kernel
<1>2. Mpu!BoundaryFollows'
  BY <1>0, <1>b DEF Mpu!kernel, Mpu!BoundaryFollows
<1>3. Mpu!KernelExclusive'
  BY <1>0, <1>b DEF MpuInv, Mpu!KernelExclusive
<1>4. Mpu!Confined'
  BY <1>f DEF MpuInv, Mpu!Confined
<1>5. MpuReaches'
  <2>1. m_line'["rogue"] = "svc"
    BY <1>0, <1>b DEF MpuTypes, Mpu!Threads, Mpu!Apps
  <2>2. CASE m_lap < 5
    <3>. DEFINE w == Mpu!Reach[m_lap]
               f == <<Mpu!Kind(w), w, "rogue">>
    <3>1. Len(m_faults) = m_lap - 1 /\ m_lap \in 1..4
      BY <1>a, <1>c, <2>2 DEF MpuInv, MpuReaches, Reached
    <3>2. m_faults' = Append(m_faults, f)
      BY <1>d, <2>2
    <3>3. /\ Len(m_faults') = m_lap /\ m_faults'[m_lap] = f
          /\ \A i \in 1..Len(m_faults) : m_faults'[i] = m_faults[i]
      <4> HIDE DEF f
      <4> QED BY <1>0, <3>1, <3>2 DEF MpuTypes
    <3>4. Reached' = m_lap
      BY <1>b, <2>1, <3>1 DEF Reached
    <3>5. ASSUME NEW i \in 1..Len(m_faults')
          PROVE  m_faults'[i] = <<Mpu!Kind(Mpu!Reach[i]), Mpu!Reach[i], "rogue">>
      <4>1. i = m_lap \/ i \in 1..Len(m_faults)
        BY <3>1, <3>3
      <4> QED BY <3>3, <4>1 DEF MpuInv, MpuReaches
    <3> QED BY <2>1, <3>3, <3>4, <3>5 DEF MpuReaches
  <2>3. CASE ~(m_lap < 5)
    BY <1>a, <1>b, <1>e, <2>1, <2>3 DEF MpuInv, MpuReaches, Reached
  <2> QED BY <2>2, <2>3
<1>6. MpuMemory'
  <2>1. m_done'["good"] = m_done["good"] /\ (m_done'["rogue"] => m_lap = 5)
        /\ (m_done["rogue"] => m_done'["rogue"])
    BY <1>0, <1>f DEF MpuInv, MpuTypes, MpuMemory, Mpu!Apps
  <2> QED BY <1>b, <1>f, <2>1 DEF MpuInv, MpuMemory
<1> QED BY <1>1, <1>2, <1>3, <1>4, <1>5, <1>6, <1>f DEF MpuInv

\* An application's call masks the switch while the kernel works.
LEMMA Mpu_SVCall ==
    ASSUME MpuInv, Mpu!SVCall PROVE MpuInv'
<1> USE ClockConstants
<1>0. MpuTypes /\ m_mpu_on = TRUE /\ Mpu!BoundaryFollows
  BY DEF MpuInv
<1>1. MpuTypes'
  BY <1>0 DEF Mpu!SVCall, Mpu!Goto, Mpu!boundary, Mpu!memory, MpuTypes, MpuLines
<1>2. m_mpu_on' = TRUE
  BY <1>0 DEF Mpu!SVCall, Mpu!boundary
<1>3. Mpu!BoundaryFollows'
  BY <1>0 DEF Mpu!SVCall, Mpu!boundary, Mpu!BoundaryFollows
<1>4. Mpu!KernelExclusive'
  BY <1>0 DEF Mpu!SVCall, Mpu!Goto, MpuInv, Mpu!KernelExclusive
<1>5. Mpu!Confined'
  BY <1>0 DEF Mpu!SVCall, Mpu!memory, MpuInv, Mpu!Confined
<1>6. MpuReaches'
  BY <1>0 DEF Mpu!SVCall, Mpu!Goto, Mpu!memory, MpuInv, MpuReaches, Reached
<1>7. MpuMemory'
  BY <1>0 DEF Mpu!SVCall, Mpu!memory, MpuInv, MpuMemory
<1> QED BY <1>1, <1>2, <1>3, <1>4, <1>5, <1>6, <1>7 DEF MpuInv

\* A privileged thread's kernel call.
LEMMA Mpu_with_kernel ==
    ASSUME MpuInv, Mpu!with_kernel PROVE MpuInv'
<1> USE ClockConstants
<1>0. MpuTypes /\ m_mpu_on = TRUE /\ Mpu!BoundaryFollows
  BY DEF MpuInv
<1>1. MpuTypes'
  BY <1>0
  DEF Mpu!with_kernel, Mpu!Goto, Mpu!boundary, Mpu!kernel, Mpu!memory, MpuTypes, MpuLines
<1>2. m_mpu_on' = TRUE
  BY <1>0 DEF Mpu!with_kernel, Mpu!boundary
<1>3. Mpu!BoundaryFollows'
  BY <1>0 DEF Mpu!with_kernel, Mpu!boundary, Mpu!kernel, Mpu!BoundaryFollows
<1>4. Mpu!KernelExclusive'
  BY <1>0
  DEF Mpu!with_kernel, Mpu!Goto, MpuInv, MpuTypes, Mpu!KernelExclusive,
      Mpu!BoundaryFollows, Mpu!Apps
<1>5. Mpu!Confined'
  BY <1>0 DEF Mpu!with_kernel, Mpu!memory, MpuInv, Mpu!Confined
<1>6. MpuReaches'
  BY <1>0 DEF Mpu!with_kernel, Mpu!Goto, Mpu!memory, MpuInv, MpuReaches, Reached
<1>7. MpuMemory'
  BY <1>0 DEF Mpu!with_kernel, Mpu!memory, MpuInv, MpuMemory
<1> QED BY <1>1, <1>2, <1>3, <1>4, <1>5, <1>6, <1>7 DEF MpuInv

\* A thread is put to sleep, and asks for the switch.
LEMMA Mpu_Delay ==
    ASSUME MpuInv, Mpu!Delay PROVE MpuInv'
<1> USE ClockConstants
<1>0. MpuTypes /\ m_mpu_on = TRUE /\ Mpu!BoundaryFollows
  BY DEF MpuInv
<1>1. MpuTypes'
  BY <1>0
  DEF Mpu!Delay, Mpu!Goto, Mpu!boundary, Mpu!memory, MpuTypes, MpuLines, Mpu!Threads,
      Mpu!Apps
<1>2. m_mpu_on' = TRUE
  BY <1>0 DEF Mpu!Delay, Mpu!boundary
<1>3. Mpu!BoundaryFollows'
  BY <1>0 DEF Mpu!Delay, Mpu!boundary, Mpu!BoundaryFollows
<1>4. Mpu!KernelExclusive'
  BY <1>0 DEF Mpu!Delay, Mpu!Goto, MpuInv, MpuTypes, Mpu!KernelExclusive
<1>5. Mpu!Confined'
  BY <1>0 DEF Mpu!Delay, Mpu!memory, MpuInv, Mpu!Confined
<1>6. MpuReaches'
  BY <1>0 DEF Mpu!Delay, Mpu!Goto, Mpu!memory, MpuInv, MpuReaches, Reached
<1>7. MpuMemory'
  BY <1>0 DEF Mpu!Delay, Mpu!memory, MpuInv, MpuMemory
<1> QED BY <1>1, <1>2, <1>3, <1>4, <1>5, <1>6, <1>7 DEF MpuInv

\* A thread asks for the switch.
LEMMA Mpu_PendSwitch ==
    ASSUME MpuInv, Mpu!PendSwitch PROVE MpuInv'
<1> USE ClockConstants
<1>0. MpuTypes /\ m_mpu_on = TRUE /\ Mpu!BoundaryFollows
  BY DEF MpuInv
<1>1. MpuTypes'
  BY <1>0
  DEF Mpu!PendSwitch, Mpu!Goto, Mpu!boundary, Mpu!kernel, Mpu!memory, MpuTypes, MpuLines
<1>2. m_mpu_on' = TRUE
  BY <1>0 DEF Mpu!PendSwitch, Mpu!boundary
<1>3. Mpu!BoundaryFollows'
  BY <1>0 DEF Mpu!PendSwitch, Mpu!boundary, Mpu!kernel, Mpu!BoundaryFollows
<1>4. Mpu!KernelExclusive'
  BY <1>0 DEF Mpu!PendSwitch, Mpu!Goto, MpuInv, Mpu!KernelExclusive
<1>5. Mpu!Confined'
  BY <1>0 DEF Mpu!PendSwitch, Mpu!memory, MpuInv, Mpu!Confined
<1>6. MpuReaches'
  BY <1>0 DEF Mpu!PendSwitch, Mpu!Goto, Mpu!memory, MpuInv, MpuReaches, Reached
<1>7. MpuMemory'
  BY <1>0 DEF Mpu!PendSwitch, Mpu!memory, MpuInv, MpuMemory
<1> QED BY <1>1, <1>2, <1>3, <1>4, <1>5, <1>6, <1>7 DEF MpuInv

\* The judge reads the applications' counters when both are done.
LEMMA Mpu_task_judge ==
    ASSUME MpuInv, Mpu!task_judge PROVE MpuInv'
<1> USE ClockConstants
<1>0. MpuTypes /\ m_mpu_on = TRUE /\ Mpu!BoundaryFollows
  BY DEF MpuInv
<1>1. MpuTypes'
  BY <1>0 DEF Mpu!task_judge, Mpu!Goto, Mpu!boundary, Mpu!kernel, MpuTypes, MpuLines
<1>2. m_mpu_on' = TRUE
  BY <1>0 DEF Mpu!task_judge, Mpu!boundary
<1>3. Mpu!BoundaryFollows'
  BY <1>0 DEF Mpu!task_judge, Mpu!boundary, Mpu!kernel, Mpu!BoundaryFollows
<1>4. Mpu!KernelExclusive'
  BY <1>0 DEF Mpu!task_judge, Mpu!Goto, MpuInv, Mpu!KernelExclusive
<1>5. Mpu!Confined'
  BY <1>0 DEF Mpu!task_judge, MpuInv, Mpu!Confined
<1>6. MpuReaches'
  BY <1>0 DEF Mpu!task_judge, Mpu!Goto, MpuInv, MpuTypes, MpuReaches, Reached, Mpu!Apps
<1>7. MpuMemory'
  BY <1>0 DEF Mpu!task_judge, MpuInv, MpuMemory, Mpu!Apps
<1> QED BY <1>1, <1>2, <1>3, <1>4, <1>5, <1>6, <1>7 DEF MpuInv

\* The tick readies the sleepers and asks for the switch.
LEMMA Mpu_SysTick ==
    ASSUME MpuInv, Mpu!SysTick PROVE MpuInv'
<1> USE ClockConstants
<1>0. MpuTypes /\ m_mpu_on = TRUE /\ Mpu!BoundaryFollows
  BY DEF MpuInv
<1>1. MpuTypes'
  BY <1>0 DEF Mpu!SysTick, Mpu!boundary, Mpu!memory, MpuTypes, MpuLines
<1>2. m_mpu_on' = TRUE
  BY <1>0 DEF Mpu!SysTick, Mpu!boundary
<1>3. Mpu!BoundaryFollows'
  BY <1>0 DEF Mpu!SysTick, Mpu!boundary, Mpu!BoundaryFollows
<1>4. Mpu!KernelExclusive'
  BY <1>0 DEF Mpu!SysTick, MpuInv, Mpu!KernelExclusive
<1>5. Mpu!Confined'
  BY <1>0 DEF Mpu!SysTick, Mpu!memory, MpuInv, Mpu!Confined
<1>6. MpuReaches'
  BY <1>0 DEF Mpu!SysTick, Mpu!memory, MpuInv, MpuReaches, Reached
<1>7. MpuMemory'
  BY <1>0 DEF Mpu!SysTick, Mpu!memory, MpuInv, MpuMemory
<1> QED BY <1>1, <1>2, <1>3, <1>4, <1>5, <1>6, <1>7 DEF MpuInv

\* The switch moves the boundary with the task.
LEMMA Mpu_PendSV ==
    ASSUME MpuInv, Mpu!PendSV PROVE MpuInv'
<1> USE ClockConstants
<1>0. MpuTypes /\ m_mpu_on = TRUE /\ Mpu!BoundaryFollows
  BY DEF MpuInv
<1>1. MpuTypes'
  BY <1>0 DEF Mpu!PendSV, Mpu!Unprivileged, Mpu!Tops, Mpu!memory, MpuTypes, MpuLines
<1>2. m_mpu_on' = TRUE
  BY <1>0 DEF Mpu!PendSV
<1>3. Mpu!BoundaryFollows'
  BY <1>0
  DEF Mpu!PendSV, Mpu!Granted, Mpu!Unprivileged, Mpu!BoundaryFollows, Mpu!AppOf,
      Mpu!Apps, Mpu!None
<1>4. Mpu!KernelExclusive'
  BY <1>0 DEF Mpu!PendSV, MpuInv, Mpu!KernelExclusive
<1>5. Mpu!Confined'
  BY <1>0 DEF Mpu!PendSV, Mpu!memory, MpuInv, Mpu!Confined
<1>6. MpuReaches'
  BY <1>0 DEF Mpu!PendSV, Mpu!memory, MpuInv, MpuReaches, Reached
<1>7. MpuMemory'
  BY <1>0 DEF Mpu!PendSV, Mpu!memory, MpuInv, MpuMemory
<1> QED BY <1>1, <1>2, <1>3, <1>4, <1>5, <1>6, <1>7 DEF MpuInv

\* Every step of the MPU cell keeps the invariant.
LEMMA MpuNext ==
    ASSUME MpuInv, [BoardsNext]_all PROVE MpuInv'
<1>1. CASE Mpu!Next
  BY <1>1, Mpu_task_good, Mpu_RogueCounts, Mpu_RogueReaches, Mpu_SVCall,
     Mpu_with_kernel, Mpu_Delay, Mpu_PendSwitch, Mpu_task_judge, Mpu_SysTick,
     Mpu_PendSV DEF Mpu!Next
<1>2. CASE UNCHANGED mpu
  <2>1. MpuTypes'
    BY <1>2 DEF mpu, MpuInv, MpuTypes, MpuLines
  <2>2. Mpu!BoundaryFollows' /\ Mpu!KernelExclusive' /\ Mpu!Confined' /\ m_mpu_on' = TRUE
    BY <1>2 DEF mpu, MpuInv, Mpu!BoundaryFollows, Mpu!KernelExclusive, Mpu!Confined
  <2>3. MpuReaches' /\ MpuMemory'
    BY <1>2 DEF mpu, MpuInv, MpuReaches, Reached, MpuMemory
  <2> QED BY <2>1, <2>2, <2>3 DEF MpuInv
<1> QED BY <1>1, <1>2, MpuMoves

\* mps2-an505-qemu-mpu, for every number of laps: every access that happened was
\* an application's to its own memory.
THEOREM MpuIsSafe == BoardsSpec => []MpuSafe
<1>1. BoardsInit => MpuInv
  BY MpuStarts DEF BoardsInit
<1>2. MpuInv /\ [BoardsNext]_all => MpuInv'
  BY MpuNext
<1>3. MpuInv => MpuSafe
  <2> SUFFICES ASSUME MpuInv PROVE Mpu!Safe
    BY DEF MpuSafe
  <2>1. Len(Mpu!Reach) = 4 /\ Mpu!RogueLaps = 5
    BY DEF Mpu!Reach, Mpu!RogueLaps
  <2>2. m_judged => Len(m_faults) = 4
    BY DEF MpuInv, MpuReaches, MpuMemory, Reached
  <2>3. Mpu!RefusalsExact
    BY <2>1, <2>2 DEF MpuInv, MpuReaches, Mpu!RefusalsExact
  <2>4. Mpu!Judged
    BY <2>1 DEF MpuInv, MpuMemory, Mpu!Judged
  <2> QED BY <2>3, <2>4 DEF MpuInv, Mpu!Safe
<1> QED BY <1>1, <1>2, <1>3, PTL DEF BoardsSpec
-----------------------------------------------------------------------------
(* RadioTasks.                                                             *)

\* A step of the boards is a step of the radio's tasks, or leaves them alone.
LEMMA TasksMove ==
    ASSUME [BoardsNext]_all PROVE Tasks!Next \/ UNCHANGED tasks
BY DEF BoardsNext, all, Ended

\* The boot of xiao-s3-wifi, and what it expects of the driver: Idle and Tmr have
\* stacks, the runtime's task is above the driver's ceiling and the daemon
\* (TIMER_TASK_PRIORITY), and only it deletes others.
WifiCell ==
    /\ KernelStacks
    /\ MaxPriorities - 2 <= DaemonPriority
    /\ Deleter \subseteq {main}

\* The variables and what they may hold.
TaskTypes ==
    /\ {main, idle, tmr} \subseteq k_alive /\ k_alive \subseteq Tasks!Task
    /\ k_waiting \subseteq k_alive /\ k_sleeping \subseteq k_alive
    /\ k_freed \subseteq Radio \ k_alive
    /\ k_index \in [Tasks!Task -> Tasks!Index \cup {Nobody}]
    /\ k_prio \in [Tasks!Task -> Nat]
    /\ k_loaded \in Tasks!Task /\ k_pend \in BOOLEAN
    /\ k_slots \in [Tasks!Index -> Tasks!Task \cup {Nobody}]
    /\ k_context \in [Tasks!Task -> Tasks!Task \cup {Nobody}]
    /\ k_pc \in [Tasks!Task -> {"run", "taking", "slept", "clearing", "gone"}]
    /\ k_victim \in [Tasks!Task -> Radio \cup {Nobody}]

\* The runtime's task outranks every other.
MainOnTop ==
    /\ k_prio[main] = DaemonPriority + 1
    /\ \A u \in Tasks!Task \ {main} : k_prio[u] < DaemonPriority + 1

\* Every live task, and the one in the CPU even when it has just deleted itself,
\* is found through its index; and a slot names a task only at its own index.
SlotsNameTasks ==
    /\ \A t \in k_alive \cup {k_loaded} :
          k_index[t] \in Tasks!Index /\ k_slots[k_index[t]] = t
    /\ \A i \in Tasks!Index : k_slots[i] # Nobody => k_index[k_slots[i]] = i

\* A deletion is not interrupted before the slot is cleared, so the index has
\* no new owner when it is.
DeletionIsWhole ==
    \A t \in Tasks!Task : k_pc[t] = "clearing" =>
        /\ t = main /\ k_loaded = main /\ ~k_pend
        /\ k_victim[main] \in Radio \ k_alive /\ k_index[k_victim[main]] \in Tasks!Index
        /\ \A u \in k_alive : k_index[u] # k_index[k_victim[main]]

\* The properties of RadioTasks with the strengthening that makes them inductive.
TasksInv ==
    /\ TaskTypes /\ MainOnTop /\ SlotsNameTasks /\ DeletionIsWhole
    /\ Tasks!CurrentIsLoaded /\ Tasks!MostUrgentRuns
    /\ Tasks!ContextIntact /\ Tasks!FreedIsUnreachable

\* The tasks and the indices, without the names of RadioTasks.
LEMMA TaskNames ==
    /\ Tasks!Task = {main, idle, tmr} \cup Radio
    /\ Nobody \notin Tasks!Task /\ Nobody \notin Tasks!Index
    /\ {main, idle, tmr} \cap Radio = {} /\ main \in Tasks!Task
BY TaskConstants DEF Tasks!Task, Tasks!Boot, Tasks!Index

\* The ceiling keeps the driver's tasks below the runtime's.
LEMMA ClampedBelow ==
    ASSUME WifiCell, NEW p \in Nat
    PROVE  Tasks!Clamp(p) \in Nat /\ Tasks!Clamp(p) < DaemonPriority + 1
<1>1. p % 256 \in Nat
  BY SMT
<1>2. MaxPriorities - 2 \in Nat /\ MaxPriorities - 2 <= DaemonPriority /\ DaemonPriority \in Nat
  BY TaskConstants DEF WifiCell
<1> DEFINE m == p % 256
<1> HIDE DEF m
<1> QED BY <1>1, <1>2 DEF Tasks!Clamp, m

\* While no switch is pending the task in the CPU is the kernel's current one,
\* it is ready, and nothing that is ready outranks it.
LEMMA LoadedIsTop ==
    ASSUME TasksInv, ~k_pend
    PROVE  /\ k_current = k_loaded /\ k_loaded \in k_alive
           /\ k_loaded \notin k_waiting /\ k_loaded \notin k_sleeping
           /\ \A u \in k_alive : u \in k_waiting \/ u \in k_sleeping \/ ~(k_prio[u] > k_prio[k_loaded])
BY DEF TasksInv, Tasks!CurrentIsLoaded, Tasks!MostUrgentRuns, Tasks!Top, Tasks!Ready,
   Tasks!Outranks

\* A name without a slot is neither live nor in the CPU, and no slot leads to it.
LEMMA UnmadeIsNowhere ==
    ASSUME TasksInv, NEW n \in Tasks!Unmade
    PROVE  n \in Radio /\ n \notin k_alive /\ n # k_loaded /\ \A i \in Tasks!Index : k_slots[i] # n
BY TaskNames
DEF TasksInv, TaskTypes, SlotsNameTasks, Tasks!FreedIsUnreachable, Tasks!Unmade

\* What a wake does: one of those that wait is ready, and the switch is asked
\* for when it outranks the current task.
LEMMA WakeReadiesOne ==
    ASSUME Tasks!Wake
    PROVE  \/ k_waiting' = k_waiting /\ k_pend' = k_pend
           \/ \E w \in k_waiting :
                 k_waiting' = k_waiting \ {w} /\ k_pend' = (k_pend \/ k_prio[w] > k_prio[k_current])
BY DEF Tasks!Wake, Tasks!Top, Tasks!Outranks

\* A new task gets an index that is free, its slot and a context that starts it.
LEMMA TasksTaskCreate ==
    ASSUME WifiCell, TasksInv, NEW t \in Tasks!Task, NEW n \in Radio, NEW p \in Asked, Tasks!TaskCreate(t, n, p)
    PROVE  TasksInv'
<1> USE TaskNames
<1>0. /\ TaskTypes /\ MainOnTop /\ SlotsNameTasks /\ DeletionIsWhole
      /\ Tasks!CurrentIsLoaded /\ Tasks!MostUrgentRuns /\ Tasks!ContextIntact /\ Tasks!FreedIsUnreachable
  BY DEF TasksInv
<1>a. ~k_pend /\ k_loaded = t /\ k_current = t /\ t \in k_alive /\ t \notin k_waiting /\ t \notin k_sleeping
  BY LoadedIsTop DEF Tasks!TaskCreate, Tasks!At
<1>b. \A u \in k_alive : u \in k_waiting \/ u \in k_sleeping \/ ~(k_prio[u] > k_prio[t])
  BY <1>a, LoadedIsTop
<1>c. Tasks!Clamp(p) \in Nat /\ Tasks!Clamp(p) < DaemonPriority + 1
  BY ClampedBelow, TaskConstants
<1>d. n \notin k_alive /\ n # t /\ \A i \in Tasks!Index : k_slots[i] # n
  BY <1>a, UnmadeIsNowhere DEF Tasks!TaskCreate
<1>1. TaskTypes'
  BY <1>0, <1>a, <1>c, <1>d
  DEF Tasks!TaskCreate, Tasks!FreeIndex, Tasks!Register, TaskTypes
<1>2. MainOnTop'
  BY <1>0, <1>a, <1>c, <1>d DEF Tasks!TaskCreate, MainOnTop
<1>3. SlotsNameTasks'
  BY <1>0, <1>a, <1>c, <1>d
  DEF Tasks!TaskCreate, Tasks!FreeIndex, Tasks!Register, SlotsNameTasks, TaskTypes
<1>4. DeletionIsWhole'
  BY <1>0, <1>a, <1>c, <1>d DEF Tasks!TaskCreate, Tasks!At, DeletionIsWhole
<1>5. Tasks!CurrentIsLoaded'
  BY <1>0, <1>a, <1>c, <1>d DEF Tasks!TaskCreate, Tasks!CurrentIsLoaded
<1>6. Tasks!MostUrgentRuns'
  <2>1. /\ k_current' = t /\ k_alive' = k_alive \cup {n} /\ k_waiting' = k_waiting /\ k_sleeping' = k_sleeping
        /\ k_prio' = [k_prio EXCEPT ![n] = Tasks!Clamp(p)] /\ k_pend' = (Tasks!Clamp(p) > k_prio[t])
    BY <1>a DEF Tasks!TaskCreate
  <2>2. \A u \in k_alive' : u \in k_waiting' \/ u \in k_sleeping' \/ k_pend' \/ ~(k_prio'[u] > k_prio'[t])
    <3> SUFFICES ASSUME NEW u \in k_alive', u \notin k_waiting, u \notin k_sleeping, ~k_pend'
                 PROVE  ~(k_prio'[u] > k_prio'[t])
      BY <2>1
    <3>1. k_prio'[t] = k_prio[t]
      BY <2>1, <1>0, <1>d DEF TaskTypes
    <3>2. CASE u = n
      BY <2>1, <3>1, <3>2, <1>0, <1>c DEF TaskTypes
    <3>3. CASE u # n
      BY <2>1, <3>1, <3>3, <1>0, <1>b DEF TaskTypes
    <3> QED BY <3>2, <3>3
  <2> QED
    BY <2>1, <2>2, <1>a DEF Tasks!MostUrgentRuns, Tasks!Ready, Tasks!Top, Tasks!Outranks
<1>7. Tasks!ContextIntact'
  BY <1>0, <1>a, <1>c, <1>d DEF Tasks!TaskCreate, Tasks!ContextIntact, TaskTypes
<1>8. Tasks!FreedIsUnreachable'
  BY <1>0, <1>a, <1>c, <1>d DEF Tasks!TaskCreate, Tasks!Register, Tasks!FreedIsUnreachable
<1> QED BY <1>1, <1>2, <1>3, <1>4, <1>5, <1>6, <1>7, <1>8 DEF TasksInv

\* A new priority is clamped below the daemon's, and the switch asked for when due.
LEMMA TasksSetTaskPriority ==
    ASSUME WifiCell, TasksInv, NEW t \in Tasks!Task, NEW v \in Radio, NEW p \in Asked, Tasks!SetTaskPriority(t, v, p)
    PROVE  TasksInv'
<1> USE TaskNames
<1>0. /\ TaskTypes /\ MainOnTop /\ SlotsNameTasks /\ DeletionIsWhole
      /\ Tasks!CurrentIsLoaded /\ Tasks!MostUrgentRuns /\ Tasks!ContextIntact /\ Tasks!FreedIsUnreachable
  BY DEF TasksInv
<1>a. ~k_pend /\ k_loaded = t /\ k_current = t /\ t \in k_alive /\ t \notin k_waiting /\ t \notin k_sleeping
  BY LoadedIsTop DEF Tasks!SetTaskPriority, Tasks!Goto, Tasks!At
<1>b. \A u \in k_alive : u \in k_waiting \/ u \in k_sleeping \/ ~(k_prio[u] > k_prio[t])
  BY <1>a, LoadedIsTop
<1>c. Tasks!Clamp(p) \in Nat /\ Tasks!Clamp(p) < DaemonPriority + 1
  BY ClampedBelow, TaskConstants
<1>1. TaskTypes'
  BY <1>0, <1>a, <1>c DEF Tasks!SetTaskPriority, Tasks!Goto, Tasks!adapter, TaskTypes
<1>2. MainOnTop'
  BY <1>0, <1>a, <1>c DEF Tasks!SetTaskPriority, MainOnTop
<1>3. SlotsNameTasks'
  BY <1>0, <1>a, <1>c DEF Tasks!SetTaskPriority, Tasks!adapter, SlotsNameTasks
<1>4. DeletionIsWhole'
  BY <1>0, <1>a, <1>c DEF Tasks!SetTaskPriority, Tasks!Goto, DeletionIsWhole, TaskTypes
<1>5. Tasks!CurrentIsLoaded'
  BY <1>0, <1>a, <1>c DEF Tasks!SetTaskPriority, Tasks!CurrentIsLoaded
<1>6. Tasks!MostUrgentRuns'
  BY <1>0, <1>a, <1>c, <1>b
  DEF Tasks!SetTaskPriority, Tasks!MostUrgentRuns, Tasks!Ready, Tasks!Top, Tasks!Outranks
<1>7. Tasks!ContextIntact'
  BY <1>0, <1>a, <1>c DEF Tasks!SetTaskPriority, Tasks!adapter, Tasks!ContextIntact
<1>8. Tasks!FreedIsUnreachable'
  BY <1>0, <1>a, <1>c DEF Tasks!SetTaskPriority, Tasks!adapter, Tasks!FreedIsUnreachable
<1> QED BY <1>1, <1>2, <1>3, <1>4, <1>5, <1>6, <1>7, <1>8 DEF TasksInv

\* A deletion begins in the kernel: the victim is no task any more.
LEMMA TasksDeleteOther ==
    ASSUME WifiCell, TasksInv, NEW t \in Tasks!Task, NEW v \in Radio, Tasks!DeleteOther(t, v)
    PROVE  TasksInv'
<1> USE TaskNames
<1>0. /\ TaskTypes /\ MainOnTop /\ SlotsNameTasks /\ DeletionIsWhole
      /\ Tasks!CurrentIsLoaded /\ Tasks!MostUrgentRuns /\ Tasks!ContextIntact /\ Tasks!FreedIsUnreachable
  BY DEF TasksInv
<1>a. ~k_pend /\ k_loaded = t /\ k_current = t /\ t \in k_alive /\ t \notin k_waiting /\ t \notin k_sleeping
  BY LoadedIsTop DEF Tasks!DeleteOther, Tasks!Goto, Tasks!At
<1>b. \A u \in k_alive : u \in k_waiting \/ u \in k_sleeping \/ ~(k_prio[u] > k_prio[t])
  BY <1>a, LoadedIsTop
<1>1. TaskTypes'
  BY <1>0, <1>a
  DEF Tasks!DeleteOther, Tasks!Goto, Tasks!KernelDelete, Tasks!adapter, TaskTypes
<1>2. MainOnTop'
  BY <1>0, <1>a DEF Tasks!DeleteOther, MainOnTop
<1>3. SlotsNameTasks'
  BY <1>0, <1>a DEF Tasks!DeleteOther, Tasks!KernelDelete, Tasks!adapter, SlotsNameTasks
<1>4. DeletionIsWhole'
  BY <1>0, <1>a
  DEF Tasks!DeleteOther, Tasks!Goto, Tasks!KernelDelete, DeletionIsWhole, TaskTypes,
      SlotsNameTasks, WifiCell
<1>5. Tasks!CurrentIsLoaded'
  BY <1>0, <1>a DEF Tasks!DeleteOther, Tasks!CurrentIsLoaded
<1>6. Tasks!MostUrgentRuns'
  BY <1>0, <1>a, <1>b
  DEF Tasks!DeleteOther, Tasks!KernelDelete, Tasks!MostUrgentRuns, Tasks!Ready,
      Tasks!Top, Tasks!Outranks
<1>7. Tasks!ContextIntact'
  BY <1>0, <1>a
  DEF Tasks!DeleteOther, Tasks!KernelDelete, Tasks!adapter, Tasks!ContextIntact
<1>8. Tasks!FreedIsUnreachable'
  BY <1>0, <1>a DEF Tasks!DeleteOther, Tasks!adapter, Tasks!FreedIsUnreachable
<1> QED BY <1>1, <1>2, <1>3, <1>4, <1>5, <1>6, <1>7, <1>8 DEF TasksInv

\* and ends with its slot cleared and its stack given back.
LEMMA TasksClearSlot ==
    ASSUME WifiCell, TasksInv, NEW t \in Tasks!Task, Tasks!ClearSlot(t)
    PROVE  TasksInv'
<1> USE TaskNames
<1>0. /\ TaskTypes /\ MainOnTop /\ SlotsNameTasks /\ DeletionIsWhole
      /\ Tasks!CurrentIsLoaded /\ Tasks!MostUrgentRuns /\ Tasks!ContextIntact /\ Tasks!FreedIsUnreachable
  BY DEF TasksInv
<1>a. ~k_pend /\ k_loaded = t /\ k_current = t /\ t \in k_alive /\ t \notin k_waiting /\ t \notin k_sleeping
  BY LoadedIsTop DEF Tasks!ClearSlot, Tasks!Goto, Tasks!At
<1>b. \A u \in k_alive : u \in k_waiting \/ u \in k_sleeping \/ ~(k_prio[u] > k_prio[t])
  BY <1>a, LoadedIsTop
<1>1. TaskTypes'
  BY <1>0, <1>a
  DEF Tasks!ClearSlot, Tasks!Goto, Tasks!At, Tasks!Register, Tasks!kernel, TaskTypes,
      DeletionIsWhole
<1>2. MainOnTop'
  BY <1>0, <1>a DEF Tasks!ClearSlot, Tasks!kernel, MainOnTop
<1>3. SlotsNameTasks'
  BY <1>0, <1>a
  DEF Tasks!ClearSlot, Tasks!Goto, Tasks!At, Tasks!Register, Tasks!kernel,
      SlotsNameTasks, DeletionIsWhole
<1>4. DeletionIsWhole'
  BY <1>0, <1>a DEF Tasks!ClearSlot, Tasks!Goto, DeletionIsWhole, TaskTypes
<1>5. Tasks!CurrentIsLoaded'
  BY <1>0, <1>a DEF Tasks!ClearSlot, Tasks!kernel, Tasks!CurrentIsLoaded
<1>6. Tasks!MostUrgentRuns'
  BY <1>0, <1>a, <1>b
  DEF Tasks!ClearSlot, Tasks!kernel, Tasks!MostUrgentRuns, Tasks!Ready, Tasks!Top,
      Tasks!Outranks
<1>7. Tasks!ContextIntact'
  BY <1>0, <1>a DEF Tasks!ClearSlot, Tasks!kernel, Tasks!ContextIntact
<1>8. Tasks!FreedIsUnreachable'
  BY <1>0, <1>a
  DEF Tasks!ClearSlot, Tasks!Goto, Tasks!At, Tasks!Register, Tasks!FreedIsUnreachable,
      TaskTypes, SlotsNameTasks, DeletionIsWhole
<1> QED BY <1>1, <1>2, <1>3, <1>4, <1>5, <1>6, <1>7, <1>8 DEF TasksInv

\* A task that deletes itself keeps its stack, on which the switch still stores.
LEMMA TasksDeleteSelf ==
    ASSUME WifiCell, TasksInv, NEW t \in Tasks!Task, Tasks!DeleteSelf(t)
    PROVE  TasksInv'
<1> USE TaskNames
<1>0. /\ TaskTypes /\ MainOnTop /\ SlotsNameTasks /\ DeletionIsWhole
      /\ Tasks!CurrentIsLoaded /\ Tasks!MostUrgentRuns /\ Tasks!ContextIntact /\ Tasks!FreedIsUnreachable
  BY DEF TasksInv
<1>a. ~k_pend /\ k_loaded = t /\ k_current = t /\ t \in k_alive /\ t \notin k_waiting /\ t \notin k_sleeping
  BY LoadedIsTop DEF Tasks!DeleteSelf, Tasks!Goto, Tasks!At
<1>b. \A u \in k_alive : u \in k_waiting \/ u \in k_sleeping \/ ~(k_prio[u] > k_prio[t])
  BY <1>a, LoadedIsTop
<1>1. TaskTypes'
  BY <1>0, <1>a
  DEF Tasks!DeleteSelf, Tasks!Goto, Tasks!KernelDelete, Tasks!adapter, TaskTypes
<1>2. MainOnTop'
  BY <1>0, <1>a DEF Tasks!DeleteSelf, MainOnTop
<1>3. SlotsNameTasks'
  BY <1>0, <1>a DEF Tasks!DeleteSelf, Tasks!KernelDelete, Tasks!adapter, SlotsNameTasks
<1>4. DeletionIsWhole'
  BY <1>0, <1>a DEF Tasks!DeleteSelf, Tasks!Goto, DeletionIsWhole
<1>5. Tasks!CurrentIsLoaded'
  BY <1>0, <1>a DEF Tasks!DeleteSelf, Tasks!CurrentIsLoaded
<1>6. Tasks!MostUrgentRuns'
  BY <1>0, <1>a, <1>b DEF Tasks!DeleteSelf, Tasks!MostUrgentRuns
<1>7. Tasks!ContextIntact'
  BY <1>0, <1>a
  DEF Tasks!DeleteSelf, Tasks!KernelDelete, Tasks!adapter, Tasks!ContextIntact
<1>8. Tasks!FreedIsUnreachable'
  BY <1>0, <1>a DEF Tasks!DeleteSelf, Tasks!adapter, Tasks!FreedIsUnreachable
<1> QED BY <1>1, <1>2, <1>3, <1>4, <1>5, <1>6, <1>7, <1>8 DEF TasksInv

\* A task sleeps and asks for the switch.
LEMMA TasksUsleep ==
    ASSUME WifiCell, TasksInv, NEW t \in Tasks!Task, Tasks!Usleep(t)
    PROVE  TasksInv'
<1> USE TaskNames
<1>0. /\ TaskTypes /\ MainOnTop /\ SlotsNameTasks /\ DeletionIsWhole
      /\ Tasks!CurrentIsLoaded /\ Tasks!MostUrgentRuns /\ Tasks!ContextIntact /\ Tasks!FreedIsUnreachable
  BY DEF TasksInv
<1>a. ~k_pend /\ k_loaded = t /\ k_current = t /\ t \in k_alive /\ t \notin k_waiting /\ t \notin k_sleeping
  BY LoadedIsTop DEF Tasks!Usleep, Tasks!Goto, Tasks!At
<1>b. \A u \in k_alive : u \in k_waiting \/ u \in k_sleeping \/ ~(k_prio[u] > k_prio[t])
  BY <1>a, LoadedIsTop
<1>1. TaskTypes'
  BY <1>0, <1>a DEF Tasks!Usleep, Tasks!Goto, Tasks!adapter, TaskTypes
<1>2. MainOnTop'
  BY <1>0, <1>a DEF Tasks!Usleep, MainOnTop
<1>3. SlotsNameTasks'
  BY <1>0, <1>a DEF Tasks!Usleep, Tasks!adapter, SlotsNameTasks
<1>4. DeletionIsWhole'
  BY <1>0, <1>a DEF Tasks!Usleep, Tasks!Goto, DeletionIsWhole, TaskTypes
<1>5. Tasks!CurrentIsLoaded'
  BY <1>0, <1>a DEF Tasks!Usleep, Tasks!CurrentIsLoaded
<1>6. Tasks!MostUrgentRuns'
  BY <1>0, <1>a, <1>b DEF Tasks!Usleep, Tasks!MostUrgentRuns
<1>7. Tasks!ContextIntact'
  BY <1>0, <1>a DEF Tasks!Usleep, Tasks!adapter, Tasks!ContextIntact
<1>8. Tasks!FreedIsUnreachable'
  BY <1>0, <1>a DEF Tasks!Usleep, Tasks!adapter, Tasks!FreedIsUnreachable
<1> QED BY <1>1, <1>2, <1>3, <1>4, <1>5, <1>6, <1>7, <1>8 DEF TasksInv

\* A task gives way and asks for the switch.
LEMMA TasksYieldTask ==
    ASSUME WifiCell, TasksInv, NEW t \in Tasks!Task, NEW at \in {"run", "slept"}, Tasks!YieldTask(t, at)
    PROVE  TasksInv'
<1> USE TaskNames
<1>0. /\ TaskTypes /\ MainOnTop /\ SlotsNameTasks /\ DeletionIsWhole
      /\ Tasks!CurrentIsLoaded /\ Tasks!MostUrgentRuns /\ Tasks!ContextIntact /\ Tasks!FreedIsUnreachable
  BY DEF TasksInv
<1>a. ~k_pend /\ k_loaded = t /\ k_current = t /\ t \in k_alive /\ t \notin k_waiting /\ t \notin k_sleeping
  BY LoadedIsTop DEF Tasks!YieldTask, Tasks!Goto, Tasks!At
<1>b. \A u \in k_alive : u \in k_waiting \/ u \in k_sleeping \/ ~(k_prio[u] > k_prio[t])
  BY <1>a, LoadedIsTop
<1>1. TaskTypes'
  BY <1>0, <1>a DEF Tasks!YieldTask, Tasks!Goto, Tasks!kernel, Tasks!adapter, TaskTypes
<1>2. MainOnTop'
  BY <1>0, <1>a DEF Tasks!YieldTask, Tasks!kernel, MainOnTop
<1>3. SlotsNameTasks'
  BY <1>0, <1>a DEF Tasks!YieldTask, Tasks!kernel, Tasks!adapter, SlotsNameTasks
<1>4. DeletionIsWhole'
  BY <1>0, <1>a DEF Tasks!YieldTask, Tasks!Goto, DeletionIsWhole, TaskTypes
<1>5. Tasks!CurrentIsLoaded'
  BY <1>0, <1>a DEF Tasks!YieldTask, Tasks!kernel, Tasks!CurrentIsLoaded
<1>6. Tasks!MostUrgentRuns'
  BY <1>0, <1>a, <1>b DEF Tasks!YieldTask, Tasks!MostUrgentRuns
<1>7. Tasks!ContextIntact'
  BY <1>0, <1>a DEF Tasks!YieldTask, Tasks!kernel, Tasks!adapter, Tasks!ContextIntact
<1>8. Tasks!FreedIsUnreachable'
  BY <1>0, <1>a DEF Tasks!YieldTask, Tasks!adapter, Tasks!FreedIsUnreachable
<1> QED BY <1>1, <1>2, <1>3, <1>4, <1>5, <1>6, <1>7, <1>8 DEF TasksInv

\* A take gets the semaphore, or puts the caller to wait.
LEMMA TasksTake ==
    ASSUME WifiCell, TasksInv, NEW t \in Tasks!Task, NEW at \in {"run", "taking"}, Tasks!Take(t, at)
    PROVE  TasksInv'
<1> USE TaskNames
<1>0. /\ TaskTypes /\ MainOnTop /\ SlotsNameTasks /\ DeletionIsWhole
      /\ Tasks!CurrentIsLoaded /\ Tasks!MostUrgentRuns /\ Tasks!ContextIntact /\ Tasks!FreedIsUnreachable
  BY DEF TasksInv
<1>a. ~k_pend /\ k_loaded = t /\ k_current = t /\ t \in k_alive /\ t \notin k_waiting /\ t \notin k_sleeping
  BY LoadedIsTop
  DEF Tasks!Take, Tasks!Goto, Tasks!At, Tasks!TakeCompletes, Tasks!TakeFails,
      Tasks!TakeBlocks
<1>b. \A u \in k_alive : u \in k_waiting \/ u \in k_sleeping \/ ~(k_prio[u] > k_prio[t])
  BY <1>a, LoadedIsTop
<1>1. TaskTypes'
  <2>1. CASE Tasks!TakeCompletes(t, at)
    BY <2>1, <1>0, <1>a
    DEF Tasks!TakeCompletes, Tasks!Goto, Tasks!adapter, Tasks!frames, TaskTypes
  <2>2. CASE Tasks!TakeFails(t)
    BY <2>2, <1>0, <1>a
    DEF Tasks!TakeFails, Tasks!Goto, Tasks!adapter, Tasks!frames, Tasks!kernel, TaskTypes
  <2>3. CASE Tasks!TakeBlocks(t, at)
    BY <2>3, <1>0, <1>a DEF Tasks!TakeBlocks, Tasks!Goto, Tasks!adapter, TaskTypes
  <2> QED BY <2>1, <2>2, <2>3 DEF Tasks!Take
<1>2. MainOnTop'
  BY <1>0, <1>a
  DEF Tasks!Take, Tasks!TakeCompletes, Tasks!TakeFails, Tasks!TakeBlocks, MainOnTop
<1>3. SlotsNameTasks'
  BY <1>0, <1>a
  DEF Tasks!Take, Tasks!TakeCompletes, Tasks!TakeFails, Tasks!TakeBlocks, Tasks!adapter,
      SlotsNameTasks
<1>4. DeletionIsWhole'
  BY <1>0, <1>a
  DEF Tasks!Take, Tasks!Goto, Tasks!TakeCompletes, Tasks!TakeFails, Tasks!TakeBlocks,
      DeletionIsWhole, TaskTypes
<1>5. Tasks!CurrentIsLoaded'
  BY <1>0, <1>a
  DEF Tasks!Take, Tasks!TakeCompletes, Tasks!TakeFails, Tasks!TakeBlocks,
      Tasks!CurrentIsLoaded
<1>6. Tasks!MostUrgentRuns'
  BY <1>0, <1>a, <1>b
  DEF Tasks!Take, Tasks!TakeCompletes, Tasks!TakeFails, Tasks!TakeBlocks,
      Tasks!MostUrgentRuns, Tasks!Ready, Tasks!Top, Tasks!Outranks
<1>7. Tasks!ContextIntact'
  BY <1>0, <1>a
  DEF Tasks!Take, Tasks!TakeCompletes, Tasks!TakeFails, Tasks!TakeBlocks, Tasks!adapter,
      Tasks!ContextIntact
<1>8. Tasks!FreedIsUnreachable'
  BY <1>0, <1>a
  DEF Tasks!Take, Tasks!TakeCompletes, Tasks!TakeFails, Tasks!TakeBlocks, Tasks!adapter,
      Tasks!FreedIsUnreachable
<1> QED BY <1>1, <1>2, <1>3, <1>4, <1>5, <1>6, <1>7, <1>8 DEF TasksInv

\* A task's give readies the most urgent that waits.
LEMMA TasksGive ==
    ASSUME WifiCell, TasksInv, NEW t \in Tasks!Task, Tasks!Give(t)
    PROVE  TasksInv'
<1> USE TaskNames
<1>0. /\ TaskTypes /\ MainOnTop /\ SlotsNameTasks /\ DeletionIsWhole
      /\ Tasks!CurrentIsLoaded /\ Tasks!MostUrgentRuns /\ Tasks!ContextIntact /\ Tasks!FreedIsUnreachable
  BY DEF TasksInv
<1>a. ~k_pend /\ k_loaded = t /\ k_current = t /\ t \in k_alive /\ t \notin k_waiting /\ t \notin k_sleeping
  BY LoadedIsTop DEF Tasks!Give, Tasks!Goto, Tasks!At
<1>b. \A u \in k_alive : u \in k_waiting \/ u \in k_sleeping \/ ~(k_prio[u] > k_prio[t])
  BY <1>a, LoadedIsTop
<1>w. \/ k_waiting' = k_waiting /\ k_pend' = k_pend
      \/ \E w \in k_waiting :
            k_waiting' = k_waiting \ {w} /\ k_pend' = (k_pend \/ k_prio[w] > k_prio[k_current])
  BY WakeReadiesOne DEF Tasks!Give
<1>1. TaskTypes'
  BY <1>0, <1>a, <1>w DEF Tasks!Give, Tasks!Goto, Tasks!adapter, TaskTypes
<1>2. MainOnTop'
  BY <1>0, <1>a, <1>w DEF Tasks!Give, MainOnTop
<1>3. SlotsNameTasks'
  BY <1>0, <1>a, <1>w DEF Tasks!Give, Tasks!adapter, SlotsNameTasks
<1>4. DeletionIsWhole'
  BY <1>0, <1>a, <1>w DEF Tasks!Give, Tasks!Goto, DeletionIsWhole, TaskTypes
<1>5. Tasks!CurrentIsLoaded'
  BY <1>0, <1>a, <1>w DEF Tasks!Give, Tasks!CurrentIsLoaded
<1>6. Tasks!MostUrgentRuns'
  BY <1>0, <1>a, <1>w, <1>b
  DEF Tasks!Give, Tasks!MostUrgentRuns, Tasks!Ready, Tasks!Top, Tasks!Outranks
<1>7. Tasks!ContextIntact'
  BY <1>0, <1>a, <1>w DEF Tasks!Give, Tasks!adapter, Tasks!ContextIntact
<1>8. Tasks!FreedIsUnreachable'
  BY <1>0, <1>a, <1>w DEF Tasks!Give, Tasks!adapter, Tasks!FreedIsUnreachable
<1> QED BY <1>1, <1>2, <1>3, <1>4, <1>5, <1>6, <1>7, <1>8 DEF TasksInv

\* An interrupt's give asks for the switch when whom it readies is more urgent.
LEMMA TasksGiveFromIsr ==
    ASSUME WifiCell, TasksInv, Tasks!GiveFromIsr
    PROVE  TasksInv'
<1> USE TaskNames
<1>0. /\ TaskTypes /\ MainOnTop /\ SlotsNameTasks /\ DeletionIsWhole
      /\ Tasks!CurrentIsLoaded /\ Tasks!MostUrgentRuns /\ Tasks!ContextIntact /\ Tasks!FreedIsUnreachable
  BY DEF TasksInv
<1>w. \/ k_waiting' = k_waiting /\ k_pend' = k_pend
      \/ \E w \in k_waiting :
            k_waiting' = k_waiting \ {w} /\ k_pend' = (k_pend \/ k_prio[w] > k_prio[k_current])
  BY WakeReadiesOne DEF Tasks!GiveFromIsr
<1>a. k_pc[main] = "clearing" =>
        k_current = main /\ main \notin k_waiting /\ main \notin k_sleeping
  BY <1>0, LoadedIsTop DEF TaskTypes, DeletionIsWhole
<1>1. TaskTypes'
  BY <1>0, <1>w, <1>a DEF Tasks!GiveFromIsr, Tasks!adapter, Tasks!frames, TaskTypes
<1>2. MainOnTop'
  BY <1>0, <1>w, <1>a DEF Tasks!GiveFromIsr, MainOnTop
<1>3. SlotsNameTasks'
  BY <1>0, <1>w, <1>a DEF Tasks!GiveFromIsr, Tasks!adapter, SlotsNameTasks
<1>4. DeletionIsWhole'
  BY <1>0, <1>w, <1>a
  DEF Tasks!GiveFromIsr, Tasks!frames, DeletionIsWhole, TaskTypes, MainOnTop
<1>5. Tasks!CurrentIsLoaded'
  BY <1>0, <1>w, <1>a DEF Tasks!GiveFromIsr, Tasks!CurrentIsLoaded
<1>6. Tasks!MostUrgentRuns'
  BY <1>0, <1>w, <1>a
  DEF Tasks!GiveFromIsr, Tasks!MostUrgentRuns, Tasks!Ready, Tasks!Top, Tasks!Outranks
<1>7. Tasks!ContextIntact'
  BY <1>0, <1>w, <1>a DEF Tasks!GiveFromIsr, Tasks!adapter, Tasks!ContextIntact
<1>8. Tasks!FreedIsUnreachable'
  BY <1>0, <1>w, <1>a DEF Tasks!GiveFromIsr, Tasks!adapter, Tasks!FreedIsUnreachable
<1> QED BY <1>1, <1>2, <1>3, <1>4, <1>5, <1>6, <1>7, <1>8 DEF TasksInv

\* The tick ends waits, and asks for the switch when one of those is more urgent.
LEMMA TasksOnTick ==
    ASSUME WifiCell, TasksInv, Tasks!OnTick
    PROVE  TasksInv'
<1> USE TaskNames
<1>0. /\ TaskTypes /\ MainOnTop /\ SlotsNameTasks /\ DeletionIsWhole
      /\ Tasks!CurrentIsLoaded /\ Tasks!MostUrgentRuns /\ Tasks!ContextIntact /\ Tasks!FreedIsUnreachable
  BY DEF TasksInv
<1>a. k_pc[main] = "clearing" =>
        k_current = main /\ main \notin k_waiting /\ main \notin k_sleeping
  BY <1>0, LoadedIsTop DEF TaskTypes, DeletionIsWhole
<1>1. TaskTypes'
  BY <1>0, <1>a DEF Tasks!OnTick, Tasks!adapter, Tasks!frames, TaskTypes
<1>2. MainOnTop'
  BY <1>0, <1>a DEF Tasks!OnTick, MainOnTop
<1>3. SlotsNameTasks'
  BY <1>0, <1>a DEF Tasks!OnTick, Tasks!adapter, SlotsNameTasks
<1>4. DeletionIsWhole'
  <2>1. PICK v \in k_waiting \cup k_sleeping, slice \in BOOLEAN :
          /\ slice => k_prio[v] = k_prio[k_current]
          /\ k_pend' = (k_pend \/ slice \/ k_prio[v] > k_prio[k_current])
    BY DEF Tasks!OnTick, Tasks!TickWants, Tasks!Outranks
  <2>2. UNCHANGED <<k_alive, k_index, k_loaded, k_pc, k_victim>>
    BY DEF Tasks!OnTick, Tasks!frames
  <2>3. k_pc[main] = "clearing" => k_prio[v] < k_prio[k_current] /\ k_prio[v] \in Nat /\ k_prio[k_current] \in Nat
    BY <1>0, <1>a DEF TaskTypes, MainOnTop
  <2>4. k_pc[main] = "clearing" => ~slice /\ ~(k_prio[v] > k_prio[k_current])
    BY <2>1, <2>3
  <2> QED BY <1>0, <2>1, <2>2, <2>4 DEF DeletionIsWhole
<1>5. Tasks!CurrentIsLoaded'
  BY <1>0, <1>a DEF Tasks!OnTick, Tasks!CurrentIsLoaded
<1>6. Tasks!MostUrgentRuns'
  <2>1. PICK v \in k_waiting \cup k_sleeping, slice \in BOOLEAN :
          /\ k_waiting' = k_waiting \ {v} /\ k_sleeping' = k_sleeping \ {v}
          /\ k_pend' = (k_pend \/ slice \/ k_prio[v] > k_prio[k_current])
    BY DEF Tasks!OnTick, Tasks!TickWants, Tasks!Outranks
  <2>2. UNCHANGED <<k_alive, k_prio, k_current, k_loaded>>
    BY DEF Tasks!OnTick, Tasks!adapter
  <2>3. k_pend \/ (/\ k_current \in k_alive \ (k_waiting \cup k_sleeping)
                   /\ \A u \in k_alive \ (k_waiting \cup k_sleeping) :
                         ~(k_prio[u] > k_prio[k_current]))
    BY <1>0 DEF Tasks!MostUrgentRuns, Tasks!Top, Tasks!Ready, Tasks!Outranks
  <2>4. k_pend' \/ (/\ k_current \in k_alive \ (k_waiting' \cup k_sleeping')
                    /\ \A u \in k_alive \ (k_waiting' \cup k_sleeping') :
                          ~(k_prio[u] > k_prio[k_current]))
    BY <2>1, <2>3
  <2> QED BY <2>2, <2>4 DEF Tasks!MostUrgentRuns, Tasks!Top, Tasks!Ready, Tasks!Outranks
<1>7. Tasks!ContextIntact'
  BY <1>0, <1>a DEF Tasks!OnTick, Tasks!adapter, Tasks!ContextIntact
<1>8. Tasks!FreedIsUnreachable'
  BY <1>0, <1>a DEF Tasks!OnTick, Tasks!adapter, Tasks!FreedIsUnreachable
<1> QED BY <1>1, <1>2, <1>3, <1>4, <1>5, <1>6, <1>7, <1>8 DEF TasksInv

\* The switch stores the CPU in the outgoing task's slot and loads the incoming's.
LEMMA TasksSwitchingInterrupt ==
    ASSUME WifiCell, TasksInv, Tasks!SwitchingInterrupt
    PROVE  TasksInv'
<1> USE TaskNames
<1>0. /\ TaskTypes /\ MainOnTop /\ SlotsNameTasks /\ DeletionIsWhole
      /\ Tasks!CurrentIsLoaded /\ Tasks!MostUrgentRuns /\ Tasks!ContextIntact /\ Tasks!FreedIsUnreachable
  BY DEF TasksInv
<1>s. PICK to \in k_alive :
        /\ to \notin k_waiting /\ to \notin k_sleeping /\ k_pend /\ k_current' = to /\ k_pend' = FALSE
        /\ \A u \in k_alive : u \in k_waiting \/ u \in k_sleeping \/ ~(k_prio[u] > k_prio[to])
        /\ IF to = k_loaded \/ Nobody \in {k_slots[k_index[k_loaded]], k_slots[k_index[to]]}
           THEN UNCHANGED <<k_context, k_loaded>>
           ELSE Tasks!Swap(k_slots[k_index[k_loaded]], k_slots[k_index[to]])
  BY <1>0
  DEF Tasks!SwitchingInterrupt, Tasks!CurrentIsLoaded, Tasks!Top, Tasks!Ready,
      Tasks!Outranks
<1>i. UNCHANGED <<k_alive, k_index, k_prio, k_waiting, k_sleeping, k_slots, k_freed, k_pc, k_victim>>
  BY DEF Tasks!SwitchingInterrupt, Tasks!frames
<1>n. k_slots[k_index[k_loaded]] = k_loaded /\ k_slots[k_index[to]] = to /\ k_loaded # Nobody /\ to # Nobody
  BY <1>0 DEF TaskTypes, SlotsNameTasks
<1>x. k_loaded' = to
  BY <1>0, <1>s, <1>n DEF TaskTypes, Tasks!Swap, Tasks!ContextIntact
<1>y. k_context' = k_context \/ k_context' = [k_context EXCEPT ![k_loaded] = k_loaded]
  BY <1>s, <1>n DEF Tasks!Swap
<1>z. to = k_loaded => k_context' = k_context
  BY <1>s
<1>q. to # k_loaded => k_context' = [k_context EXCEPT ![k_loaded] = k_loaded]
  BY <1>s, <1>n DEF Tasks!Swap
<1>1. TaskTypes'
  <2>1. k_context' \in [Tasks!Task -> Tasks!Task \cup {Nobody}]
    BY <1>0, <1>y DEF TaskTypes
  <2>2. k_loaded' \in Tasks!Task /\ k_pend' \in BOOLEAN
    BY <1>0, <1>s, <1>x DEF TaskTypes
  <2> QED BY <1>0, <1>i, <2>1, <2>2 DEF TaskTypes
<1>2. MainOnTop'
  BY <1>0, <1>s, <1>i, <1>x DEF MainOnTop, TaskTypes
<1>3. SlotsNameTasks'
  BY <1>0, <1>s, <1>i, <1>x DEF SlotsNameTasks, TaskTypes
<1>4. DeletionIsWhole'
  BY <1>0, <1>s, <1>i, <1>x DEF DeletionIsWhole
<1>5. Tasks!CurrentIsLoaded'
  BY <1>0, <1>s, <1>i, <1>x DEF Tasks!CurrentIsLoaded
<1>6. Tasks!MostUrgentRuns'
  BY <1>0, <1>s, <1>i, <1>x
  DEF Tasks!MostUrgentRuns, Tasks!Ready, Tasks!Top, Tasks!Outranks
<1>7. Tasks!ContextIntact'
  BY <1>0, <1>s, <1>i, <1>x, <1>z, <1>q DEF Tasks!ContextIntact, TaskTypes
<1>8. Tasks!FreedIsUnreachable'
  BY <1>0, <1>s, <1>i, <1>x DEF Tasks!FreedIsUnreachable, SlotsNameTasks
<1> QED BY <1>1, <1>2, <1>3, <1>4, <1>5, <1>6, <1>7, <1>8 DEF TasksInv

\* At boot the slots name the three tasks and the runtime's is in the CPU.
LEMMA TasksStart ==
    ASSUME WifiCell, Tasks!Init PROVE TasksInv
<1> USE TaskNames
<1>a. /\ Tasks!BootIndex[main] = 0 /\ Tasks!BootIndex[idle] = 1 /\ Tasks!BootIndex[tmr] = 2
      /\ {0, 1, 2} \subseteq Tasks!Index /\ Tasks!Boot = {main, idle, tmr}
      /\ main # idle /\ main # tmr /\ idle # tmr /\ DaemonPriority \in Nat \ {0}
  BY TaskConstants DEF Tasks!BootIndex, Tasks!Boot, Tasks!Index
<1>b. /\ k_alive = {main, idle, tmr} /\ k_waiting = {} /\ k_sleeping = {} /\ k_freed = {}
      /\ k_current = main /\ k_loaded = main /\ k_pend = FALSE
  BY <1>a DEF Tasks!Init, Tasks!MainPriority
<1>c. /\ k_index \in [Tasks!Task -> Tasks!Index \cup {Nobody}]
      /\ k_index[main] = 0 /\ k_index[idle] = 1 /\ k_index[tmr] = 2
      /\ \A t \in Radio : k_index[t] = Nobody
  BY <1>a DEF Tasks!Init
<1>d. /\ k_slots \in [Tasks!Index -> Tasks!Task \cup {Nobody}]
      /\ k_slots[0] = main /\ k_slots[1] = idle /\ k_slots[2] = tmr
      /\ \A i \in Tasks!Index \ {0, 1, 2} : k_slots[i] = Nobody
  <2>1. k_slots = [i \in Tasks!Index |-> CASE i = 0 -> main [] i = 1 -> idle [] i = 2 -> tmr [] OTHER -> Nobody]
    BY <1>a DEF Tasks!Init, Tasks!Stacked, WifiCell
  <2> QED BY <2>1, <1>a
<1>e. /\ k_prio \in [Tasks!Task -> Nat]
      /\ k_prio[main] = DaemonPriority + 1
      /\ \A u \in Tasks!Task \ {main} : k_prio[u] < DaemonPriority + 1
  <2>1. k_prio = [t \in Tasks!Task |-> CASE t = main -> DaemonPriority + 1 [] t = tmr -> DaemonPriority [] OTHER -> 0]
    BY DEF Tasks!Init, Tasks!MainPriority
  <2> QED BY <2>1, <1>a
<1>f. /\ k_context \in [Tasks!Task -> Tasks!Task \cup {Nobody}]
      /\ \A t \in Tasks!Task \ {main} : k_context[t] = t
      /\ k_pc = [t \in Tasks!Task |-> "run"] /\ k_victim = [t \in Tasks!Task |-> Nobody]
  BY DEF Tasks!Init
<1>1. TaskTypes
  BY <1>b, <1>c, <1>d, <1>e, <1>f, <1>a DEF TaskTypes
<1>2. SlotsNameTasks
  BY <1>a, <1>b, <1>c, <1>d DEF SlotsNameTasks
<1>3. DeletionIsWhole
  BY <1>f DEF DeletionIsWhole
<1>4. Tasks!MostUrgentRuns
  BY <1>a, <1>b, <1>e DEF Tasks!MostUrgentRuns, Tasks!Top, Tasks!Ready, Tasks!Outranks
<1>5. Tasks!ContextIntact /\ Tasks!FreedIsUnreachable /\ Tasks!CurrentIsLoaded
  BY <1>a, <1>b, <1>f
  DEF Tasks!ContextIntact, Tasks!FreedIsUnreachable, Tasks!CurrentIsLoaded
<1> QED BY <1>1, <1>2, <1>3, <1>4, <1>5, <1>e DEF TasksInv, MainOnTop

\* Every step keeps the invariant.
LEMMA TasksNext ==
    ASSUME WifiCell, TasksInv, Tasks!Next \/ UNCHANGED tasks
    PROVE  TasksInv'
<1>1. ASSUME NEW t \in Tasks!Task, Tasks!TaskStep(t) PROVE TasksInv'
  <2>1. CASE \E n \in Radio, p \in Asked : Tasks!TaskCreate(t, n, p) \/ Tasks!SetTaskPriority(t, n, p)
    BY <2>1, TasksTaskCreate, TasksSetTaskPriority
  <2>2. CASE \E v \in Radio : Tasks!DeleteOther(t, v)
    BY <2>2, TasksDeleteOther
  <2>3. CASE Tasks!ClearSlot(t) \/ Tasks!DeleteSelf(t) \/ Tasks!Usleep(t) \/ Tasks!Give(t)
    BY <2>3, TasksClearSlot, TasksDeleteSelf, TasksUsleep, TasksGive
  <2>4. CASE \E at \in {"run", "slept"} : Tasks!YieldTask(t, at)
    BY <2>4, TasksYieldTask
  <2>5. CASE \E at \in {"run", "taking"} : Tasks!Take(t, at)
    BY <2>5, TasksTake
  <2> QED BY <1>1, <2>1, <2>2, <2>3, <2>4, <2>5 DEF Tasks!TaskStep
<1>2. CASE Tasks!GiveFromIsr
  BY <1>2, TasksGiveFromIsr
<1>3. CASE Tasks!OnTick
  BY <1>3, TasksOnTick
<1>4. CASE Tasks!SwitchingInterrupt
  BY <1>4, TasksSwitchingInterrupt
<1>5. CASE UNCHANGED tasks
  BY <1>5
  DEF tasks, TasksInv, TaskTypes, MainOnTop, SlotsNameTasks, DeletionIsWhole,
      Tasks!CurrentIsLoaded, Tasks!MostUrgentRuns, Tasks!ContextIntact,
      Tasks!FreedIsUnreachable, Tasks!Top, Tasks!Ready, Tasks!Outranks
<1> QED BY <1>1, <1>2, <1>3, <1>4, <1>5 DEF Tasks!Next

\* The tasks' invariant holds at every step of the boards.
LEMMA TasksAlways == WifiCell /\ BoardsSpec => []TasksInv
<1> SUFFICES ASSUME WifiCell PROVE BoardsSpec => []TasksInv
  OBVIOUS
<1>1. BoardsInit => TasksInv
  BY TasksStart DEF BoardsInit
<1>2. TasksInv /\ [BoardsNext]_all => TasksInv'
  BY TasksMove, TasksNext
<1> QED BY <1>1, <1>2, PTL DEF BoardsSpec

\* xiao-s3-wifi, for every set of the driver's tasks, every arena and every
\* priority asked for, as long as only the runtime's task deletes others: the
\* kernel's current task is the one whose registers are in the CPU.
THEOREM CurrentTaskIsInTheCpu == WifiCell /\ BoardsSpec => []CurrentIsLoaded
<1>1. TasksInv => CurrentIsLoaded
  BY DEF TasksInv, CurrentIsLoaded
<1> QED BY <1>1, TasksAlways, PTL

\* There a live task is found in the slot table through its index, whatever was
\* deleted and created since, also while a deletion is half done.
THEOREM SlotsFollowTheTasks == WifiCell /\ BoardsSpec => []LiveTaskHasItsSlot
<1>1. TasksInv => LiveTaskHasItsSlot
  BY DEF TasksInv, SlotsNameTasks, LiveTaskHasItsSlot, Tasks!LiveTaskHasItsSlot
<1> QED BY <1>1, TasksAlways, PTL

\* There a task that is switched out has its own registers in its slot, and no slot
\* and no CPU uses a stack that was given back.
THEOREM StacksAreKept == WifiCell /\ BoardsSpec => []StacksKept
<1>1. TasksInv => StacksKept
  BY DEF TasksInv, StacksKept
<1> QED BY <1>1, TasksAlways, PTL

\* Whom to run is decided by the kernel's own books, whoever deletes: they are
\* right also where the slot table is not.
RankTypes ==
    /\ k_waiting \subseteq k_alive /\ k_sleeping \subseteq k_alive
    /\ k_freed \subseteq Radio \ k_alive
    /\ k_prio \in [Tasks!Task -> Nat] /\ k_index \in [Tasks!Task -> Tasks!Index \cup {Nobody}]
    /\ k_pc \in [Tasks!Task -> {"run", "taking", "slept", "clearing", "gone"}]
    /\ k_victim \in [Tasks!Task -> Radio \cup {Nobody}]
    /\ k_alive \subseteq Tasks!Task /\ \A u \in k_alive : k_index[u] # Nobody

\* A victim keeps its name until its slot is cleared, and has one deleter: no
\* task that is created gets it before.
VictimsWait ==
    \A t \in Tasks!Task : k_pc[t] = "clearing" =>
        /\ k_victim[t] \in Radio \ (k_alive \cup k_freed)
        /\ k_index[k_victim[t]] # Nobody
        /\ \A u \in Tasks!Task : k_pc[u] = "clearing" /\ k_victim[u] = k_victim[t] => u = t

\* Who runs when nothing is pended is ready, and nothing ready is above it.
CurrentIsUrgent ==
    ~k_pend => /\ k_current \in k_alive \ (k_waiting \cup k_sleeping)
               /\ \A u \in k_alive \ (k_waiting \cup k_sleeping) : ~(k_prio[u] > k_prio[k_current])

RankInv == RankTypes /\ VictimsWait /\ CurrentIsUrgent

\* At boot the runtime's task is current, and it is above the daemon.
LEMMA RankStarts ==
    ASSUME Tasks!Init PROVE RankInv
<1> USE TaskNames, TaskConstants
<1>1. /\ k_alive = {main, idle, tmr} /\ k_waiting = {} /\ k_sleeping = {} /\ k_freed = {}
      /\ k_pc = [t \in Tasks!Task |-> "run"] /\ k_victim = [t \in Tasks!Task |-> Nobody]
  BY DEF Tasks!Init, Tasks!Boot
<1>2. k_prio = [t \in Tasks!Task |-> CASE t = main -> DaemonPriority + 1
                                     [] t = tmr -> DaemonPriority [] OTHER -> 0]
  BY DEF Tasks!Init, Tasks!MainPriority
<1>3. k_current = main
  BY DEF Tasks!Init, Tasks!MainPriority
<1>4. k_index = [t \in Tasks!Task |-> IF t \in Tasks!Boot THEN Tasks!BootIndex[t] ELSE Nobody]
  BY DEF Tasks!Init
<1>5. \A t \in Tasks!Boot : Tasks!BootIndex[t] \in Tasks!Index
  BY DEF Tasks!BootIndex, Tasks!Boot, Tasks!Index
<1>6. RankTypes
  BY <1>1, <1>2, <1>4, <1>5 DEF RankTypes, Tasks!Boot
<1>7. VictimsWait
  BY <1>1 DEF VictimsWait
<1>8. CurrentIsUrgent
  BY <1>1, <1>2, <1>3 DEF CurrentIsUrgent
<1> QED BY <1>6, <1>7, <1>8 DEF RankInv

\* A new task takes a name that nobody has, and asks for the switch when it is
\* above the current one.
LEMMA RankCreate ==
    ASSUME RankInv, NEW t \in Tasks!Task, NEW n \in Radio, NEW p \in Asked, Tasks!TaskCreate(t, n, p)
    PROVE  RankInv'
<1> USE TaskNames
<1>0. RankTypes /\ VictimsWait /\ CurrentIsUrgent
  BY DEF RankInv
<1>1. Tasks!Clamp(p) \in Nat
  BY TaskConstants DEF Tasks!Clamp
<1>2. /\ n \notin k_alive /\ n \in Tasks!Task
      /\ \A u \in Tasks!Task : k_pc[u] = "clearing" => k_victim[u] # n
  BY <1>0 DEF Tasks!TaskCreate, Tasks!Unmade, RankTypes, VictimsWait
<1>3. RankTypes'
  BY <1>0, <1>1, <1>2 DEF Tasks!TaskCreate, Tasks!FreeIndex, RankTypes
<1>4. VictimsWait'
  BY <1>0, <1>2 DEF Tasks!TaskCreate, VictimsWait, RankTypes
<1>5. CurrentIsUrgent'
  BY <1>0, <1>1, <1>2 DEF Tasks!TaskCreate, Tasks!At, CurrentIsUrgent, RankTypes
<1> QED BY <1>3, <1>4, <1>5 DEF RankInv

\* A deletion takes a task that is not current off the books, before its slot.
LEMMA RankDeletes ==
    ASSUME RankInv, NEW t \in Tasks!Task,
           (\E v \in Radio : Tasks!DeleteOther(t, v)) \/ Tasks!ClearSlot(t) \/ Tasks!DeleteSelf(t)
    PROVE  RankInv'
<1> USE TaskNames
<1>0. RankTypes /\ VictimsWait /\ CurrentIsUrgent
  BY DEF RankInv
<1>1. CASE \E v \in Radio : Tasks!DeleteOther(t, v)
  <2>1. PICK v \in Radio : Tasks!DeleteOther(t, v)
    BY <1>1
  <2>2. RankTypes'
    BY <1>0, <2>1
    DEF Tasks!DeleteOther, Tasks!Goto, Tasks!KernelDelete, Tasks!adapter, RankTypes
  <2>3. VictimsWait'
    BY <1>0, <2>1
    DEF Tasks!DeleteOther, Tasks!Goto, Tasks!At, Tasks!KernelDelete, Tasks!adapter,
        RankTypes,
        VictimsWait
  <2>4. CurrentIsUrgent'
    BY <1>0, <2>1
    DEF Tasks!DeleteOther, Tasks!Goto, Tasks!At, Tasks!KernelDelete, CurrentIsUrgent
  <2> QED BY <2>2, <2>3, <2>4 DEF RankInv
<1>2. CASE Tasks!ClearSlot(t)
  <2>1. k_pc[t] = "clearing" /\ k_victim[t] \in Radio \ (k_alive \cup k_freed)
    BY <1>0, <1>2 DEF Tasks!ClearSlot, Tasks!Goto, Tasks!At, VictimsWait
  <2>2. RankTypes'
    BY <1>0, <1>2, <2>1 DEF Tasks!ClearSlot, Tasks!Goto, Tasks!kernel, RankTypes
  <2>3. VictimsWait'
    BY <1>0, <1>2, <2>1
    DEF Tasks!ClearSlot, Tasks!Goto, Tasks!kernel, RankTypes, VictimsWait
  <2>4. CurrentIsUrgent'
    BY <1>0, <1>2 DEF Tasks!ClearSlot, Tasks!kernel, CurrentIsUrgent
  <2> QED BY <2>2, <2>3, <2>4 DEF RankInv
<1>3. CASE Tasks!DeleteSelf(t)
  <2>1. RankTypes'
    BY <1>0, <1>3
    DEF Tasks!DeleteSelf, Tasks!Goto, Tasks!KernelDelete, Tasks!adapter, RankTypes
  <2>2. VictimsWait'
    BY <1>0, <1>3
    DEF Tasks!DeleteSelf, Tasks!Goto, Tasks!KernelDelete, Tasks!adapter, RankTypes,
        VictimsWait
  <2>3. CurrentIsUrgent'
    BY <1>3 DEF Tasks!DeleteSelf, CurrentIsUrgent
  <2> QED BY <2>1, <2>2, <2>3 DEF RankInv
<1> QED BY <1>1, <1>2, <1>3

\* A wake leaves the current task the most urgent, or asks for the switch.
LEMMA RankWake ==
    ASSUME RankTypes, CurrentIsUrgent, Tasks!Wake,
           UNCHANGED <<k_alive, k_prio, k_sleeping, k_current>>
    PROVE  CurrentIsUrgent' /\ k_waiting' \subseteq k_alive
<1>1. CASE k_waiting' = k_waiting /\ k_pend' = k_pend
  BY <1>1 DEF CurrentIsUrgent, RankTypes
<1>2. ASSUME NEW w \in k_waiting, k_waiting' = k_waiting \ {w},
             k_pend' = (k_pend \/ k_prio[w] > k_prio[k_current])
      PROVE  CurrentIsUrgent' /\ k_waiting' \subseteq k_alive
  BY <1>2 DEF CurrentIsUrgent, RankTypes
<1> QED BY <1>1, <1>2, WakeReadiesOne

\* The other calls of a task delete nobody; the parked caller, the new order and
\* the woken task ask for the switch.
LEMMA RankCalls ==
    ASSUME RankInv, NEW t \in Tasks!Task,
           \/ \E v \in Radio, p \in Asked : Tasks!SetTaskPriority(t, v, p)
           \/ Tasks!Usleep(t) \/ Tasks!Give(t)
           \/ \E at \in {"run", "slept"} : Tasks!YieldTask(t, at)
           \/ \E at \in {"run", "taking"} : Tasks!Take(t, at)
    PROVE  RankInv'
<1> USE TaskNames
<1>0. RankTypes /\ VictimsWait /\ CurrentIsUrgent
  BY DEF RankInv
<1>1. CASE \E v \in Radio, p \in Asked : Tasks!SetTaskPriority(t, v, p)
  <2>1. PICK v \in Radio, p \in Asked : Tasks!SetTaskPriority(t, v, p)
    BY <1>1
  <2>2. Tasks!Clamp(p) \in Nat
    BY TaskConstants DEF Tasks!Clamp
  <2>3. RankTypes'
    BY <1>0, <2>1, <2>2 DEF Tasks!SetTaskPriority, Tasks!Goto, Tasks!adapter, RankTypes
  <2>4. VictimsWait'
    BY <1>0, <2>1
    DEF Tasks!SetTaskPriority, Tasks!Goto, Tasks!adapter, RankTypes, VictimsWait
  <2>5. CurrentIsUrgent'
    BY <1>0, <2>1
    DEF Tasks!SetTaskPriority, Tasks!Goto, Tasks!At, Tasks!Ready, CurrentIsUrgent
  <2> QED BY <2>3, <2>4, <2>5 DEF RankInv
<1>2. CASE Tasks!Usleep(t)
  <2>1. k_current \in k_alive
    BY <1>0, <1>2 DEF Tasks!Usleep, Tasks!Goto, Tasks!At, CurrentIsUrgent
  <2>2. RankTypes'
    BY <1>0, <1>2, <2>1 DEF Tasks!Usleep, Tasks!Goto, Tasks!adapter, RankTypes
  <2>3. VictimsWait'
    BY <1>0, <1>2 DEF Tasks!Usleep, Tasks!Goto, Tasks!adapter, RankTypes, VictimsWait
  <2>4. CurrentIsUrgent'
    BY <1>2 DEF Tasks!Usleep, CurrentIsUrgent
  <2> QED BY <2>2, <2>3, <2>4 DEF RankInv
<1>3. CASE Tasks!Give(t)
  <2>1. RankTypes'
    BY <1>0, <1>3, RankWake DEF Tasks!Give, Tasks!Goto, Tasks!adapter, RankTypes
  <2>2. VictimsWait'
    BY <1>0, <1>3 DEF Tasks!Give, Tasks!Goto, Tasks!adapter, RankTypes, VictimsWait
  <2>3. CurrentIsUrgent'
    BY <1>0, <1>3, RankWake DEF Tasks!Give
  <2> QED BY <2>1, <2>2, <2>3 DEF RankInv
<1>4. CASE \E at \in {"run", "slept"} : Tasks!YieldTask(t, at)
  <2>1. RankTypes'
    BY <1>0, <1>4 DEF Tasks!YieldTask, Tasks!Goto, Tasks!kernel, Tasks!adapter, RankTypes
  <2>2. VictimsWait'
    BY <1>0, <1>4
    DEF Tasks!YieldTask, Tasks!Goto, Tasks!kernel, Tasks!adapter, RankTypes, VictimsWait
  <2>3. CurrentIsUrgent'
    BY <1>4 DEF Tasks!YieldTask, CurrentIsUrgent
  <2> QED BY <2>1, <2>2, <2>3 DEF RankInv
<1>5. CASE \E at \in {"run", "taking"} : Tasks!Take(t, at)
  <2>1. PICK at \in {"run", "taking"} : Tasks!Take(t, at)
    BY <1>5
  <2>2. /\ UNCHANGED <<k_alive, k_index, k_prio, k_sleeping, k_current, k_slots, k_context, k_freed,
                        k_victim>>
        /\ ~k_pend /\ k_waiting' \subseteq k_waiting \cup {k_current}
        /\ k_pend' \/ (k_waiting' = k_waiting /\ ~k_pend')
        /\ \E to \in {"run", "taking"} : k_pc' = [k_pc EXCEPT ![t] = to]
    BY <2>1
    DEF Tasks!Take, Tasks!TakeCompletes, Tasks!TakeFails, Tasks!TakeBlocks, Tasks!Goto,
        Tasks!At,
        Tasks!adapter
  <2>3. k_current \in k_alive
    BY <1>0, <2>2 DEF CurrentIsUrgent
  <2>4. RankTypes'
    BY <1>0, <2>2, <2>3 DEF RankTypes
  <2>5. VictimsWait'
    BY <1>0, <2>2 DEF RankTypes, VictimsWait
  <2>6. CurrentIsUrgent'
    BY <1>0, <2>2 DEF CurrentIsUrgent
  <2> QED BY <2>4, <2>5, <2>6 DEF RankInv
<1> QED BY <1>1, <1>2, <1>3, <1>4, <1>5

\* An interrupt readies a task and asks for the switch when it outranks the
\* current one; the switching interrupt takes the most urgent.
LEMMA RankInterrupts ==
    ASSUME RankInv, Tasks!GiveFromIsr \/ Tasks!OnTick \/ Tasks!SwitchingInterrupt
    PROVE  RankInv'
<1> USE TaskNames
<1>0. RankTypes /\ VictimsWait /\ CurrentIsUrgent
  BY DEF RankInv
<1>1. VictimsWait'
  BY <1>0
  DEF Tasks!GiveFromIsr, Tasks!OnTick, Tasks!SwitchingInterrupt, Tasks!adapter,
      Tasks!frames,
      VictimsWait
<1>2. CASE Tasks!GiveFromIsr
  <2>1. RankTypes'
    BY <1>0, <1>2, RankWake DEF Tasks!GiveFromIsr, Tasks!adapter, Tasks!frames, RankTypes
  <2>2. CurrentIsUrgent'
    BY <1>0, <1>2, RankWake DEF Tasks!GiveFromIsr
  <2> QED BY <1>1, <2>1, <2>2 DEF RankInv
<1>3. CASE Tasks!OnTick
  <2>1. RankTypes'
    BY <1>0, <1>3 DEF Tasks!OnTick, Tasks!adapter, Tasks!frames, RankTypes
  <2>2. PICK v \in k_waiting \cup k_sleeping, slice \in BOOLEAN :
          /\ k_waiting' = k_waiting \ {v} /\ k_sleeping' = k_sleeping \ {v}
          /\ k_pend' = (k_pend \/ slice \/ k_prio[v] > k_prio[k_current])
    BY <1>3 DEF Tasks!OnTick, Tasks!TickWants, Tasks!Outranks
  <2>3. UNCHANGED <<k_alive, k_prio, k_current>>
    BY <1>3 DEF Tasks!OnTick
  <2>4. CurrentIsUrgent'
    BY <1>0, <2>2, <2>3 DEF CurrentIsUrgent
  <2> QED BY <1>1, <2>1, <2>4 DEF RankInv
<1>4. CASE Tasks!SwitchingInterrupt
  <2>1. RankTypes'
    BY <1>0, <1>4 DEF Tasks!SwitchingInterrupt, Tasks!frames, RankTypes
  <2>2. CurrentIsUrgent'
    BY <1>4
    DEF Tasks!SwitchingInterrupt, Tasks!Top, Tasks!Ready, Tasks!Outranks, CurrentIsUrgent
  <2> QED BY <1>1, <2>1, <2>2 DEF RankInv
<1> QED BY <1>2, <1>3, <1>4

\* Nothing more urgent is ready than the task that runs, unless the switch is
\* pended: every path of the port that readies a task asks for it, whoever
\* deletes whom.
THEOREM TheMostUrgentRuns == BoardsSpec => []MostUrgentRuns
<1>1. BoardsInit => RankInv
  BY RankStarts DEF BoardsInit
<1>2. RankInv /\ [BoardsNext]_all => RankInv'
  <2> SUFFICES ASSUME RankInv, [BoardsNext]_all PROVE RankInv'
    OBVIOUS
  <2>1. CASE UNCHANGED tasks
    BY <2>1 DEF tasks, RankInv, RankTypes, VictimsWait, CurrentIsUrgent
  <2>2. CASE Tasks!Next
    BY <2>2, RankCreate, RankDeletes, RankCalls, RankInterrupts
    DEF Tasks!Next, Tasks!TaskStep
  <2> QED BY <2>1, <2>2, TasksMove
<1>3. RankInv => MostUrgentRuns
  BY DEF RankInv, CurrentIsUrgent, MostUrgentRuns, Tasks!MostUrgentRuns, Tasks!Top,
     Tasks!Ready,
         Tasks!Outranks
<1> QED BY <1>1, <1>2, <1>3, PTL DEF BoardsSpec
-----------------------------------------------------------------------------
(* CortexSwitch.                                                           *)

\* A step of the boards is a step of the Cortex-M cell, or leaves it alone.
LEMMA CortexMoves ==
    ASSUME [BoardsNext]_all PROVE Cortex!Next \/ UNCHANGED cortex
BY DEF BoardsNext, all, Ended

\* The lines of each task's body.
LinesOf(t) ==
    IF t = "tmr" THEN {"delay", "pend"} ELSE IF t = "idle" THEN {"spin"} ELSE {"take", "pend", "give", "look"}

\* The variables and what they may hold; every task's stack has its own slot.
CortexTypes ==
    /\ c_primask \in BOOLEAN /\ c_saved \in BOOLEAN /\ c_pend \in BOOLEAN
    /\ c_at \in Cortex!Registers
    /\ c_slot = c_current /\ c_sp = [t \in Cortex!Tasks |-> t]
    /\ c_frame \in [Cortex!Tasks -> Cortex!Registers]
    /\ c_current \in Cortex!Tasks /\ c_ready \in SUBSET Cortex!Tasks
    /\ c_waiting \in [Cortex!Tasks -> Cortex!Semaphores \cup {"delay", "none"}]
    /\ c_sema \in [Cortex!Semaphores -> 0..1]

\* How deep in a kernel call the code is says what is masked, by whom.
PhaseMasks ==
    /\ c_at.phase = "out" => ~c_primask /\ c_nesting = 0
    /\ c_at.phase # "out" => c_primask /\ ~c_at.was
    /\ c_at.phase \in {"masked", "closing"} => c_nesting = 0
    /\ c_at.phase = "critical" => c_nesting = 1 /\ c_saved

\* The code that runs is the current task's, on its own stack; the frames of the
\* others are theirs, outside every call.  Idle never makes one.
FramesAreTheirs ==
    /\ c_at.task # "main" => c_at.task = c_psp /\ c_psp = c_current /\ c_at.line \in LinesOf(c_at.task)
    /\ \A t \in Cortex!Tasks :
         c_frame[t].task = t /\ c_frame[t].phase = "out" /\ c_frame[t].line \in LinesOf(t)
    /\ "idle" \in c_ready /\ (c_at.task = "idle" => c_at.phase = "out")

\* Until the first task starts nothing is asked for and nobody waits.
BootIsQuiet ==
    c_at.task = "main" =>
        /\ c_at.phase = "out" /\ ~c_pend /\ c_ready = Cortex!Tasks
        /\ \A t \in Cortex!Tasks : c_waiting[t] = "none"

\* The current task is the most urgent that is ready, unless the switch is pended.
CurrentIsTop ==
    ~c_pend => c_current \in c_ready /\ \A u \in c_ready : ~(Cortex!Prio[u] > Cortex!Prio[c_current])

CortexInv == CortexTypes /\ PhaseMasks /\ FramesAreTheirs /\ BootIsQuiet /\ CurrentIsTop

\* The priorities are four numbers, all different.
LEMMA Prios ==
    /\ \A t \in Cortex!Tasks : Cortex!Prio[t] \in 0..3
    /\ \A t, u \in Cortex!Tasks : Cortex!Prio[t] = Cortex!Prio[u] => t = u
    /\ Cortex!Tasks = {"tmr", "hi", "lo", "idle"}
    /\ Cortex!Prio["tmr"] = 3 /\ Cortex!Prio["hi"] = 2 /\ Cortex!Prio["lo"] = 1 /\ Cortex!Prio["idle"] = 0
BY DEF Cortex!Tasks, Cortex!Prio

\* Top picks the one that none outranks.
LEMMA TopIsTop ==
    ASSUME NEW S \in SUBSET Cortex!Tasks, S # {}
    PROVE  Cortex!Top(S) \in S /\ \A u \in S : ~(Cortex!Prio[u] > Cortex!Prio[Cortex!Top(S)])
<1>1. \E t \in S : \A u \in S : Cortex!Prio[u] <= Cortex!Prio[t]
  <2>1. CASE "tmr" \in S
    BY <2>1, Prios
  <2>2. CASE "tmr" \notin S /\ "hi" \in S
    BY <2>2, Prios
  <2>3. CASE "tmr" \notin S /\ "hi" \notin S /\ "lo" \in S
    BY <2>3, Prios
  <2>4. CASE S = {"idle"}
    BY <2>4, Prios
  <2>5. "tmr" \in S \/ "hi" \in S \/ "lo" \in S \/ S = {"idle"}
    <3>1. \A u \in S : u \in {"tmr", "hi", "lo", "idle"}
      BY Prios
    <3> QED BY <3>1
  <2> QED BY <2>1, <2>2, <2>3, <2>4, <2>5
<1>2. Cortex!Top(S) \in S /\ \A u \in S : Cortex!Prio[u] <= Cortex!Prio[Cortex!Top(S)]
  BY <1>1 DEF Cortex!Top
<1>3. ASSUME NEW u \in S PROVE ~(Cortex!Prio[u] > Cortex!Prio[Cortex!Top(S)])
  <2>1. Cortex!Prio[u] \in 0..3 /\ Cortex!Prio[Cortex!Top(S)] \in 0..3
    BY <1>2, Prios
  <2> QED BY <1>2, <2>1
<1> QED BY <1>2, <1>3

\* And is the only one of which that is true.
LEMMA TopIsUnique ==
    ASSUME NEW S \in SUBSET Cortex!Tasks, NEW t \in S, \A u \in S : ~(Cortex!Prio[u] > Cortex!Prio[t])
    PROVE  Cortex!Top(S) = t
<1>1. Cortex!Top(S) \in S /\ ~(Cortex!Prio[t] > Cortex!Prio[Cortex!Top(S)])
  BY TopIsTop
<1>2. ~(Cortex!Prio[Cortex!Top(S)] > Cortex!Prio[t])
  BY <1>1
<1>3. Cortex!Prio[t] \in 0..3 /\ Cortex!Prio[Cortex!Top(S)] \in 0..3
  BY <1>1, Prios
<1>4. Cortex!Prio[t] = Cortex!Prio[Cortex!Top(S)]
  BY <1>1, <1>2, <1>3
<1> QED BY <1>1, <1>4, Prios

\* main's state at the boot.
LEMMA CortexStarts == ASSUME Cortex!Init PROVE CortexInv
<1>1. Cortex!Top(Cortex!Tasks) = "tmr"
  BY Prios, TopIsUnique
<1>2. /\ c_current = "tmr" /\ c_slot = "tmr" /\ c_ready = Cortex!Tasks /\ ~c_pend /\ c_primask = FALSE
      /\ c_saved = FALSE /\ c_pend = FALSE
      /\ c_at = [task |-> "main", line |-> "boot", phase |-> "out", was |-> FALSE] /\ c_nesting = 0
      /\ c_sp = [t \in Cortex!Tasks |-> t] /\ c_sema = [x \in Cortex!Semaphores |-> 0]
      /\ c_waiting = [t \in Cortex!Tasks |-> "none"] /\ c_frame = [t \in Cortex!Tasks |-> Cortex!Fresh(t)]
  BY <1>1 DEF Cortex!Init, Cortex!Armed, Cortex!None
<1>3. \A t \in Cortex!Tasks :
        /\ Cortex!Fresh(t) \in Cortex!Registers /\ Cortex!Fresh(t).task = t
        /\ Cortex!Fresh(t).phase = "out" /\ Cortex!Fresh(t).line \in LinesOf(t)
  BY DEF Cortex!Fresh, Cortex!Entry, Cortex!Registers, Cortex!Tasks, Cortex!Lines,
     Cortex!Phases, LinesOf
<1>4. CortexTypes
  <2>1. c_at \in Cortex!Registers
    BY <1>2 DEF Cortex!Registers, Cortex!Phases
  <2>2. /\ c_frame \in [Cortex!Tasks -> Cortex!Registers]
        /\ c_waiting \in [Cortex!Tasks -> Cortex!Semaphores \cup {"delay", "none"}]
        /\ c_sema \in [Cortex!Semaphores -> 0..1]
    BY <1>2, <1>3
  <2> QED BY <1>2, <2>1, <2>2, Prios DEF CortexTypes
<1>5. FramesAreTheirs
  BY <1>2, <1>3, Prios DEF FramesAreTheirs
<1>6. PhaseMasks /\ BootIsQuiet
  BY <1>2 DEF PhaseMasks, BootIsQuiet
<1>7. CurrentIsTop
  BY <1>2, Prios DEF CurrentIsTop
<1> QED BY <1>4, <1>5, <1>6, <1>7 DEF CortexInv

\* A line is followed by one of the same task.
LEMMA AfterIsALine ==
    ASSUME NEW t \in Cortex!Tasks, NEW l \in LinesOf(t)
    PROVE  Cortex!After(t, l) \in LinesOf(t) /\ Cortex!After(t, l) \in Cortex!Lines
BY DEF Cortex!After, LinesOf, Cortex!Tasks, Cortex!Lines, Cortex!Consumer,
   Cortex!Producer, Cortex!Daemon

\* The phases of a kernel call that change no kernel state.
LEMMA CortexPhases ==
    ASSUME CortexInv, Cortex!WithKernel \/ Cortex!EnterCritical \/ Cortex!ReturnFromKernel
    PROVE  CortexInv'
<1>0. CortexTypes /\ PhaseMasks /\ FramesAreTheirs /\ BootIsQuiet /\ CurrentIsTop
  BY DEF CortexInv
<1>1. /\ UNCHANGED <<c_pend, c_psp, c_slot, c_sp, c_frame, c_current, c_ready, c_waiting, c_sema>>
      /\ c_at.task \in Cortex!Tasks /\ c_at.task # "main"
  BY Prios
  DEF Cortex!WithKernel, Cortex!EnterCritical, Cortex!ReturnFromKernel, Cortex!stacks,
      Cortex!kernel, Cortex!InTask
<1>a. c_at \in [task : Cortex!Tasks \cup {"main"}, line : Cortex!Lines \cup {"boot"},
                phase : {"out", "masked", "critical", "closing"}, was : BOOLEAN]
  BY <1>0 DEF CortexTypes, Cortex!Registers, Cortex!Phases
<1>2. CASE Cortex!WithKernel
  <2>1. /\ c_at.phase = "out" /\ c_at.line \in {"take", "give", "delay", "look"}
        /\ c_at' = [c_at EXCEPT !.phase = "masked", !.was = c_primask]
        /\ c_primask' = TRUE /\ UNCHANGED <<c_nesting, c_saved>>
    BY <1>2 DEF Cortex!WithKernel, Cortex!Calls
  <2>2. /\ c_at'.task = c_at.task /\ c_at'.line = c_at.line /\ c_at'.phase = "masked" /\ c_at'.was = c_primask
        /\ c_at' \in Cortex!Registers
    BY <1>a, <2>1, <1>0 DEF Cortex!Registers, Cortex!Phases, CortexTypes
  <2>3. c_at.task # "idle"
    BY <2>1, <1>0, <1>1 DEF FramesAreTheirs, LinesOf
  <2>4. CortexTypes' /\ PhaseMasks'
    BY <1>0, <1>1, <2>1, <2>2 DEF CortexTypes, PhaseMasks
  <2>5. FramesAreTheirs' /\ BootIsQuiet' /\ CurrentIsTop'
    BY <1>0, <1>1, <2>2, <2>3 DEF FramesAreTheirs, BootIsQuiet, CurrentIsTop
  <2> QED BY <2>4, <2>5 DEF CortexInv
<1>3. CASE Cortex!EnterCritical
  <2>1. /\ c_at.phase = "masked" /\ c_nesting = 0 /\ c_nesting' = 1 /\ c_saved' = c_primask /\ c_primask
        /\ c_at' = [c_at EXCEPT !.phase = "critical"] /\ c_primask' = TRUE
    BY <1>0, <1>3 DEF Cortex!EnterCritical, PhaseMasks
  <2>2. /\ c_at'.task = c_at.task /\ c_at'.line = c_at.line /\ c_at'.phase = "critical" /\ c_at'.was = c_at.was
        /\ c_at' \in Cortex!Registers
    BY <1>a, <2>1 DEF Cortex!Registers, Cortex!Phases
  <2>4. CortexTypes' /\ PhaseMasks'
    BY <1>0, <1>1, <2>1, <2>2 DEF CortexTypes, PhaseMasks
  <2>5. FramesAreTheirs' /\ BootIsQuiet' /\ CurrentIsTop'
    BY <1>0, <1>1, <2>1, <2>2 DEF FramesAreTheirs, BootIsQuiet, CurrentIsTop
  <2> QED BY <2>4, <2>5 DEF CortexInv
<1>4. CASE Cortex!ReturnFromKernel
  <2>1. /\ c_at.phase = "closing" /\ ~c_at.was /\ c_primask' = FALSE /\ UNCHANGED <<c_nesting, c_saved>>
        /\ c_at' = [c_at EXCEPT !.phase = "out", !.line = Cortex!After(c_at.task, c_at.line), !.was = FALSE]
    BY <1>0, <1>4 DEF Cortex!ReturnFromKernel, PhaseMasks
  <2>2. /\ Cortex!After(c_at.task, c_at.line) \in LinesOf(c_at.task)
        /\ Cortex!After(c_at.task, c_at.line) \in Cortex!Lines
    BY <1>0, <1>1, AfterIsALine DEF FramesAreTheirs
  <2>3. /\ c_at'.task = c_at.task /\ c_at'.line = Cortex!After(c_at.task, c_at.line)
        /\ c_at'.phase = "out" /\ c_at' \in Cortex!Registers
    BY <1>a, <2>1, <2>2 DEF Cortex!Registers, Cortex!Phases
  <2>4. CortexTypes' /\ PhaseMasks'
    BY <1>0, <1>1, <2>1, <2>3 DEF CortexTypes, PhaseMasks
  <2>5. FramesAreTheirs' /\ BootIsQuiet' /\ CurrentIsTop'
    BY <1>0, <1>1, <2>2, <2>3 DEF FramesAreTheirs, BootIsQuiet, CurrentIsTop
  <2> QED BY <2>4, <2>5 DEF CortexInv
<1> QED BY <1>2, <1>3, <1>4

\* What the kernel's work may change: who is ready, who waits for what, and a
\* request that is made whenever the current task is no longer the top.
KernelMoves ==
    /\ c_ready' \in SUBSET Cortex!Tasks /\ "idle" \in c_ready' /\ c_pend' \in BOOLEAN
    /\ c_waiting' \in [Cortex!Tasks -> Cortex!Semaphores \cup {"delay", "none"}]
    /\ c_sema' \in [Cortex!Semaphores -> 0..1] /\ c_current' = c_current
    /\ CurrentIsTop'

\* The current task is not the idle one when it is put to wait.
LEMMA CortexParks ==
    ASSUME CortexInv, c_current # "idle", NEW why \in Cortex!Semaphores \cup {"delay"}, Cortex!Park(why)
    PROVE  KernelMoves
<1>1. /\ c_ready' = c_ready \ {c_current} /\ c_waiting' = [c_waiting EXCEPT ![c_current] = why]
      /\ c_current' = c_current /\ c_pend' = TRUE /\ c_sema' = c_sema
  BY DEF Cortex!Park, Cortex!Yield, Cortex!AfterYield
<1>2. CortexTypes /\ "idle" \in c_ready
  BY DEF CortexInv, FramesAreTheirs
<1> QED BY <1>1, <1>2 DEF KernelMoves, CortexTypes, CurrentIsTop

\* A take gets the semaphore, or puts the caller to wait.
LEMMA CortexTakes ==
    ASSUME CortexInv, c_current # "idle", NEW x \in Cortex!Semaphores, Cortex!SemaphoreTake(x)
    PROVE  KernelMoves
<1>0. CortexTypes /\ CurrentIsTop /\ "idle" \in c_ready
  BY DEF CortexInv, FramesAreTheirs
<1>1. CASE Cortex!Park(x)
  BY <1>1, CortexParks
<1>2. CASE c_sema' = [c_sema EXCEPT ![x] = 0] /\ UNCHANGED <<c_current, c_ready, c_waiting, c_pend>>
  BY <1>0, <1>2 DEF KernelMoves, CortexTypes, CurrentIsTop
<1> QED BY <1>1, <1>2 DEF Cortex!SemaphoreTake

\* A give readies the most urgent of those that wait, and asks for the switch
\* when it outranks the current task.
LEMMA CortexGives ==
    ASSUME CortexInv, NEW x \in Cortex!Semaphores, Cortex!SemaphoreGive(x)
    PROVE  KernelMoves
<1>0. CortexTypes /\ CurrentIsTop /\ "idle" \in c_ready
  BY DEF CortexInv, FramesAreTheirs
<1> DEFINE ws == {t \in Cortex!Tasks : c_waiting[t] = x}
           w == Cortex!Top(ws)
<1>1. CASE UNCHANGED <<c_current, c_ready, c_waiting, c_pend>> /\ (c_sema' = c_sema \/ c_sema' = [c_sema EXCEPT ![x] = 1])
  BY <1>0, <1>1 DEF KernelMoves, CortexTypes, CurrentIsTop
<1>2. CASE /\ ws # {} /\ c_sema' = [c_sema EXCEPT ![x] = 1]
           /\ c_ready' = c_ready \cup {w} /\ c_waiting' = [c_waiting EXCEPT ![w] = "none"] /\ c_current' = c_current
           /\ IF Cortex!Prio[w] > Cortex!Prio[c_current] THEN c_pend' = TRUE ELSE c_pend' = c_pend
  <2>1. w \in Cortex!Tasks
    BY <1>2, TopIsTop
  <2> HIDE DEF w, ws
  <2>2. CurrentIsTop'
    BY <1>0, <1>2, <2>1 DEF CurrentIsTop
  <2>3. c_pend' \in BOOLEAN
    BY <1>0, <1>2 DEF CortexTypes
  <2>4. c_waiting' \in [Cortex!Tasks -> Cortex!Semaphores \cup {"delay", "none"}]
    BY <1>0, <1>2, <2>1 DEF CortexTypes
  <2>5. c_sema' \in [Cortex!Semaphores -> 0..1]
    BY <1>0, <1>2 DEF CortexTypes
  <2> QED BY <1>0, <1>2, <2>1, <2>2, <2>3, <2>4, <2>5 DEF KernelMoves, CortexTypes
<1> QED
  BY <1>1, <1>2
  DEF Cortex!SemaphoreGive, Cortex!kernel, Cortex!Yield, Cortex!Continue,
      Cortex!AfterYield, Cortex!None

\* The kernel's work and the port's exit.
LEMMA CortexExits == ASSUME CortexInv, Cortex!ExitCritical PROVE CortexInv'
<1>0. CortexTypes /\ PhaseMasks /\ FramesAreTheirs /\ BootIsQuiet /\ CurrentIsTop
  BY DEF CortexInv
<1>1. /\ c_at.task \in Cortex!Tasks /\ c_at.task # "main" /\ c_at.task # "idle" /\ c_at.task = c_current
      /\ c_at.phase = "critical" /\ c_at' = [c_at EXCEPT !.phase = "closing"]
      /\ UNCHANGED <<c_saved, c_psp, c_slot, c_sp, c_frame>>
      /\ c_nesting' = 0 /\ c_primask' = TRUE /\ ~c_at.was
  BY <1>0, Prios
  DEF Cortex!ExitCritical, Cortex!InTask, Cortex!stacks, PhaseMasks, FramesAreTheirs,
      Cortex!Unmask
<1>2. /\ c_at'.task = c_at.task /\ c_at'.line = c_at.line /\ c_at'.phase = "closing" /\ ~c_at'.was
      /\ c_at' \in Cortex!Registers
  BY <1>0, <1>1 DEF CortexTypes, Cortex!Registers, Cortex!Phases
<1>3. KernelMoves
  <2>1. CASE c_at.line = "take"
    <3>1. Cortex!SemaphoreOf(c_at.task, "take") \in Cortex!Semaphores
      BY DEF Cortex!SemaphoreOf, Cortex!Semaphores
    <3> QED BY <1>1, <2>1, <3>1, CortexTakes DEF Cortex!ExitCritical, Cortex!KernelCall
  <2>2. CASE c_at.line = "give"
    <3>1. Cortex!SemaphoreOf(c_at.task, "give") \in Cortex!Semaphores
      BY DEF Cortex!SemaphoreOf, Cortex!Semaphores
    <3> QED BY <2>2, <3>1, CortexGives DEF Cortex!ExitCritical, Cortex!KernelCall
  <2>3. CASE c_at.line = "delay"
    BY <1>1, <2>3, CortexParks DEF Cortex!ExitCritical, Cortex!KernelCall
  <2>4. CASE c_at.line \notin {"take", "give", "delay"}
    <3>1. UNCHANGED <<c_current, c_ready, c_waiting, c_sema, c_pend>>
      BY <2>4 DEF Cortex!ExitCritical, Cortex!KernelCall, Cortex!kernel
    <3> QED BY <1>0, <3>1 DEF KernelMoves, CortexTypes, FramesAreTheirs, CurrentIsTop
  <2> QED BY <2>1, <2>2, <2>3, <2>4
<1>4. CortexTypes'
  BY <1>0, <1>1, <1>2, <1>3 DEF CortexTypes, KernelMoves
<1>5. PhaseMasks' /\ BootIsQuiet'
  BY <1>1, <1>2 DEF PhaseMasks, BootIsQuiet
<1>6. FramesAreTheirs'
  BY <1>0, <1>1, <1>2, <1>3 DEF FramesAreTheirs, KernelMoves
<1> QED BY <1>3, <1>4, <1>5, <1>6 DEF CortexInv, KernelMoves

\* A request made by hand after a call.
LEMMA CortexPends == ASSUME CortexInv, Cortex!PendSwitch PROVE CortexInv'
<1>0. CortexTypes /\ PhaseMasks /\ FramesAreTheirs /\ BootIsQuiet /\ CurrentIsTop
  BY DEF CortexInv
<1>1. /\ c_at.task \in Cortex!Tasks /\ c_at.task # "main" /\ c_at.phase = "out" /\ c_pend' = TRUE
      /\ c_at' = [c_at EXCEPT !.line = Cortex!After(c_at.task, c_at.line)]
      /\ UNCHANGED <<c_primask, c_nesting, c_saved, c_psp, c_slot, c_sp, c_frame, c_current, c_ready, c_waiting, c_sema>>
  BY Prios DEF Cortex!PendSwitch, Cortex!InTask, Cortex!port, Cortex!stacks, Cortex!kernel
<1>2. /\ Cortex!After(c_at.task, c_at.line) \in LinesOf(c_at.task)
      /\ Cortex!After(c_at.task, c_at.line) \in Cortex!Lines
  BY <1>0, <1>1, AfterIsALine DEF FramesAreTheirs
<1>3. /\ c_at'.task = c_at.task /\ c_at'.line = Cortex!After(c_at.task, c_at.line)
      /\ c_at'.phase = "out" /\ c_at' \in Cortex!Registers
  BY <1>0, <1>1, <1>2 DEF Cortex!Registers, CortexTypes
<1>4. CortexTypes' /\ PhaseMasks'
  BY <1>0, <1>1, <1>3 DEF CortexTypes, PhaseMasks
<1>5. FramesAreTheirs' /\ BootIsQuiet' /\ CurrentIsTop'
  BY <1>0, <1>1, <1>2, <1>3 DEF FramesAreTheirs, BootIsQuiet, CurrentIsTop
<1> QED BY <1>4, <1>5 DEF CortexInv

\* The tick asks for the switch when one whose wait ends outranks the current task.
LEMMA CortexTicks == ASSUME CortexInv, Cortex!SysTick PROVE CortexInv'
<1>0. CortexTypes /\ PhaseMasks /\ FramesAreTheirs /\ BootIsQuiet /\ CurrentIsTop
  BY DEF CortexInv
<1>1. PICK due \in SUBSET {t \in Cortex!Tasks : c_waiting[t] # "none"} :
        /\ c_ready' = c_ready \cup due
        /\ c_waiting' = [t \in Cortex!Tasks |-> IF t \in due THEN "none" ELSE c_waiting[t]]
        /\ c_pend' = (c_pend \/ \E t \in due : Cortex!Prio[t] > Cortex!Prio[c_current])
  BY DEF Cortex!SysTick, Cortex!TickPends, Cortex!None
<1>2. UNCHANGED <<c_primask, c_nesting, c_saved, c_at, c_psp, c_slot, c_sp, c_frame, c_current, c_sema>>
  BY DEF Cortex!SysTick, Cortex!port, Cortex!stacks
<1>3. CortexTypes' /\ PhaseMasks' /\ FramesAreTheirs'
  <2>1. c_pend' \in BOOLEAN
    BY <1>0, <1>1 DEF CortexTypes
  <2>2. c_ready' \in SUBSET Cortex!Tasks /\ "idle" \in c_ready'
    BY <1>0, <1>1 DEF CortexTypes, FramesAreTheirs
  <2>3. c_waiting' \in [Cortex!Tasks -> Cortex!Semaphores \cup {"delay", "none"}]
    BY <1>0, <1>1 DEF CortexTypes
  <2> QED BY <1>0, <1>2, <2>1, <2>2, <2>3 DEF CortexTypes, PhaseMasks, FramesAreTheirs
<1>4. BootIsQuiet'
  <2> SUFFICES ASSUME c_at.task = "main" PROVE BootIsQuiet'
    BY <1>2 DEF BootIsQuiet
  <2>1. due = {}
    BY <1>0 DEF BootIsQuiet
  <2> QED BY <1>0, <1>1, <1>2, <2>1 DEF BootIsQuiet
<1>5. CurrentIsTop'
  BY <1>0, <1>1, <1>2 DEF CurrentIsTop
<1> QED BY <1>3, <1>4, <1>5 DEF CortexInv

\* PendSV saves all of the outgoing task in its own frame, and what it restores
\* is all of the one it chose.
LEMMA CortexSwitches == ASSUME CortexInv, Cortex!PendSV PROVE CortexInv'
<1>0. CortexTypes /\ PhaseMasks /\ FramesAreTheirs /\ BootIsQuiet /\ CurrentIsTop
  BY DEF CortexInv
<1>1. /\ c_pend /\ ~c_primask /\ c_pend' = FALSE
      /\ UNCHANGED <<c_primask, c_nesting, c_saved, c_ready, c_waiting, c_sema>>
      /\ c_current' = Cortex!Top(c_ready) /\ c_slot' = Cortex!Top(c_ready)
  BY DEF Cortex!PendSV, Cortex!port, Cortex!Choice
<1>2. /\ c_at.task \in Cortex!Tasks /\ c_at.task # "main" /\ c_at.phase = "out" /\ c_at.task = c_psp
      /\ c_psp = c_slot /\ c_psp \in Cortex!Tasks /\ c_at.line \in LinesOf(c_at.task) /\ c_nesting = 0
  BY <1>0, <1>1 DEF BootIsQuiet, PhaseMasks, FramesAreTheirs, CortexTypes
<1>3. Cortex!HasOutgoing
  BY <1>2, Prios DEF Cortex!HasOutgoing, Cortex!None
<1>4. c_frame' = [c_frame EXCEPT ![c_psp] = c_at] /\ c_sp' = [c_sp EXCEPT ![c_slot] = c_psp]
  BY <1>3 DEF Cortex!PendSV, Cortex!Save
<1>5. c_sp' = [t \in Cortex!Tasks |-> t]
  BY <1>0, <1>2, <1>4 DEF CortexTypes
<1>6. /\ c_frame' \in [Cortex!Tasks -> Cortex!Registers]
      /\ \A t \in Cortex!Tasks :
           c_frame'[t].task = t /\ c_frame'[t].phase = "out" /\ c_frame'[t].line \in LinesOf(t)
  BY <1>0, <1>2, <1>4 DEF CortexTypes, FramesAreTheirs
<1>7. /\ Cortex!Top(c_ready) \in c_ready /\ Cortex!Top(c_ready) \in Cortex!Tasks
      /\ \A u \in c_ready : ~(Cortex!Prio[u] > Cortex!Prio[Cortex!Top(c_ready)])
  BY <1>0, TopIsTop DEF CortexTypes, FramesAreTheirs
<1>8. c_psp' = c_current' /\ c_at' = c_frame'[c_current']
  <2>1. c_sp'[c_slot'] = c_current' /\ c_current' # "none"
    BY <1>1, <1>5, <1>7, Prios
  <2> QED BY <2>1 DEF Cortex!PendSV, Cortex!None
<1>9. CortexTypes' /\ PhaseMasks'
  BY <1>0, <1>1, <1>2, <1>5, <1>6, <1>7, <1>8 DEF CortexTypes, PhaseMasks
<1>10. FramesAreTheirs' /\ BootIsQuiet' /\ CurrentIsTop'
  BY <1>0, <1>1, <1>6, <1>7, <1>8, Prios DEF FramesAreTheirs, BootIsQuiet, CurrentIsTop
<1> QED BY <1>9, <1>10 DEF CortexInv

\* The first task starts with nothing pended.
LEMMA CortexFirst == ASSUME CortexInv, Cortex!StartFirst PROVE CortexInv'
<1>0. CortexTypes /\ PhaseMasks /\ FramesAreTheirs /\ BootIsQuiet /\ CurrentIsTop
  BY DEF CortexInv
<1>1. /\ c_at.task = "main" /\ c_primask' = FALSE
      /\ c_psp' = c_current /\ c_at' = c_frame[c_current]
      /\ UNCHANGED <<c_nesting, c_saved, c_pend, c_slot, c_sp, c_frame, c_current, c_ready, c_waiting, c_sema>>
  BY <1>0 DEF Cortex!StartFirst, Cortex!kernel, CortexTypes
<1>2. c_at.phase = "out" /\ c_nesting = 0
  BY <1>0, <1>1 DEF BootIsQuiet, PhaseMasks
<1>3. CortexTypes' /\ PhaseMasks'
  BY <1>0, <1>1, <1>2 DEF CortexTypes, PhaseMasks, FramesAreTheirs
<1>4. FramesAreTheirs' /\ BootIsQuiet' /\ CurrentIsTop'
  BY <1>0, <1>1, Prios DEF FramesAreTheirs, BootIsQuiet, CurrentIsTop
<1> QED BY <1>3, <1>4 DEF CortexInv

\* Every step keeps the invariant.
LEMMA CortexNext ==
    ASSUME CortexInv, Cortex!Next \/ UNCHANGED cortex PROVE CortexInv'
<1>1. CASE UNCHANGED cortex
  BY <1>1
  DEF cortex, CortexInv, CortexTypes, PhaseMasks, FramesAreTheirs, BootIsQuiet,
      CurrentIsTop
<1> QED
  BY <1>1, CortexFirst, CortexPhases, CortexExits, CortexPends, CortexTicks,
     CortexSwitches DEF Cortex!Next

\* The cell mps2-an385-qemu-preempt: kernel calls are exclusive, PendSV moves all
\* of a task or nothing, and the most urgent task runs unless a switch is pended.
THEOREM CortexIsSafe == BoardsSpec => []CortexSafe
<1>1. BoardsInit => CortexInv
  BY CortexStarts DEF BoardsInit
<1>2. CortexInv /\ [BoardsNext]_all => CortexInv'
  BY CortexMoves, CortexNext
<1>3. CortexInv => CortexSafe
  <2> SUFFICES ASSUME CortexInv
               PROVE  /\ Cortex!KernelExclusive /\ Cortex!SwitchIsWhole /\ Cortex!FramesKept
                      /\ Cortex!NoSwitchAtBoot /\ Cortex!MostUrgentRuns
    BY DEF CortexSafe
  <2>1. Cortex!KernelExclusive /\ Cortex!NoSwitchAtBoot /\ Cortex!FramesKept
    BY DEF CortexInv, CortexTypes, PhaseMasks, BootIsQuiet, FramesAreTheirs,
       Cortex!KernelExclusive, Cortex!NoSwitchAtBoot, Cortex!FramesKept
  <2>2. Cortex!SwitchIsWhole
    BY Prios
    DEF CortexInv, CortexTypes, FramesAreTheirs, Cortex!SwitchIsWhole, Cortex!InTask
  <2>3. Cortex!MostUrgentRuns
    BY TopIsUnique DEF CortexInv, CortexTypes, CurrentIsTop, Cortex!MostUrgentRuns
  <2> QED BY <2>1, <2>2, <2>3
<1> QED BY <1>1, <1>2, <1>3, PTL DEF BoardsSpec

=============================================================================

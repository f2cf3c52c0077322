--------------------------- MODULE SimPort_proofs ---------------------------
(***************************************************************************)
(* Theorems about SimPort, for any tasks, any EXITS_PER_TICK and any       *)
(* bounds: its types, what its clock may do in each context, that ticks    *)
(* follow from the exits, and that no sim time is lost over a switch.      *)
(***************************************************************************)
EXTENDS SimPort, FiniteSetTheorems, WellFoundedInduction, TLAPS

\* The flag word says which context executes.
FlagsNameContext ==
    /\ ctx = "main" => flags = {}
    /\ ctx = "task" => flags = {"COUNTING"}
    /\ ctx = "tail" => flags = {"COUNTING", "UNWINDING"}
    /\ ctx = "tick" => flags = {"COUNTING", "IN_ISR"}

\* The port's nesting is the frame's open sections; a tick entry begins with
\* none open, and so does a task that has a tally to be charged.
NestingIsOpen ==
    /\ ctx # "tick" => nesting = open
    /\ ctx = "tick" => open = 0
    /\ ctx = "task" /\ owed[running] > 0 => open = 0

IInv == TypeOK /\ FlagsNameContext /\ NestingIsOpen

-----------------------------------------------------------------------------
\* What an exit does to the counters, by the flag word.
LEMMA ExitByFlags ==
    ASSUME TypeOK, exit_critical
    PROVE  /\ nesting' \in Nat /\ exits' \in Nat /\ unwound' \in Nat
           /\ pending_tick' \in BOOLEAN
           /\ nesting > 0 => nesting' = nesting - 1
           /\ nesting = 0 => nesting' = 0
           /\ flags # COUNTS => exits' = exits /\ pending_tick' = pending_tick
  BY SimConstants DEF TypeOK, exit_critical

\* Before the scheduler starts no section is open and nothing was counted.
LEMMA InitHolds == Init => IInv
<1> SUFFICES ASSUME Init PROVE IInv OBVIOUS
<1>1. TypeOK BY SimConstants DEF Init, TypeOK, Flag, Ctx
<1>2. FlagsNameContext BY DEF Init, FlagsNameContext
<1>3. NestingIsOpen BY DEF Init, NestingIsOpen
<1>4. QED BY <1>1, <1>2, <1>3 DEF IInv

\* The frame: the task's own code, or the tail of one switched out.
LEMMA FrameSteps ==
    ASSUME IInv, FrameEnter \/ FrameExit \/ SchedulerStarted \/ YieldNow \/ RaiseTick
    PROVE  IInv'
<1> USE SimConstants DEF IInv, TypeOK, FlagsNameContext, NestingIsOpen, Flag, Ctx,
                         TaskMayRun, InFrame, kernelVars, historyVars
<1>1. CASE FrameEnter BY <1>1 DEF FrameEnter, enter_critical
<1>2. CASE FrameExit
  <2>1. /\ nesting' = open' /\ nesting' \in Nat /\ exits' \in Nat
        /\ unwound' \in Nat /\ pending_tick' \in BOOLEAN
    BY <1>2, ExitByFlags DEF FrameExit
  <2>2. made' \in [Task -> Nat] BY <1>2 DEF FrameExit
  <2>3. QED BY <1>2, <2>1, <2>2 DEF FrameExit
<1>3. CASE SchedulerStarted BY <1>3 DEF SchedulerStarted
<1>4. CASE YieldNow BY <1>4 DEF YieldNow
<1>5. CASE RaiseTick BY <1>5 DEF RaiseTick
<1>6. QED BY <1>1, <1>2, <1>3, <1>4, <1>5

\* The kernel around it.
LEMMA KernelSteps ==
    ASSUME IInv,
           \/ TakeTick \/ TickSection \/ \E b \in BOOLEAN : TickReturn(b)
           \/ SwitchOut \/ (\E t \in Task : SwitchIn(t)) \/ Replay
    PROVE  IInv'
<1> USE SimConstants DEF IInv, TypeOK, FlagsNameContext, NestingIsOpen, Flag, Ctx,
                         TaskMayRun, kernelVars, historyVars
<1>1. CASE TakeTick
  <2>1. flags' = {"COUNTING", "IN_ISR"} BY <1>1 DEF TakeTick
  <2>2. ctx' = "tick" /\ ticks' = ticks + 1 /\ pending_tick' = FALSE
    BY <1>1 DEF TakeTick
  <2>3. UNCHANGED <<nesting, exits, yield_pending, unwound, running, owed, open, made, hooks>>
    BY <1>1 DEF TakeTick
  <2>4. open = 0 BY <1>1 DEF TakeTick
  <2>5. FlagsNameContext' /\ NestingIsOpen' BY <2>1, <2>2, <2>3, <2>4
  <2>6. TypeOK'
    <3> HIDE DEF FlagsNameContext, NestingIsOpen
    <3>1. flags' \subseteq Flag BY <2>1
    <3>2. ticks' \in Nat BY <2>2
    <3>3. QED BY <2>2, <2>3, <3>1, <3>2
  <2>7. QED BY <2>5, <2>6
<1>2. CASE TickSection
  <2>1. /\ nesting' \in Nat /\ exits' \in Nat /\ unwound' \in Nat
        /\ pending_tick' \in BOOLEAN
    BY <1>2, ExitByFlags DEF TickSection, enter_critical
  <2>2. QED BY <1>2, <2>1 DEF TickSection
<1>3. CASE \E b \in BOOLEAN : TickReturn(b) BY <1>3 DEF TickReturn
<1>4. CASE SwitchOut BY <1>4 DEF SwitchOut, begin_unwind
<1>5. CASE \E t \in Task : SwitchIn(t) BY <1>5 DEF SwitchIn, end_unwind
<1>6. CASE Replay
  <2>1. /\ nesting' = 0 /\ exits' \in Nat /\ unwound' \in Nat
        /\ pending_tick' \in BOOLEAN
    BY <1>6, ExitByFlags DEF Replay
  <2>2. owed' \in [Task -> Nat] BY <1>6 DEF Replay
  <2>3. QED BY <1>6, <2>1, <2>2 DEF Replay
<1>7. QED BY <1>1, <1>2, <1>3, <1>4, <1>5, <1>6

\* Every step of the frame and of the kernel keeps the invariant.
LEMMA NextHolds == IInv /\ [Next]_vars => IInv'
<1> SUFFICES ASSUME IInv, [Next]_vars PROVE IInv' OBVIOUS
<1>1. CASE UNCHANGED vars
  BY <1>1 DEF IInv, TypeOK, FlagsNameContext, NestingIsOpen, vars, portVars,
              kernelVars, historyVars
<1>2. CASE Next BY <1>2, FrameSteps, KernelSteps DEF Next
<1>3. QED BY <1>1, <1>2

\* The flag word always names the context, and the nesting is always the sections
\* that the running frame has open.
THEOREM InvariantHolds == Spec => []IInv
<1>1. QED BY InitHolds, NextHolds, PTL DEF Spec

\* The simulator's variables keep their types: the clock and the tallies never
\* go below zero, whatever sections a switched-out frame leaves open.
THEOREM TypeCorrect == Spec => []TypeOK
<1>1. IInv => TypeOK BY DEF IInv
<1>2. QED BY <1>1, InvariantHolds, PTL

-----------------------------------------------------------------------------
\* Time is task time: the exits a tail, the tick entry or the main thread makes
\* leave the clock alone, because the flag word differs from COUNTS in each.
THEOREM ClockOnlyInTasks == Spec => TimeIsTaskTime
<1> DEFINE P == ctx # "task" => exits' = exits /\ (pending_tick' => pending_tick)
<1>1. IInv /\ [Next]_vars => [P]_vars
  <2> SUFFICES ASSUME IInv, Next, ctx # "task" PROVE P OBVIOUS
  <2>1. flags # COUNTS BY DEF IInv, TypeOK, Ctx, FlagsNameContext, COUNTS
  <2>2. exit_critical => P BY <2>1, ExitByFlags DEF IInv
  <2>3. QED
    BY <2>2 DEF Next, FrameEnter, FrameExit, SchedulerStarted, YieldNow, RaiseTick,
                TakeTick, TickSection, TickReturn, SwitchOut, SwitchIn, Replay,
                kernelVars, historyVars
<1>2. QED BY <1>1, InvariantHolds, PTL DEF Spec, TimeIsTaskTime

-----------------------------------------------------------------------------
\* The quotient by EXITS_PER_TICK goes up by one when the count becomes a
\* multiple of it, and stays otherwise.
LEMMA NextMultiple ==
    ASSUME NEW n \in Nat
    PROVE  (n + 1) \div EXITS_PER_TICK =
             (n \div EXITS_PER_TICK) + (IF (n + 1) % EXITS_PER_TICK = 0 THEN 1 ELSE 0)
<1> DEFINE E == EXITS_PER_TICK
           q == n \div E
           r == n % E
<1>0. E \in Nat /\ E > 0 BY SimConstants
<1>1. q \in Nat /\ r \in 0..(E - 1) /\ n = E * q + r BY <1>0
<1>2. QED BY <1>0, <1>1

\* Rules 2 and 3: the ticks delivered and the one that is raised are the
\* multiples of EXITS_PER_TICK the exits have passed and the idle hook's.
THEOREM TicksFollowExits == Spec => []TicksDelivered
<1>1. Init => TicksDelivered BY SimConstants DEF Init, TicksDelivered
<1>2. IInv /\ TicksDelivered /\ [Next]_vars => TicksDelivered'
  <2> SUFFICES ASSUME IInv, TicksDelivered, [Next]_vars PROVE TicksDelivered' OBVIOUS
  <2>0. TypeOK BY DEF IInv
  <2>1. ASSUME exit_critical, ~pending_tick, UNCHANGED <<ticks, hooks>>
        PROVE  TicksDelivered'
    <3>1. CASE exits' = exits /\ pending_tick' = pending_tick
      BY <2>1, <3>1 DEF TicksDelivered
    <3>2. CASE /\ exits' = exits + 1
               /\ pending_tick' = (exits' % EXITS_PER_TICK = 0)
      <4> DEFINE d == IF (exits + 1) % EXITS_PER_TICK = 0 THEN 1 ELSE 0
      <4>1. exits \in Nat /\ ticks \in Nat /\ hooks \in Nat BY <2>0 DEF TypeOK
      <4>2. ticks = (exits \div EXITS_PER_TICK) + hooks BY <2>1, <4>1 DEF TicksDelivered
      <4>3. (exits + 1) \div EXITS_PER_TICK = (exits \div EXITS_PER_TICK) + d
        BY <4>1, NextMultiple
      <4>4. exits \div EXITS_PER_TICK \in Int BY <4>1, SimConstants
      <4>5. (IF pending_tick' THEN 1 ELSE 0) = d BY <3>2
      <4>6. ticks + d = ((exits + 1) \div EXITS_PER_TICK) + hooks
        <5> HIDE DEF d
        <5>1. d \in Int BY DEF d
        <5>2. QED BY <4>1, <4>2, <4>3, <4>4, <5>1
      <4>7. ticks' = ticks /\ hooks' = hooks /\ exits' = exits + 1 BY <2>1, <3>2
      <4>8. QED BY <4>5, <4>6, <4>7 DEF TicksDelivered
    <3>3. QED BY <2>0, <2>1, <3>1, <3>2 DEF exit_critical, TypeOK
  <2>2. CASE FrameExit
    <3>1. CASE ctx = "task" BY <2>1, <2>2, <3>1 DEF FrameExit, InFrame, TaskMayRun
    <3>2. CASE ctx # "task"
      <4>1. flags # COUNTS BY <2>0, <3>2 DEF IInv, TypeOK, Ctx, FlagsNameContext, COUNTS
      <4>2. QED BY <2>0, <2>2, <4>1, ExitByFlags DEF FrameExit, TicksDelivered
    <3>3. QED BY <3>1, <3>2
  <2>3. CASE Replay BY <2>1, <2>3 DEF Replay, historyVars
  <2>4. CASE TickSection
    <3>1. flags # COUNTS BY <2>4 DEF TickSection, IInv, FlagsNameContext, COUNTS
    <3>2. exit_critical => exits' = exits /\ pending_tick' = pending_tick
      BY <2>0, <3>1, ExitByFlags
    <3>3. QED BY <2>4, <3>2 DEF TickSection, TicksDelivered, historyVars
  <2>5. CASE RaiseTick
    <3>1. ~pending_tick /\ pending_tick' /\ hooks' = hooks + 1 /\ UNCHANGED <<ticks, exits>>
      BY <2>5 DEF RaiseTick, TaskMayRun
    <3>2. exits \div EXITS_PER_TICK \in Int BY <2>0, SimConstants DEF TypeOK
    <3>3. ticks = (exits \div EXITS_PER_TICK) + hooks BY <2>0, <3>1 DEF TicksDelivered, TypeOK
    <3>4. ticks + 1 = (exits \div EXITS_PER_TICK) + (hooks + 1)
      BY <2>0, <3>2, <3>3 DEF TypeOK
    <3>5. QED BY <3>1, <3>4 DEF TicksDelivered
  <2>6. CASE TakeTick BY <2>0, <2>6 DEF TakeTick, TicksDelivered, TypeOK, historyVars
  <2>7. CASE UNCHANGED <<ticks, pending_tick, exits, hooks>>
    BY <2>7 DEF TicksDelivered
  <2>8. QED
    BY <2>2, <2>3, <2>4, <2>5, <2>6, <2>7
    DEF Next, FrameEnter, SchedulerStarted, YieldNow, TickReturn, SwitchOut, SwitchIn,
        kernelVars, historyVars, portVars, vars
<1>3. QED BY <1>1, <1>2, InvariantHolds, PTL DEF Spec

-----------------------------------------------------------------------------
(* Sums over the tasks: MapThenSumSet is a recursion over the sets of tasks,  *)
(* solved by induction on their size.                                          *)

\* A set of naturals with zero and the successor of each of its members has all.
LEMMA NatSets ==
    ASSUME NEW G \in SUBSET Nat, 0 \in G, \A n \in G : n + 1 \in G
    PROVE  G = Nat
<1> DEFINE T == Nat \ G
<1> SUFFICES ASSUME T # {} PROVE FALSE
  OBVIOUS
<1>1. PICK m \in T : \A k \in T : ~ (<<k, m>> \in OpToRel(<, Nat))
  BY WFMin, NatLessThanWellFounded
<1>2. \A k \in T : ~(k < m)
  BY <1>1 DEF OpToRel
<1>3. m \in Nat /\ m # 0
  OBVIOUS
<1>4. m - 1 \in Nat /\ m - 1 < m
  BY <1>3
<1>5. m - 1 \in G
  BY <1>2, <1>4
<1>6. (m - 1) + 1 \in G
  BY <1>5
<1> QED BY <1>6, <1>3

\* The task a sum takes next from a set, what the recursion of a sum says of a
\* set, the sum of a number for each task, and the function the recursion defines.
Pick(s) == CHOOSE x \in s : TRUE
SumStep(f, it, s) == IF s = {} THEN 0 ELSE f[Pick(s)] + it[s \ {Pick(s)}]
Sum(f) == MapThenSumSet(LAMBDA t : f[t], Task)
Iter(f) == CHOOSE it : it = [s \in SUBSET Task |-> SumStep(f, it, s)]

\* MapThenSumSet is that recursion.
LEMMA SumIsIter == \A f : Sum(f) = Iter(f)[Task]
BY DEF Sum, Iter, MapThenSumSet, MapThenFoldSet, SumStep, Pick

\* The recursion's equations, one for each set of tasks.
IsIter(f, it) == \A s \in SUBSET Task : it[s] = SumStep(f, it, s)

\* What is picked from a set is in it, and the rest is one smaller.
LEMMA PickShrinks ==
    ASSUME NEW s \in SUBSET Task, s # {}
    PROVE  /\ Pick(s) \in s /\ s \ {Pick(s)} \in SUBSET Task
           /\ Cardinality(s) \in Nat \ {0} /\ Cardinality(s \ {Pick(s)}) = Cardinality(s) - 1
<1>1. Pick(s) \in s
  BY DEF Pick
<1>2. IsFiniteSet(s)
  BY SimConstants, FS_Subset
<1> QED BY <1>1, <1>2, FS_CardinalityType, FS_EmptySet, FS_RemoveElement

\* The size of a set of tasks is a natural number, and only the empty one has none.
LEMMA SizeOfTasks ==
    ASSUME NEW s \in SUBSET Task
    PROVE  Cardinality(s) \in Nat /\ (Cardinality(s) = 0 <=> s = {})
BY SimConstants, FS_Subset, FS_CardinalityType, FS_EmptySet

\* The recursion has a solution: it is built up by the size of the sets.
LEMMA IterExists ==
    ASSUME NEW f \in [Task -> Nat]
    PROVE  \E it \in [SUBSET Task -> Nat] : IsIter(f, it)
<1> DEFINE UpTo(n, it) == \A s \in SUBSET Task : Cardinality(s) <= n => it[s] = SumStep(f, it, s)
           G == {n \in Nat : \E it \in [SUBSET Task -> Nat] : UpTo(n, it)}
<1>1. 0 \in G
  <2>1. [s \in SUBSET Task |-> 0] \in [SUBSET Task -> Nat]
    OBVIOUS
  <2>2. UpTo(0, [s \in SUBSET Task |-> 0])
    BY SizeOfTasks DEF SumStep
  <2> QED BY <2>1, <2>2
<1>2. ASSUME NEW n \in G PROVE n + 1 \in G
  <2>1. PICK g \in [SUBSET Task -> Nat] : UpTo(n, g)
    OBVIOUS
  <2> DEFINE h == [s \in SUBSET Task |-> IF Cardinality(s) <= n THEN g[s] ELSE SumStep(f, g, s)]
  <2>2. ASSUME NEW s \in SUBSET Task PROVE SumStep(f, g, s) \in Nat
    <3>1. s # {} => f[Pick(s)] \in Nat /\ g[s \ {Pick(s)}] \in Nat
      BY PickShrinks
    <3> QED BY <3>1 DEF SumStep
  <2>3. h \in [SUBSET Task -> Nat]
    BY <2>2
  <2>4. ASSUME NEW s \in SUBSET Task, Cardinality(s) <= n + 1 PROVE h[s] = SumStep(f, h, s)
    <3>1. h[s] = SumStep(f, g, s)
      BY <2>1
    <3>2. s # {} => h[s \ {Pick(s)}] = g[s \ {Pick(s)}]
      BY <2>4, PickShrinks
    <3> QED BY <3>1, <3>2 DEF SumStep
  <2>5. UpTo(n + 1, h)
    BY <2>4
  <2> HIDE DEF UpTo, h
  <2>6. \E it \in [SUBSET Task -> Nat] : UpTo(n + 1, it)
    BY <2>3, <2>5
  <2> QED BY <2>6
<1> HIDE DEF G
<1>3. G = Nat
  <2>1. G \subseteq Nat
    BY DEF G
  <2> QED BY <1>1, <1>2, <2>1, NatSets
<1>4. Cardinality(Task) \in G
  BY <1>3, SizeOfTasks
<1>5. PICK it \in [SUBSET Task -> Nat] : UpTo(Cardinality(Task), it)
  BY <1>4 DEF G
<1>6. \A s \in SUBSET Task : Cardinality(s) <= Cardinality(Task)
  BY SimConstants, FS_Subset
<1> QED BY <1>5, <1>6 DEF IsIter

\* So Iter(f) solves it.
LEMMA IterSolves ==
    ASSUME NEW f \in [Task -> Nat] PROVE IsIter(f, Iter(f))
<1>1. PICK it \in [SUBSET Task -> Nat] : IsIter(f, it)
  BY IterExists
<1>2. it = [s \in SUBSET Task |-> SumStep(f, it, s)]
  BY <1>1 DEF IsIter
<1>3. Iter(f) = [s \in SUBSET Task |-> SumStep(f, Iter(f), s)]
  BY <1>2, Zenon DEF Iter
<1> QED BY <1>3 DEF IsIter

\* A property of the sets of tasks that the empty one has, and that a set has
\* when the rest of it has, all of them have.
LEMMA TaskSets ==
    ASSUME NEW H \in SUBSET SUBSET Task,
           \A s \in SUBSET Task : s = {} \/ s \ {Pick(s)} \in H => s \in H
    PROVE  H = SUBSET Task
<1> DEFINE G == {n \in Nat : \A s \in SUBSET Task : Cardinality(s) <= n => s \in H}
<1>1. 0 \in G
  BY SizeOfTasks
<1>2. ASSUME NEW n \in G PROVE n + 1 \in G
  <2> SUFFICES ASSUME NEW s \in SUBSET Task, Cardinality(s) <= n + 1 PROVE s \in H
    OBVIOUS
  <2>1. s = {} \/ Cardinality(s \ {Pick(s)}) <= n
    BY PickShrinks
  <2> QED BY <2>1
<1> HIDE DEF G
<1>3. G = Nat
  <2>1. G \subseteq Nat
    BY DEF G
  <2> QED BY <1>1, <1>2, <2>1, NatSets
<1>4. \A s \in SUBSET Task : Cardinality(s) \in G
  BY <1>3, SizeOfTasks
<1> QED BY <1>4, SizeOfTasks DEF G

\* The sum is a natural number.
LEMMA SumIsNat == ASSUME NEW f \in [Task -> Nat] PROVE Sum(f) \in Nat
<1> DEFINE it == Iter(f)
           H == {s \in SUBSET Task : it[s] \in Nat}
<1>1. IsIter(f, it)
  BY IterSolves
<1> HIDE DEF it
<1>2. ASSUME NEW s \in SUBSET Task, s = {} \/ s \ {Pick(s)} \in H PROVE s \in H
  <2>1. it[s] = IF s = {} THEN 0 ELSE f[Pick(s)] + it[s \ {Pick(s)}]
    BY <1>1 DEF IsIter, SumStep
  <2>2. s # {} => f[Pick(s)] \in Nat /\ it[s \ {Pick(s)}] \in Nat
    BY <1>2, PickShrinks
  <2> QED BY <2>1, <2>2
<1>3. H = SUBSET Task
  <2> HIDE DEF H
  <2>1. H \in SUBSET SUBSET Task
    BY DEF H
  <2> QED BY <1>2, <2>1, TaskSets
<1>4. it[Task] \in Nat
  BY <1>3
<1> QED BY <1>4, SumIsIter DEF it

\* The sum of zeros is zero.
LEMMA SumOfZeros == Sum([t \in Task |-> 0]) = 0
<1> DEFINE f == [t \in Task |-> 0]
           it == Iter(f)
           H == {s \in SUBSET Task : it[s] = 0}
<1>1. IsIter(f, it)
  BY IterSolves
<1>a. \A t \in Task : f[t] = 0
  OBVIOUS
<1> HIDE DEF f, it
<1>2. ASSUME NEW s \in SUBSET Task, s = {} \/ s \ {Pick(s)} \in H PROVE s \in H
  <2>1. it[s] = IF s = {} THEN 0 ELSE f[Pick(s)] + it[s \ {Pick(s)}]
    BY <1>1 DEF IsIter, SumStep
  <2>2. s # {} => f[Pick(s)] = 0 /\ it[s \ {Pick(s)}] = 0
    BY <1>2, <1>a, PickShrinks
  <2> QED BY <2>1, <2>2
<1>3. H = SUBSET Task
  <2> HIDE DEF H
  <2>1. H \in SUBSET SUBSET Task
    BY DEF H
  <2> QED BY <1>2, <2>1, TaskSets
<1>4. it[Task] = 0
  BY <1>3
<1> QED BY <1>4, SumIsIter DEF it, f

\* Changing one number changes the sum by as much.
LEMMA SumChanges ==
    ASSUME NEW f \in [Task -> Nat], NEW r \in Task, NEW v \in Nat
    PROVE  Sum([f EXCEPT ![r] = v]) = Sum(f) + (v - f[r])
<1> DEFINE g == [f EXCEPT ![r] = v]
           it == Iter(f)
           jt == Iter(g)
           H == {s \in SUBSET Task : it[s] \in Nat /\ jt[s] = it[s] + (IF r \in s THEN v - f[r] ELSE 0)}
<1>0. g \in [Task -> Nat] /\ g[r] = v /\ \A t \in Task : t # r => g[t] = f[t]
  OBVIOUS
<1>1. IsIter(f, it) /\ IsIter(g, jt)
  BY <1>0, IterSolves
<1> HIDE DEF it, jt, g
<1>2. ASSUME NEW s \in SUBSET Task, s = {} \/ s \ {Pick(s)} \in H PROVE s \in H
  <2>1. CASE s = {}
    <3>1. it[s] = 0 /\ jt[s] = 0
      BY <1>1, <2>1 DEF IsIter, SumStep
    <3> QED BY <2>1, <3>1
  <2>2. CASE s # {}
    <3> DEFINE x == Pick(s)
               q == s \ {x}
    <3>1. x \in s /\ q \in SUBSET Task /\ it[s] = f[x] + it[q] /\ jt[s] = g[x] + jt[q]
      BY <1>1, <2>2, PickShrinks DEF IsIter, SumStep
    <3>2. it[q] \in Nat /\ jt[q] = it[q] + (IF r \in q THEN v - f[r] ELSE 0)
      BY <1>2, <2>2
    <3>3. r \in s => r = x \/ r \in q
      OBVIOUS
    <3>4. r \notin s => r # x /\ r \notin q
      BY <3>1
    <3>5. r = x => r \notin q
      OBVIOUS
    <3>6. f[x] \in Nat /\ f[r] \in Nat /\ g[x] = IF x = r THEN v ELSE f[x]
      BY <3>1, <1>0
    <3> HIDE DEF x, q
    <3>7. it[s] \in Nat /\ jt[s] = it[s] + (IF r \in s THEN v - f[r] ELSE 0)
      <4>1. CASE r = x
        BY <4>1, <3>1, <3>2, <3>5, <3>6
      <4>2. CASE r # x
        BY <4>2, <3>1, <3>2, <3>3, <3>4, <3>6
      <4> QED BY <4>1, <4>2
    <3> QED BY <3>7
  <2> QED BY <2>1, <2>2
<1>3. H = SUBSET Task
  <2> HIDE DEF H
  <2>1. H \in SUBSET SUBSET Task
    BY DEF H
  <2> QED BY <1>2, <2>1, TaskSets
<1>4. Task \in H
  BY <1>3
<1>5. jt[Task] = it[Task] + (v - f[r])
  BY <1>4
<1> QED BY <1>5, SumIsIter DEF it, jt, g

-----------------------------------------------------------------------------
\* Only a tail has a tally.
TallyInTails == ctx # "tail" => unwound = 0

\* Sim time is conserved, with that.
ConservedInv == TallyInTails /\ Sum(made) = exits + unwound + Sum(owed)

\* An exit of the frame is counted where its context says.
LEMMA FrameExitCounts ==
    ASSUME IInv, TallyInTails, FrameExit
    PROVE  IF open = 1 /\ ctx # "main"
           THEN /\ made' = [made EXCEPT ![running] = made[running] + 1]
                /\ exits' + unwound' = exits + unwound + 1
           ELSE made' = made /\ exits' = exits /\ unwound' = unwound
<1>1. /\ ctx \in {"main", "task", "tail"} /\ nesting = open /\ open \in Nat /\ open > 0
      /\ exits \in Nat /\ unwound \in Nat /\ exit_critical
      /\ made' = IF open = 1 /\ ctx # "main" THEN [made EXCEPT ![running] = made[running] + 1] ELSE made
  BY DEF IInv, TypeOK, NestingIsOpen, FrameExit, InFrame
<1>2. CASE open # 1
  BY <1>1, <1>2 DEF exit_critical
<1>3. CASE open = 1
  <2>1. (IF nesting > 1 THEN nesting - 1 ELSE 0) = 0
    BY <1>1, <1>3
  <2>2. /\ exits' = IF flags = COUNTS THEN exits + 1 ELSE exits
        /\ unwound' = IF flags = TALLIES THEN unwound + 1 ELSE unwound
    BY <1>1, <2>1 DEF exit_critical
  <2>3. /\ ctx = "main" => flags # COUNTS /\ flags # TALLIES
        /\ ctx = "task" => flags = COUNTS /\ flags # TALLIES
        /\ ctx = "tail" => flags # COUNTS /\ flags = TALLIES
    BY DEF IInv, FlagsNameContext, COUNTS, TALLIES
  <2> QED BY <1>1, <1>3, <2>2, <2>3
<1> QED BY <1>2, <1>3

\* What a replayed exit puts on the clock comes off the task's debt.
LEMMA ReplayCounts ==
    ASSUME IInv, Replay
    PROVE  /\ exits' = exits + 1 /\ unwound' = unwound
           /\ owed' = [owed EXCEPT ![running] = owed[running] - 1] /\ owed[running] - 1 \in Nat
<1>1. /\ ctx = "task" /\ owed[running] > 0 /\ owed[running] \in Nat /\ nesting = 0 /\ flags = COUNTS
      /\ exit_critical /\ owed' = [owed EXCEPT ![running] = owed[running] - 1]
  BY DEF IInv, TypeOK, NestingIsOpen, FlagsNameContext, Replay, COUNTS
<1>2. COUNTS # TALLIES
  BY DEF COUNTS, TALLIES
<1> QED BY <1>1, <1>2 DEF exit_critical

\* Every step conserves sim time.
LEMMA ConservedNext ==
    ASSUME IInv, ConservedInv, [Next]_vars PROVE ConservedInv'
<1>0. /\ TallyInTails /\ Sum(made) = exits + unwound + Sum(owed)
      /\ exits \in Nat /\ unwound \in Nat /\ running \in Task
      /\ made \in [Task -> Nat] /\ owed \in [Task -> Nat] /\ Sum(made) \in Nat /\ Sum(owed) \in Nat
      /\ made[running] \in Nat /\ owed[running] \in Nat
  BY SumIsNat DEF IInv, TypeOK, ConservedInv
<1>1. ASSUME Sum(made)' = exits' + unwound' + Sum(owed)', TallyInTails' PROVE ConservedInv'
  BY <1>1 DEF ConservedInv
<1>2. CASE FrameExit
  <2>1. owed' = owed /\ ctx' = ctx
    BY <1>2 DEF FrameExit, kernelVars
  <2>2. exits' \in Nat /\ unwound' \in Nat
    BY <1>2, ExitByFlags DEF FrameExit, IInv
  <2>3. CASE open = 1 /\ ctx # "main"
    <3>1. Sum(made') = Sum(made) + ((made[running] + 1) - made[running])
      BY <1>0, <1>2, <2>3, FrameExitCounts, SumChanges
    <3>2. exits' + unwound' = exits + unwound + 1
      BY <1>0, <1>2, <2>3, FrameExitCounts
    <3>3. TallyInTails'
      <4>1. ctx # "tail" => flags # TALLIES
        BY DEF IInv, TypeOK, Ctx, FlagsNameContext, TALLIES
      <4> QED BY <4>1, <1>0, <1>2, <2>1 DEF FrameExit, exit_critical, TallyInTails
    <3>4. Sum(made') = exits' + unwound' + Sum(owed')
      <4>1. Sum(owed') = Sum(owed)
        BY <2>1
      <4>2. Sum(made') = Sum(made) + 1
        BY <1>0, <3>1
      <4>3. Sum(made) = exits + unwound + Sum(owed) /\ Sum(owed) \in Nat /\ exits \in Nat /\ unwound \in Nat
        BY <1>0
      <4>4. Sum(made') = (exits + unwound + 1) + Sum(owed)
        BY <4>2, <4>3
      <4> QED BY <3>2, <4>1, <4>4
    <3> QED BY <1>1, <3>3, <3>4
  <2>4. CASE ~(open = 1 /\ ctx # "main")
    BY <1>0, <1>1, <1>2, <2>1, <2>4, FrameExitCounts DEF TallyInTails
  <2> QED BY <2>3, <2>4
<1>3. CASE Replay
  <2>1. made' = made /\ ctx' = ctx /\ ctx = "task"
    BY <1>3 DEF Replay, historyVars
  <2>2. Sum(owed') = Sum(owed) + ((owed[running] - 1) - owed[running])
    BY <1>0, <1>3, ReplayCounts, SumChanges
  <2>3. exits' = exits + 1 /\ unwound' = unwound
    BY <1>0, <1>3, ReplayCounts
  <2>4. Sum(made') = exits' + unwound' + Sum(owed')
    BY <1>0, <2>1, <2>2, <2>3
  <2> QED BY <1>0, <1>1, <2>1, <2>3, <2>4 DEF TallyInTails
<1>4. CASE \E n \in Task : SwitchIn(n)
  <2>1. /\ made' = made /\ exits' = exits /\ unwound' = 0
        /\ owed' = [owed EXCEPT ![running] = owed[running] + unwound]
    BY <1>4 DEF SwitchIn, end_unwind
  <2>2. Sum(owed') = Sum(owed) + ((owed[running] + unwound) - owed[running])
    <3>1. owed[running] + unwound \in Nat
      BY <1>0
    <3> QED BY <1>0, <2>1, <3>1, SumChanges
  <2>3. Sum(made') = exits' + unwound' + Sum(owed')
    BY <1>0, <2>1, <2>2
  <2> QED BY <1>1, <2>1, <2>3 DEF TallyInTails
<1>5. CASE SwitchOut
  <2>1. unwound = 0 /\ unwound' = 0 /\ UNCHANGED <<made, owed, exits>>
    BY <1>0, <1>5 DEF SwitchOut, begin_unwind, TallyInTails, historyVars
  <2> QED BY <1>0, <1>1, <2>1 DEF TallyInTails
<1>6. CASE TickSection
  <2>1. flags # COUNTS /\ flags # TALLIES
    BY <1>6 DEF TickSection, IInv, FlagsNameContext, COUNTS, TALLIES
  <2>2. exits' = exits /\ unwound' = unwound /\ UNCHANGED <<ctx, made, owed>>
    BY <1>6, <2>1 DEF TickSection, exit_critical, kernelVars, historyVars
  <2> QED BY <1>0, <1>1, <2>2 DEF TallyInTails
<1>7. CASE UNCHANGED <<exits, unwound, made, owed>> /\ (ctx' = "tail" => ctx = "tail") /\ (ctx = "tail" => ctx' = "tail")
  BY <1>0, <1>1, <1>7 DEF TallyInTails
<1>8. CASE SchedulerStarted \/ TakeTick \/ \E b \in BOOLEAN : TickReturn(b)
  BY <1>7, <1>8 DEF SchedulerStarted, TakeTick, TickReturn, historyVars
<1>9. CASE FrameEnter \/ YieldNow \/ RaiseTick \/ UNCHANGED vars
  BY <1>7, <1>9 DEF FrameEnter, YieldNow, RaiseTick, kernelVars, historyVars, portVars, vars
<1> QED BY <1>2, <1>3, <1>4, <1>5, <1>6, <1>8, <1>9 DEF Next

\* Sim time is conserved across switches, for any finite number of tasks: every
\* outermost exit a task's code made is on the clock, in the tally of the tail
\* that runs, or owed by a task that has not run since.
THEOREM NoSimTimeIsLost == Spec => []SimTimeConserved
<1>1. Init => ConservedInv
  <2> SUFFICES ASSUME Init PROVE ConservedInv OBVIOUS
  <2>1. Sum(made) = 0 /\ Sum(owed) = 0 /\ exits = 0 /\ unwound = 0
    BY SumOfZeros DEF Init
  <2> QED BY <2>1 DEF ConservedInv, TallyInTails
<1>2. IInv /\ ConservedInv /\ [Next]_vars => ConservedInv'
  BY ConservedNext
<1>3. ConservedInv => SimTimeConserved
  BY DEF ConservedInv, SimTimeConserved, Total, Sum
<1>4. QED BY <1>1, <1>2, <1>3, InvariantHolds, PTL DEF Spec

=============================================================================

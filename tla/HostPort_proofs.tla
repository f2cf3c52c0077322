-------------------------- MODULE HostPort_proofs ---------------------------
(***************************************************************************)
(* Proofs about HostPort: who owns the critical lock, and who has the run  *)
(* permit, for any number of tasks, occupants per slot and nesting depth,  *)
(* with refused freezes and spurious wake-ups.  What is said of the lock   *)
(* also holds with ticks before the start, what is said of the permit does *)
(* not.                                                                    *)
(***************************************************************************)
EXTENDS HostPort, TLAPS

\* CRITICAL is owned by the thread, if any, whose program counter is inside it,
\* or by the tick thread between its enter and its release.
OwnerIsInside ==
    /\ \A t \in Thread : owner = t <=> pc[t] \in LockedPcs
    /\ owner = Tick <=> tickPc \in TickLockedPcs

\* A frozen thread is not inside CRITICAL.
FrozenOutside == \A t \in suspended : pc[t] \notin LockedPcs

SwitchPcs == {"sw_lock", "sw_grant", "sw_signal", "sw_release", "sw_exit"}

\* switch_now is only reached with CRITICAL free, so it always holds it once.
SwitchDepth ==
    /\ \A t \in Thread : pc[t] \in SwitchPcs => nesting = 1
    /\ \A t \in Thread : pc[t] = "reacq" => depth[t] = 1
    /\ \A t \in Thread : depth[t] \in {0, 1}

\* IN_TICK is up only while the tick thread owns CRITICAL.
InTickIsLocked == IN_TICK => tickPc \in TickLockedPcs

\* A slot's threads come one after another: an occupant not spawned yet has no
\* thread, and the one that init_task is about to spawn is such an occupant.
OccupantsInOrder ==
    /\ \A i \in Task, g \in 1..MaxGen : g > generation[i] => pc[<<i, g>>] = "none"
    /\ \A t \in Thread : pc[t] \in {"clear", "spawn"} =>
          /\ making[t] \in Task
          /\ generation[making[t]] > 0
          /\ pc[<<making[t], generation[making[t]]>>] = "none"

LockInv == OwnerIsInside /\ FrozenOutside /\ SwitchDepth /\ InTickIsLocked

IInv == TypeOK /\ LockInv /\ OccupantsInOrder

\* The threads the invariant quantifies over through slot and occupant.
LEMMA ThreadPairs == \A i \in Task, g \in 1..MaxGen : <<i, g>> \in Thread
BY DEF Thread

\* notify_all moves waiters to the mutex and nobody else.
LEMMA NotifiedMoves ==
    ASSUME TypeOK, NEW i
    PROVE  /\ Notified(i) \in [Thread -> Pc]
           /\ \A u \in Thread : \/ Notified(i)[u] = pc[u]
                                \/ pc[u] = "wait" /\ Notified(i)[u] = "relock"
<1>1. /\ "relock" \in Pc /\ pc \in [Thread -> Pc]
      /\ Notified(i) = [u \in Thread |->
            IF pc[u] = "wait" /\ mine[u] = i THEN "relock" ELSE pc[u]]
  BY DEF TypeOK, Notified, Pc, ParkPcs
<1>2. QED BY <1>1

\* A step that spawns no thread and begins no init_task keeps the order.
LEMMA OrderKept ==
    ASSUME TypeOK, OccupantsInOrder, UNCHANGED generation, UNCHANGED making,
           \A u \in Thread : /\ pc[u] = "none" => pc'[u] = "none"
                             /\ pc'[u] \in {"clear", "spawn"} => pc[u] \in {"clear", "spawn"}
    PROVE  OccupantsInOrder'
<1>1. \A i \in Task, g \in 1..MaxGen : g > generation'[i] => pc'[<<i, g>>] = "none"
  BY ThreadPairs DEF OccupantsInOrder
<1>2. ASSUME NEW t \in Thread, pc'[t] \in {"clear", "spawn"}
      PROVE  /\ making[t] \in Task
             /\ generation[making[t]] > 0
             /\ pc'[<<making[t], generation[making[t]]>>] = "none"
  <2>1. /\ making[t] \in Task
        /\ generation[making[t]] > 0
        /\ pc[<<making[t], generation[making[t]]>>] = "none"
    BY <1>2 DEF OccupantsInOrder
  <2>2. generation[making[t]] \in 1..MaxGen
    BY <2>1, HostConstants DEF TypeOK, Gens
  <2>3. QED BY <2>1, <2>2, ThreadPairs
<1>3. QED BY <1>1, <1>2 DEF OccupantsInOrder

\* The initial state satisfies the invariant.
LEMMA InitHolds == Init => IInv
<1> SUFFICES ASSUME Init PROVE IInv OBVIOUS
<1> USE HostConstants, HostThreadNames DEF Init
<1>1. TypeOK
  <2>1. pc \in [Thread -> Pc] BY DEF Pc, ParkPcs
  <2>2. /\ granted \in [Task -> BOOLEAN] /\ frozen \in [Task -> BOOLEAN]
        /\ guard \in [Task -> Thread \cup {NoThread}]
        /\ next \in [Thread -> Task \cup {NO_TASK}] /\ depth \in [Thread -> Nat]
        /\ making \in [Thread -> Task \cup {NO_TASK}]
    OBVIOUS
  <2>3. generation \in [Task -> Gens] BY DEF Gens
  <2>4. os_thread \in [Task -> Thread \cup {NoThread}]
    <3>1. \A i \in BootTask : <<i, 1>> \in Thread BY DEF Thread
    <3>2. QED BY <3>1
  <2>5. mine \in [Thread -> Task] /\ mygen \in [Thread -> Gens]
    <3>1. \A t \in Thread : t[1] \in Task /\ t[2] \in Gens BY DEF Thread, Gens
    <3>2. QED BY <3>1
  <2>6. QED BY <2>1, <2>2, <2>3, <2>4, <2>5 DEF TypeOK, TickPc, BootPc
<1>2. LockInv
  BY DEF LockInv, SwitchDepth, SwitchPcs, OwnerIsInside, FrozenOutside, InTickIsLocked,
     LockedPcs, TickLockedPcs
<1>3. OccupantsInOrder
  BY DEF OccupantsInOrder, Thread
<1>4. QED BY <1>1, <1>2, <1>3 DEF IInv

\* The critical section, entered and left by a task.
LEMMA CriticalSteps ==
    ASSUME IInv, NEW t \in Thread,
           \/ EnterCritical(t)
           \/ EnterNested(t)
           \/ ExitNested(t)
           \/ ExitOuter(t)
           \/ ExitReadInTick(t)
           \/ ExitSwapPending(t)
    PROVE IInv'
<1> USE HostConstants, HostThreadNames
     DEF IInv, LockInv, OwnerIsInside, FrozenOutside, SwitchDepth, InTickIsLocked,
         OccupantsInOrder, TypeOK, SwitchPcs, Pc, LockedPcs, ParkPcs, FreePcs, TickPc,
         TickLockedPcs, BootPc, At, Goto, Acquire, Release, statics, lockVars, slotVars,
         frameVars, tickVars, bootVars, kernelVars
<1>1. CASE EnterCritical(t) BY <1>1 DEF EnterCritical
<1>2. CASE EnterNested(t) BY <1>2 DEF EnterNested
<1>3. CASE ExitNested(t) BY <1>3 DEF ExitNested
<1>4. CASE ExitOuter(t) BY <1>4 DEF ExitOuter
<1>5. CASE ExitReadInTick(t) BY <1>5 DEF ExitReadInTick
<1>6. CASE ExitSwapPending(t)
  <2>1. TypeOK'
    <3> HIDE DEF LockInv, OccupantsInOrder
    <3>1. pc' \in [Thread -> Pc] BY <1>6 DEF ExitSwapPending
    <3>2. PENDING' \in BOOLEAN BY <1>6 DEF ExitSwapPending
    <3>3. UNCHANGED <<suspended, CURRENT, IN_TICK, lockVars, slotVars,
            frameVars, tickVars, bootVars, making, kernelVars>>
      BY <1>6 DEF ExitSwapPending
    <3>4. QED BY <3>1, <3>2, <3>3
  <2>2. LockInv' BY <1>6 DEF ExitSwapPending
  <2>3. OccupantsInOrder' BY <1>6 DEF ExitSwapPending
  <2>4. QED BY <2>1, <2>2, <2>3
<1> QED BY <1>1, <1>2, <1>3, <1>4, <1>5, <1>6

\* Kernel calls and init_task, inside the critical section.
LEMMA KernelSteps ==
    ASSUME IInv, NEW t \in Thread,
           \/ KernelBlock(t)
           \/ \E j \in Task, b \in BOOLEAN : KernelWake(t, j, b)
           \/ \E j \in Task, b \in BOOLEAN : KernelDelete(t, j, b)
           \/ \E j \in Task : KernelCreate(t, j)
           \/ InitClear(t)
           \/ InitSpawn(t)
    PROVE IInv'
<1> USE HostConstants, HostThreadNames
     DEF IInv, LockInv, OwnerIsInside, FrozenOutside, SwitchDepth, InTickIsLocked,
         OccupantsInOrder, TypeOK, SwitchPcs, Pc, LockedPcs, ParkPcs, FreePcs, TickPc,
         TickLockedPcs, BootPc, At, Goto, Acquire, Release, statics, lockVars, slotVars,
         frameVars, tickVars, bootVars, kernelVars
<1>1. CASE KernelBlock(t) BY <1>1 DEF KernelBlock
<1>2. CASE \E j \in Task, b \in BOOLEAN : KernelWake(t, j, b) BY <1>2 DEF KernelWake
<1>3. CASE \E j \in Task, b \in BOOLEAN : KernelDelete(t, j, b) BY <1>3 DEF KernelDelete
<1>4. ASSUME NEW j \in Task, KernelCreate(t, j) PROVE IInv'
  <2>1. TypeOK'
    <3> HIDE DEF LockInv, OccupantsInOrder
    <3>1. generation' \in [Task -> Gens] BY <1>4 DEF KernelCreate, Gens
    <3>2. pc' \in [Thread -> Pc] /\ making' \in [Thread -> Task \cup {NO_TASK}]
      BY <1>4 DEF KernelCreate
    <3>3. QED BY <1>4, <3>1, <3>2 DEF KernelCreate
  <2>2. LockInv' BY <1>4 DEF KernelCreate
  <2>3. OccupantsInOrder'
    <3>1. /\ generation[j] \in Nat /\ generation[j] + 1 \in 1..MaxGen
          /\ generation' = [generation EXCEPT ![j] = generation[j] + 1]
          /\ \A i \in Task : generation[i] \in Nat
      BY <1>4 DEF KernelCreate, Gens
    <3>2. \A u \in Thread : u # t => pc'[u] = pc[u] /\ pc[u] \notin {"clear", "spawn"}
      BY <1>4 DEF KernelCreate
    <3>3. pc[t] = "crit" /\ making'[t] = j BY <1>4 DEF KernelCreate
    <3>4. \A i \in Task, g \in 1..MaxGen : g > generation'[i] => pc'[<<i, g>>] = "none"
      BY <3>1, <3>2, <3>3, ThreadPairs
    <3>5. pc'[<<j, generation'[j]>>] = "none" BY <3>1, <3>2, <3>3, ThreadPairs
    <3>6. ASSUME NEW u \in Thread, pc'[u] \in {"clear", "spawn"}
          PROVE  /\ making'[u] \in Task
                 /\ generation'[making'[u]] > 0
                 /\ pc'[<<making'[u], generation'[making'[u]]>>] = "none"
      <4>1. u = t BY <3>2, <3>6
      <4>2. generation'[j] > 0 BY <3>1
      <4>3. QED BY <4>1, <4>2, <3>3, <3>5
    <3>7. QED
      <4> HIDE DEF TypeOK, LockInv
      <4>1. QED BY <3>4, <3>6, Zenon
  <2>4. QED BY <2>1, <2>2, <2>3
<1>5. CASE InitClear(t)
  <2>1. TypeOK'
    <3> HIDE DEF LockInv, OccupantsInOrder
    <3>1. pc' \in [Thread -> Pc] BY <1>5, NotifiedMoves DEF InitClear
    <3>2. /\ granted' \in [Task -> BOOLEAN] /\ frozen' \in [Task -> BOOLEAN]
          /\ os_thread' \in [Task -> Thread \cup {NoThread}]
      BY <1>5 DEF InitClear
    <3>3. UNCHANGED <<suspended, statics, lockVars, generation, guard, frameVars, tickVars,
            bootVars, making, kernelVars>>
      BY <1>5 DEF InitClear
    <3>4. QED BY <3>1, <3>2, <3>3
  <2>2. LockInv' BY <1>5 DEF InitClear, Notified
  <2>3. OccupantsInOrder'
    <3>1. \A u \in Thread : /\ pc[u] = "none" => pc'[u] = "none"
                            /\ pc'[u] \in {"clear", "spawn"} => pc[u] \in {"clear", "spawn"}
      BY <1>5, NotifiedMoves DEF InitClear
    <3>2. QED BY <1>5, <3>1, OrderKept DEF InitClear
  <2>4. QED BY <2>1, <2>2, <2>3
<1>6. CASE InitSpawn(t)
  <2>0. /\ making[t] \in Task
        /\ generation[making[t]] \in 1..MaxGen
        /\ <<making[t], generation[making[t]]>> \in Thread
        /\ pc[<<making[t], generation[making[t]]>>] = "none"
    BY <1>6, ThreadPairs DEF InitSpawn, Gens
  <2>1. TypeOK' BY <1>6, <2>0 DEF InitSpawn
  <2>2. LockInv' BY <1>6 DEF InitSpawn
  <2>3. OccupantsInOrder'
    <3>1. \A u \in Thread : pc'[u] \notin {"clear", "spawn"}
      BY <1>6, <2>0 DEF InitSpawn
    <3>2. \A i \in Task, g \in 1..MaxGen : g > generation[i] =>
              /\ pc'[<<i, g>>] = pc[<<i, g>>]
              /\ generation'[i] = generation[i]
      <4>1. \A i \in Task, g \in 1..MaxGen : g > generation[i] =>
              <<i, g>> # t /\ <<i, g>> # <<making[t], generation[making[t]]>>
        BY <1>6, <2>0 DEF InitSpawn
      <4>2. QED BY <1>6, <4>1, ThreadPairs DEF InitSpawn
    <3>3. generation' = generation /\ \A i \in Task, g \in 1..MaxGen :
              g > generation[i] => pc[<<i, g>>] = "none"
      BY <1>6 DEF InitSpawn
    <3>4. \A i \in Task, g \in 1..MaxGen : g > generation'[i] => pc'[<<i, g>>] = "none"
      <4> HIDE DEF TypeOK, OccupantsInOrder, LockInv
      <4>1. QED BY <3>2, <3>3
    <3>5. QED
      <4> HIDE DEF TypeOK, LockInv
      <4>1. QED BY <3>1, <3>4, Zenon
  <2>4. QED BY <2>1, <2>2, <2>3
<1> QED BY <1>1, <1>2, <1>3, <1>4, <1>5, <1>6

\* The yielding half of switch_now.
LEMMA SwitchSteps ==
    ASSUME IInv, NEW t \in Thread,
           \/ PendSwitch(t)
           \/ \E n \in Task : SwitchAsk(t, n)
           \/ SwitchLock(t)
           \/ SwitchGrant(t)
           \/ SwitchSignal(t)
           \/ SwitchRelease(t)
    PROVE IInv'
<1> USE HostConstants, HostThreadNames
     DEF IInv, LockInv, OwnerIsInside, FrozenOutside, SwitchDepth, InTickIsLocked,
         OccupantsInOrder, TypeOK, SwitchPcs, Pc, LockedPcs, ParkPcs, FreePcs, TickPc,
         TickLockedPcs, BootPc, At, Goto, Acquire, Release, statics, lockVars, slotVars,
         frameVars, tickVars, bootVars, kernelVars
<1>1. CASE PendSwitch(t) BY <1>1 DEF PendSwitch
<1>2. ASSUME NEW n \in Task, SwitchAsk(t, n) PROVE IInv'
  <2>1. TypeOK'
    <3> HIDE DEF LockInv, OccupantsInOrder
    <3>1. pc' \in [Thread -> Pc] BY <1>2 DEF SwitchAsk
    <3>2. mine' \in [Thread -> Task] /\ next' \in [Thread -> Task \cup {NO_TASK}]
      <4>1. \/ UNCHANGED <<mine, next>>
            \/ /\ CURRENT \in Task
               /\ mine' = [mine EXCEPT ![t] = CURRENT]
               /\ next' = [next EXCEPT ![t] = n]
        BY <1>2 DEF SwitchAsk
      <4>2. QED BY <4>1
    <3>3. /\ CURRENT' \in Task /\ owner' \in Thread /\ nesting' = 1
          /\ UNCHANGED <<suspended, PENDING, IN_TICK, slotVars, mygen, depth, tickVars,
               bootVars, making, kernelVars>>
      BY <1>2 DEF SwitchAsk
    <3>4. QED BY <3>1, <3>2, <3>3
  <2>2. LockInv' BY <1>2 DEF SwitchAsk
  <2>3. OccupantsInOrder'
    <3>1. \A u \in Thread : /\ pc[u] = "none" => pc'[u] = "none"
                            /\ pc'[u] \in {"clear", "spawn"} => pc[u] \in {"clear", "spawn"}
      BY <1>2 DEF SwitchAsk
    <3>2. QED BY <1>2, <3>1, OrderKept DEF SwitchAsk
  <2>4. QED BY <2>1, <2>2, <2>3
<1>3. CASE SwitchLock(t) BY <1>3 DEF SwitchLock
<1>4. CASE SwitchGrant(t)
  <2>1. TypeOK'
    <3> HIDE DEF LockInv, OccupantsInOrder
    <3>1. pc' \in [Thread -> Pc] BY <1>4 DEF SwitchGrant
    <3>2. suspended' \subseteq Thread /\ frozen' \in [Task -> BOOLEAN]
      BY <1>4 DEF SwitchGrant, GrantSwap, Thawed
    <3>3. QED BY <1>4, <3>1, <3>2 DEF SwitchGrant
  <2>2. LockInv' BY <1>4 DEF SwitchGrant, GrantSwap, Thawed
  <2>3. OccupantsInOrder' BY <1>4 DEF SwitchGrant, GrantSwap, Thawed
  <2>4. QED BY <2>1, <2>2, <2>3
<1>5. CASE SwitchSignal(t)
  <2>1. TypeOK'
    <3> HIDE DEF LockInv, OccupantsInOrder
    <3>1. pc' \in [Thread -> Pc] BY <1>5, NotifiedMoves DEF SwitchSignal
    <3>2. granted' \in [Task -> BOOLEAN] BY <1>5 DEF SwitchSignal, GrantSet
    <3>3. QED BY <1>5, <3>1, <3>2 DEF SwitchSignal
  <2>2. LockInv' BY <1>5 DEF SwitchSignal, GrantSet, Notified
  <2>3. OccupantsInOrder'
    <3>1. \A u \in Thread : /\ pc[u] = "none" => pc'[u] = "none"
                            /\ pc'[u] \in {"clear", "spawn"} => pc[u] \in {"clear", "spawn"}
      BY <1>5, NotifiedMoves DEF SwitchSignal
    <3>2. QED BY <1>5, <3>1, OrderKept DEF SwitchSignal
  <2>4. QED BY <2>1, <2>2, <2>3
<1>6. CASE SwitchRelease(t) BY <1>6 DEF SwitchRelease
<1> QED BY <1>1, <1>2, <1>3, <1>4, <1>5, <1>6

\* The parked half, and the way back.
LEMMA PermitSteps ==
    ASSUME IInv, NEW t \in Thread,
           \/ PermitLock(t)
           \/ PermitTake(t)
           \/ PermitWait(t)
           \/ SpuriousWake(t)
           \/ SwitchReacquire(t)
           \/ SwitchExit(t)
    PROVE IInv'
<1> USE HostConstants, HostThreadNames
     DEF IInv, LockInv, OwnerIsInside, FrozenOutside, SwitchDepth, InTickIsLocked,
         OccupantsInOrder, TypeOK, SwitchPcs, Pc, LockedPcs, ParkPcs, FreePcs, TickPc,
         TickLockedPcs, BootPc, At, Goto, Acquire, Release, statics, lockVars, slotVars,
         frameVars, tickVars, bootVars, kernelVars
<1>1. CASE PermitLock(t) BY <1>1 DEF PermitLock
<1>2. CASE PermitTake(t) BY <1>2 DEF PermitTake
<1>3. CASE PermitWait(t) BY <1>3 DEF PermitWait
<1>4. CASE SpuriousWake(t) BY <1>4 DEF SpuriousWake
<1>5. CASE SwitchReacquire(t) BY <1>5 DEF SwitchReacquire
<1>6. CASE SwitchExit(t)
  <2>1. TypeOK' BY <1>6 DEF SwitchExit
  <2>2. LockInv' BY <1>6 DEF SwitchExit
  <2>3. OccupantsInOrder' BY <1>6 DEF SwitchExit
  <2>4. QED BY <2>1, <2>2, <2>3
<1> QED BY <1>1, <1>2, <1>3, <1>4, <1>5, <1>6

\* start_first_task.
LEMMA BootSteps == ASSUME IInv, BootStep PROVE IInv'
<1> USE HostConstants, HostThreadNames
     DEF IInv, LockInv, OwnerIsInside, FrozenOutside, SwitchDepth, InTickIsLocked,
         OccupantsInOrder, TypeOK, SwitchPcs, Pc, LockedPcs, ParkPcs, FreePcs, TickPc,
         TickLockedPcs, BootPc, At, Goto, Acquire, Release, statics, lockVars, slotVars,
         frameVars, tickVars, bootVars, kernelVars
<1>1. CASE \E i \in Task : StartStore(i) BY <1>1 DEF StartStore
<1>2. CASE StartGrant
  <2>1. TypeOK' BY <1>2 DEF StartGrant, GrantSwap, Thawed
  <2>2. LockInv' BY <1>2 DEF StartGrant, GrantSwap, Thawed
  <2>3. OccupantsInOrder' BY <1>2 DEF StartGrant, GrantSwap, Thawed
  <2>4. QED BY <2>1, <2>2, <2>3
<1>3. CASE StartSignal
  <2>1. TypeOK' BY <1>3 DEF StartSignal, GrantSet, Notified
  <2>2. LockInv' BY <1>3 DEF StartSignal, GrantSet, Notified
  <2>3. OccupantsInOrder'
    <3>1. \A u \in Thread : /\ pc[u] = "none" => pc'[u] = "none"
                            /\ pc'[u] \in {"clear", "spawn"} => pc[u] \in {"clear", "spawn"}
      BY <1>3, NotifiedMoves DEF StartSignal
    <3>2. QED BY <1>3, <3>1, OrderKept DEF StartSignal
  <2>4. QED BY <2>1, <2>2, <2>3
<1> QED BY <1>1, <1>2, <1>3 DEF BootStep

\* Ticker::interrupt.
LEMMA TickSteps == ASSUME IInv, TickStep PROVE IInv'
<1> USE HostConstants, HostThreadNames
     DEF IInv, LockInv, OwnerIsInside, FrozenOutside, SwitchDepth, InTickIsLocked,
         OccupantsInOrder, TypeOK, SwitchPcs, Pc, LockedPcs, ParkPcs, FreePcs, TickPc,
         TickLockedPcs, BootPc, At, Goto, Acquire, Release, statics, lockVars, slotVars,
         frameVars, tickVars, bootVars, kernelVars
<1>1. CASE TickEnter BY <1>1 DEF TickEnter
<1>2. CASE FreezeRunning BY <1>2 DEF FreezeRunning
<1>3. CASE FreezeDeclines BY <1>3 DEF FreezeDeclines
<1>4. CASE \E woken \in SUBSET Task, n \in Task : TickAsk(woken, n)
  BY <1>4 DEF TickAsk, OnTick
<1>5. CASE \E woken \in SUBSET Task : TickKeep(woken) BY <1>5 DEF TickKeep, OnTick
<1>6. CASE TickExit BY <1>6 DEF TickExit
<1>7. CASE TickResume BY <1>7 DEF TickResume, TickReturn, Thawed
<1>8. CASE TickGrantThaw BY <1>8 DEF TickGrantThaw, TickReturn, GrantSwap, Thawed
<1>9. CASE TickGrantSwap BY <1>9 DEF TickGrantSwap
<1>10. CASE TickGrantSet
  <2>1. TypeOK' BY <1>10 DEF TickGrantSet, TickReturn, GrantSet, Notified
  <2>2. LockInv' BY <1>10 DEF TickGrantSet, TickReturn, GrantSet, Notified
  <2>3. OccupantsInOrder'
    <3>1. \A u \in Thread : /\ pc[u] = "none" => pc'[u] = "none"
                            /\ pc'[u] \in {"clear", "spawn"} => pc[u] \in {"clear", "spawn"}
      BY <1>10, NotifiedMoves DEF TickGrantSet
    <3>2. QED BY <1>10, <3>1, OrderKept DEF TickGrantSet
  <2>4. QED BY <2>1, <2>2, <2>3
<1> QED BY <1>1, <1>2, <1>3, <1>4, <1>5, <1>6, <1>7, <1>8, <1>9, <1>10 DEF TickStep

\* Every step keeps the invariant.
LEMMA NextHolds == IInv /\ [Next]_vars => IInv'
<1> SUFFICES ASSUME IInv, [Next]_vars PROVE IInv' OBVIOUS
<1>1. ASSUME NEW t \in Thread, TaskStep(t) PROVE IInv'
  BY <1>1, CriticalSteps, KernelSteps, SwitchSteps, PermitSteps DEF TaskStep
<1>2. CASE BootStep BY <1>2, BootSteps
<1>3. CASE TickStep BY <1>3, TickSteps
<1>4. CASE UNCHANGED vars
  BY <1>4
  DEF vars, IInv, TypeOK, LockInv, SwitchDepth, OwnerIsInside, FrozenOutside,
     InTickIsLocked, OccupantsInOrder, statics, lockVars, slotVars, frameVars, tickVars, bootVars,
     kernelVars
<1>5. QED BY <1>1, <1>2, <1>3, <1>4 DEF Next

\* The inductive invariant holds in every behaviour of the port.
LEMMA InvariantHolds == Spec => []IInv
<1> QED BY InitHolds, NextHolds, PTL DEF Spec

\* Every variable of the host port keeps its type, whatever the tasks do and
\* whenever the tick falls.
THEOREM TypeCorrect == Spec => []TypeOK
<1>1. IInv => TypeOK BY DEF IInv
<1>2. QED BY <1>1, InvariantHolds, PTL

\* The tick never freezes the owner of CRITICAL: Ticker::interrupt holds the
\* lock while it freezes, and a thread frozen outside it stays outside.
THEOREM NoFrozenOwner == Spec => []FrozenOwnsNothing
<1>1. IInv => FrozenOwnsNothing
  BY HostThreadNames
  DEF IInv, TypeOK, LockInv, SwitchDepth, OwnerIsInside, FrozenOutside, FrozenOwnsNothing
<1>2. QED BY <1>1, InvariantHolds, PTL

\* in_isr() is false in every kernel call a task makes: a task inside CRITICAL
\* keeps the tick thread out of it, and IN_TICK is up only in there.
THEOREM TaskCallsNotInIsr == Spec => []InIsrIsTheTick
<1>1. IInv => InIsrIsTheTick
  BY HostThreadNames
  DEF IInv, LockInv, OwnerIsInside, InTickIsLocked, InIsrIsTheTick, LockedPcs
<1>2. QED BY <1>1, InvariantHolds, PTL

-----------------------------------------------------------------------------
(* The run permit: who has it, who is frozen with it, who is handing it    *)
(* on.  Everything from here on supposes that no tick falls before         *)
(* start_first_task has granted: with one, two threads can be on the CPU.  *)

\* The thread is the occupant its slot has now.
Present(t) == t[2] = generation[t[1]]

\* The thread is inside init_task.
Making(t) == pc[t] \in {"clear", "spawn"}

\* The ticker waits for the first grant.
StartedFirst ==
    /\ ~TickBeforeStart
    /\ bootPc # "asleep" => tickPc = "idle"

\* switch_now's locals name the thread they belong to.
OwnLocals == \A t \in Thread : mine[t] = t[1] /\ mygen[t] = t[2]

\* The handle in slot i is that of a live thread, the occupant of now.
Hands(i) ==
    /\ os_thread[i] \in Thread /\ os_thread[i][1] = i
    /\ Present(os_thread[i]) /\ pc[os_thread[i]] # "none"

\* So it is in the slot of every task alive and of the current one, which a
\* task deletes only with the handle kept, unless its init_task is under way.
HandlesMatch ==
    /\ ready \subseteq alive
    /\ \A i \in Task : i \in alive \/ i = CURRENT =>
        Hands(i) \/ (owner \in Thread /\ Making(owner) /\ making[owner] = i)

\* A slot that init_task is about to fill is not current and carries nothing
\* of its last occupant.
SlotsReused ==
    /\ \A i \in Task : generation[i] = 0 => ~granted[i] /\ ~frozen[i]
    /\ \A t \in Thread : Making(t) => making[t] # CURRENT
    /\ \A t \in Thread : pc[t] = "spawn" => ~granted[making[t]] /\ ~frozen[making[t]]

\* `frozen` says of the occupant of now that the OS holds it; and whoever is
\* held was held with the permit, or with a grant on its way to it.
FrozenOccupants ==
    /\ \A t \in suspended : pc[t] # "none"
    /\ \A t \in suspended : Present(t) => frozen[t[1]]
    /\ \A t \in Thread : Present(t) /\ pc[t] # "none" /\ frozen[t[1]] =>
        t \in suspended /\ (granted[t[1]] \/ pc[t] \in PermitPcs)

\* A grant stands for the current task or for a frozen one, and its thread is
\* parked.
GrantsForParked ==
    /\ \A i \in Task : granted[i] => i = CURRENT \/ frozen[i]
    /\ \A t \in Thread : granted[t[1]] /\ Present(t) /\ pc[t] # "none" => pc[t] \in ParkPcs

\* A thread on the CPU is an occupant of now, the current task's unless it is
\* handing the permit over; nobody is on it while the tick holds one frozen.
OnCpuIsCurrent ==
    /\ \A t \in Thread : OnCpu(t) =>
        /\ Present(t) /\ ~froze /\ bootPc = "asleep"
        /\ HandingOver(t) \/ t[1] = CURRENT
    /\ \A t \in Thread : pc[t] = "sw_release" =>
        Present(t) /\ t[1] # CURRENT /\ bootPc = "asleep"

\* Slot i does not run: its permit is frozen with its thread, or nowhere.
Idles(i) ==
    \/ frozen[i]
    \/ /\ ~granted[i]
       /\ \A u \in Thread : u[1] = i /\ Present(u) => pc[u] \in ParkPcs

\* A yielding thread grants to the task that became current, which idles.
HandoverTarget ==
    \A t \in Thread : HandingOver(t) =>
        /\ next[t] = CURRENT /\ t[1] # CURRENT
        /\ Idles(CURRENT)
        /\ pc[t] = "sw_signal" => ~frozen[CURRENT]

\* Ticker::interrupt's locals: what it froze is still frozen and still has its
\* thread, and what it will grant to is the current task, which idles.
TickTurn ==
    /\ tickPc \in {"idle", "freeze"} => ~froze
    /\ tickPc = "signal" => froze
    /\ ~froze /\ tickPc = "ontick" => running = CURRENT
    /\ ~froze /\ tickPc \in {"exit", "after"} => tnext = running
    /\ froze => /\ running \in Task /\ frozen[running]
                /\ os_thread[running] \in Thread /\ os_thread[running][1] = running
                /\ Present(os_thread[running])
                /\ tickPc = "ontick" => running = CURRENT
                /\ tickPc \in {"exit", "after", "signal"} => tnext = CURRENT
                /\ Idles(CURRENT)
                /\ tickPc = "signal" => ~frozen[CURRENT]

\* Until start_first_task is done nothing is granted and nothing frozen.
BeforeStart ==
    /\ bootPc = "boot" <=> CURRENT = NO_TASK
    /\ bootPc # "asleep" => /\ \A i \in Task : ~granted[i] /\ ~frozen[i]
                            /\ suspended = {}
                            /\ bootPc # "boot" => first = CURRENT

\* No handover is under way: not a tick's, not a thread's.
Settled == bootPc = "asleep" /\ ~froze /\ \A t \in Thread : ~HandingOver(t)

\* Then the current task has the permit, or a grant of it.
CurrentHasPermit ==
    Settled =>
        /\ ~frozen[CURRENT]
        /\ \A u \in Thread : u[1] = CURRENT /\ Present(u) =>
            granted[CURRENT] \/ pc[u] \in PermitPcs

PermitInv ==
    /\ StartedFirst /\ OwnLocals /\ HandlesMatch /\ SlotsReused /\ FrozenOccupants
    /\ GrantsForParked /\ OnCpuIsCurrent /\ HandoverTarget /\ TickTurn
    /\ BeforeStart /\ CurrentHasPermit

\* Where a thread is with the permit and changes nobody else's.
PlainPcs == PermitPcs \ {"sw_lock", "sw_grant", "sw_signal", "clear", "spawn"}

\* A thread is its slot and its occupant.
LEMMA ThreadParts ==
    /\ \A t \in Thread : t[1] \in Task /\ t[2] \in 1..MaxGen /\ t[2] \in Nat
    /\ \A t, u \in Thread : t[1] = u[1] /\ t[2] = u[2] => t = u
BY HostConstants DEF Thread

\* Two present occupants of a slot are one.
LEMMA SameOccupant ==
    \A t, u \in Thread : t[1] = u[1] /\ Present(t) /\ Present(u) => t = u
BY ThreadParts DEF Present

\* The current task has its thread, and its slot the thread's handle.
LEMMA CurrentHands ==
    ASSUME TypeOK, PermitInv, CURRENT # NO_TASK
    PROVE  CURRENT \in Task /\ Hands(CURRENT)
BY HostConstants DEF TypeOK, PermitInv, HandlesMatch, SlotsReused, Making

\* So has every ready task, unless it is being made.
LEMMA ReadyHands ==
    ASSUME TypeOK, PermitInv, NEW n \in ready, \A u \in Thread : owner = u => ~Making(u)
    PROVE  n \in Task /\ Hands(n)
BY DEF TypeOK, PermitInv, HandlesMatch

USE HostThreadNames, ThreadParts
    DEF PermitInv, IInv, TypeOK, LockInv, OwnerIsInside, FrozenOutside, Present, PermitPcs,
        LockedPcs, ParkPcs, FreePcs, TickPc, TickLockedPcs, BootPc, Pc, OnCpu, HandingOver,
        At, Goto, statics, lockVars, slotVars, frameVars, tickVars, bootVars, kernelVars

\* Deleting a task: only the caller's own handle is kept, and it is the current one.
LEMMA KernelDeleteKeeps ==
    ASSUME IInv, IInv', PermitInv, NEW t \in Thread, NEW j \in Task, NEW b \in BOOLEAN,
           KernelDelete(t, j, b)
    PROVE  PermitInv'
<1> USE DEF KernelDelete
<1>1. t[1] = CURRENT /\ owner = t /\ ~Making(t) /\ ~froze BY DEF OnCpuIsCurrent, Making
<1>2. StartedFirst' BY DEF StartedFirst
<1>3. OwnLocals' BY DEF OwnLocals
<1>4. HandlesMatch' BY <1>1 DEF HandlesMatch, Hands, Making
<1>5. SlotsReused' BY DEF SlotsReused, Making
<1>6. FrozenOccupants' BY DEF FrozenOccupants
<1>7. GrantsForParked' BY DEF GrantsForParked
<1>8. OnCpuIsCurrent' BY DEF OnCpuIsCurrent
<1>9. HandoverTarget' BY DEF HandoverTarget, Idles
<1>10. TickTurn' BY <1>1 DEF TickTurn, Idles
<1>11. BeforeStart' BY DEF BeforeStart, StartedFirst
<1>12. CurrentHasPermit' BY DEF CurrentHasPermit, Settled
<1> QED
  BY <1>2, <1>3, <1>4, <1>5, <1>6, <1>7, <1>8, <1>9, <1>10, <1>11, <1>12 DEF PermitInv

\* A slot bumped to a new occupant is not the current one: nobody of it is on the
\* CPU, and the thread that init_task will spawn does not exist yet.
LEMMA KernelCreateKeeps ==
    ASSUME IInv, IInv', PermitInv, NEW t \in Thread, NEW j \in Task,
           KernelCreate(t, j)
    PROVE  PermitInv'
<1> USE DEF KernelCreate
<1>1. /\ t[1] = CURRENT /\ owner = t /\ j # CURRENT /\ pc[t] = "crit" /\ ~froze
      /\ generation' = [generation EXCEPT ![j] = generation[j] + 1]
  BY DEF OnCpuIsCurrent
<1>2. \A u \in Thread : u # t => ~Making(u) /\ ~HandingOver(u) /\ pc[u] # "sw_release"
  BY <1>1 DEF Making
<1>3. generation[j] \in Nat BY DEF Gens
<1>4. \A u \in Thread : u[1] = j /\ Present(u)' =>
            pc[u] = "none" /\ ~Present(u) /\ u # t
  BY <1>1, <1>3 DEF OccupantsInOrder, Thread
<1>5. \A u \in Thread : u[1] # j => (Present(u)' <=> Present(u)) BY <1>1
<1>6. \A u \in Thread : u[1] = j => ~OnCpu(u) BY <1>1, <1>2 DEF OnCpuIsCurrent
<1>7. StartedFirst' BY DEF StartedFirst
<1>8. OwnLocals' BY DEF OwnLocals
<1>9. HandlesMatch' BY DEF HandlesMatch, Hands, Making
<1>10. SlotsReused' BY <1>3 DEF SlotsReused, Making
<1>11. FrozenOccupants' BY <1>4 DEF FrozenOccupants
<1>12. GrantsForParked' BY <1>4 DEF GrantsForParked
<1>13. OnCpuIsCurrent' BY DEF OnCpuIsCurrent
<1>14. HandoverTarget' BY DEF HandoverTarget, Idles
<1>15. TickTurn' BY <1>1 DEF TickTurn, Idles
<1>16. BeforeStart' BY DEF BeforeStart, StartedFirst
<1>17. CurrentHasPermit' BY DEF CurrentHasPermit, Settled
<1> QED
  BY <1>7, <1>8, <1>9, <1>10, <1>11, <1>12, <1>13, <1>14, <1>15, <1>16,
     <1>17 DEF PermitInv

\* The grant and the freeze that are cleared are those of an occupant who is gone.
LEMMA InitClearKeeps ==
    ASSUME IInv, IInv', PermitInv, NEW t \in Thread,
           InitClear(t)
    PROVE  PermitInv'
<1> USE DEF InitClear, Notified
<1>1. /\ making[t] \in Task /\ making[t] # CURRENT /\ pc[t] = "clear"
      /\ pc[<<making[t], generation[making[t]]>>] = "none"
  BY DEF SlotsReused, OccupantsInOrder, Making
<1>2. t[1] = CURRENT /\ ~froze BY <1>1 DEF OnCpuIsCurrent
<1>3. \A u \in Thread : u[1] = making[t] /\ Present(u) =>
            u = <<making[t], generation[making[t]]>>
  BY <1>1 DEF Thread
<1>4. \A u \in Thread : u[1] = making[t] /\ Present(u) => pc[u] = "none" BY <1>1, <1>3
<1>5. StartedFirst' BY DEF StartedFirst
<1>6. OwnLocals' BY DEF OwnLocals
<1>7. HandlesMatch' BY DEF HandlesMatch, Hands, Making
<1>8. SlotsReused' BY DEF SlotsReused, Making
<1>9. FrozenOccupants'
  <2>1. \A u \in Thread : /\ pc[u] = "none" <=> pc'[u] = "none"
                          /\ pc[u] \in PermitPcs => pc'[u] \in PermitPcs
    BY <1>1
  <2>2. \A u \in Thread : Present(u) /\ pc[u] # "none" =>
            frozen'[u[1]] = frozen[u[1]] /\ granted'[u[1]] = granted[u[1]]
    BY <1>1, <1>4
  <2>3. /\ FrozenOccupants /\ suspended \subseteq Thread
        /\ suspended' = suspended /\ generation' = generation
    OBVIOUS
  <2>4. QED BY ONLY <2>1, <2>2, <2>3 DEF FrozenOccupants, Present
<1>10. GrantsForParked' BY DEF GrantsForParked
<1>11. OnCpuIsCurrent' BY DEF OnCpuIsCurrent
<1>12. HandoverTarget' BY DEF HandoverTarget, Idles
<1>13. TickTurn' BY <1>2 DEF TickTurn, Idles
<1>14. BeforeStart' BY DEF BeforeStart, StartedFirst
<1>15. CurrentHasPermit' BY <1>1 DEF CurrentHasPermit, Settled
<1> QED
  BY <1>5, <1>6, <1>7, <1>8, <1>9, <1>10, <1>11, <1>12, <1>13, <1>14,
     <1>15 DEF PermitInv

\* The new thread parks with no grant and no freeze, and its handle is stored.
LEMMA InitSpawnKeeps ==
    ASSUME IInv, IInv', PermitInv, NEW t \in Thread,
           InitSpawn(t)
    PROVE  PermitInv'
<1> USE DEF InitSpawn
<1>1. /\ making[t] \in Task /\ making[t] # CURRENT /\ pc[t] = "spawn"
      /\ ~granted[making[t]] /\ ~frozen[making[t]]
      /\ generation[making[t]] > 0
      /\ pc[<<making[t], generation[making[t]]>>] = "none"
  BY DEF SlotsReused, OccupantsInOrder, Making
<1>2. t[1] = CURRENT /\ ~froze /\ bootPc = "asleep" BY <1>1 DEF OnCpuIsCurrent
<1>3. generation[making[t]] \in 1..MaxGen BY <1>1, HostConstants DEF Gens
<1>4. <<making[t], generation[making[t]]>> \in Thread BY <1>1, <1>3 DEF Thread
<1>5. \A u \in Thread : u[1] = making[t] /\ Present(u) =>
            u = <<making[t], generation[making[t]]>>
  BY <1>1 DEF Thread
<1>6. StartedFirst' BY DEF StartedFirst
<1>7. OwnLocals' BY DEF OwnLocals
<1>8. HandlesMatch' BY DEF HandlesMatch, Hands, Making
<1>9. SlotsReused' BY DEF SlotsReused, Making
<1>10. FrozenOccupants' BY <1>1 DEF FrozenOccupants
<1>11. GrantsForParked' BY DEF GrantsForParked
<1>12. OnCpuIsCurrent' BY DEF OnCpuIsCurrent
<1>13. HandoverTarget' BY DEF HandoverTarget, Idles
<1>14. TickTurn' BY DEF TickTurn, Idles
<1>15. BeforeStart' BY DEF BeforeStart, StartedFirst
<1>16. CurrentHasPermit' BY <1>1 DEF CurrentHasPermit, Settled
<1> QED
  BY <1>6, <1>7, <1>8, <1>9, <1>10, <1>11, <1>12, <1>13, <1>14, <1>15,
     <1>16 DEF PermitInv

\* The scheduler names another task: it was idle, the lock being free before.
LEMMA SwitchAskKeeps ==
    ASSUME IInv, IInv', PermitInv, NEW t \in Thread, NEW n \in Task,
           SwitchAsk(t, n), n # CURRENT
    PROVE  PermitInv'
<1> USE DEF SwitchAsk, Acquire
<1>1. /\ t[1] = CURRENT
      /\ bootPc = "asleep"
      /\ Present(t)
      /\ ~froze
      /\ t[1] \in Task
      /\ ~granted[t[1]]
      /\ ~frozen[t[1]]
      /\ pc[t] = "sw_enter" /\ CURRENT # NO_TASK
  BY HostConstants DEF OnCpuIsCurrent, FrozenOccupants, GrantsForParked
<1>2. /\ pc' = [pc EXCEPT ![t] = "sw_lock"] /\ CURRENT' = n
      /\ mine' = [mine EXCEPT ![t] = CURRENT] /\ next' = [next EXCEPT ![t] = n]
  BY <1>1
<1>3. /\ t[1] = CURRENT
      /\ bootPc = "asleep"
      /\ Present(t)
      /\ ~froze
      /\ t[1] \in Task
      /\ ~granted[t[1]]
      /\ ~frozen[t[1]]
      /\ pc[t] = "sw_enter" /\ pc' = [pc EXCEPT ![t] = "sw_lock"] /\ CURRENT' = n
      /\ mine' = [mine EXCEPT ![t] = CURRENT] /\ next' = [next EXCEPT ![t] = n]
  BY <1>1, <1>2
<1>4. \A u \in Thread : ~HandingOver(u) /\ pc[u] # "sw_release" /\ ~Making(u)
  BY DEF Making
<1>5. \A u \in Thread : u # t => ~OnCpu(u)
  BY <1>3, <1>4, SameOccupant DEF OnCpuIsCurrent
<1>6. Hands(n) BY <1>4, ReadyHands DEF Making
<1>7. frozen[n] \/ ~granted[n] BY DEF GrantsForParked
<1>8. \A u \in Thread : u[1] = n /\ Present(u) => u = os_thread[n]
  BY <1>6, SameOccupant DEF Hands
<1>9. frozen[n] \/ pc[os_thread[n]] \in ParkPcs
  BY <1>3, <1>4, <1>5, <1>6 DEF Hands, FrozenOccupants, Making
<1>10. Idles(n) BY <1>6, <1>7, <1>8, <1>9 DEF Idles
<1>11. StartedFirst' BY DEF StartedFirst
<1>12. OwnLocals' BY <1>3 DEF OwnLocals
<1>13. HandlesMatch' BY DEF HandlesMatch, Hands, Making
<1>14. SlotsReused' BY DEF SlotsReused, Making
<1>15. FrozenOccupants' BY DEF FrozenOccupants
<1>16. GrantsForParked' BY <1>3 DEF GrantsForParked
<1>17. OnCpuIsCurrent' BY <1>3 DEF OnCpuIsCurrent
<1>18. HandoverTarget' BY <1>3, <1>10 DEF HandoverTarget, Idles
<1>19. TickTurn' BY <1>3 DEF TickTurn, Idles
<1>20. BeforeStart' BY <1>3, HostConstants DEF BeforeStart, StartedFirst
<1>21. CurrentHasPermit' BY <1>3 DEF CurrentHasPermit, Settled
<1> QED
  BY <1>11, <1>12, <1>13, <1>14, <1>15, <1>16, <1>17, <1>18, <1>19, <1>20,
     <1>21 DEF PermitInv

\* The thread remembers its own generation.
LEMMA SwitchLockKeeps ==
    ASSUME IInv, IInv', PermitInv, NEW t \in Thread,
           SwitchLock(t)
    PROVE  PermitInv'
<1> USE DEF SwitchLock
<1>1. StartedFirst' BY DEF StartedFirst
<1>2. OwnLocals' BY DEF OwnLocals, OnCpuIsCurrent
<1>3. HandlesMatch' BY DEF HandlesMatch, Hands, Making
<1>4. SlotsReused' BY DEF SlotsReused, Making
<1>5. FrozenOccupants' BY DEF FrozenOccupants
<1>6. GrantsForParked' BY DEF GrantsForParked
<1>7. OnCpuIsCurrent' BY DEF OnCpuIsCurrent
<1>8. HandoverTarget' BY DEF HandoverTarget, Idles
<1>9. TickTurn' BY DEF TickTurn, Idles
<1>10. BeforeStart' BY DEF BeforeStart, StartedFirst
<1>11. CurrentHasPermit' BY DEF CurrentHasPermit, Settled
<1> QED
  BY <1>1, <1>2, <1>3, <1>4, <1>5, <1>6, <1>7, <1>8, <1>9, <1>10, <1>11 DEF PermitInv

\* grant by the yielding thread, first half.
LEMMA SwitchGrantKeeps ==
    ASSUME IInv, IInv', PermitInv, NEW t \in Thread,
           SwitchGrant(t)
    PROVE  PermitInv'
<1> USE DEF SwitchGrant, GrantSwap, Thawed
<1>1. /\ pc[t] = "sw_grant"
      /\ next[t] = CURRENT
      /\ t[1] # CURRENT
      /\ owner = t
      /\ Present(t)
      /\ ~froze
      /\ t[1] \in Task
      /\ ~frozen[t[1]] /\ ~granted[t[1]] /\ bootPc = "asleep"
  BY DEF HandoverTarget, OnCpuIsCurrent, FrozenOccupants, GrantsForParked
<1>2. CURRENT \in Task /\ Hands(CURRENT) BY <1>1, CurrentHands DEF BeforeStart
<1>3. \A u \in Thread : u[1] = CURRENT /\ Present(u) => u = os_thread[CURRENT]
  BY <1>2, SameOccupant DEF Hands
<1>4. \A u \in Thread : u # t => ~HandingOver(u) /\ pc[u] # "sw_release" /\ ~Making(u)
  BY <1>1 DEF Making
<1>5. \A u \in Thread : OnCpu(u) /\ ~HandingOver(u) => u = os_thread[CURRENT]
  BY <1>3 DEF OnCpuIsCurrent
<1>6. \A u \in Thread : u # t => ~OnCpu(u)
  BY <1>1, <1>2, <1>4, <1>5 DEF HandoverTarget, Idles, FrozenOccupants, OnCpuIsCurrent

<1>7. /\ frozen' = [frozen EXCEPT ![CURRENT] = FALSE]
      /\ suspended' = IF frozen[CURRENT] THEN suspended \ {os_thread[CURRENT]} ELSE suspended
      /\ pc' = [pc EXCEPT ![t] = IF frozen[CURRENT] THEN "sw_release" ELSE "sw_signal"]
      /\ UNCHANGED <<statics, granted, os_thread, generation, next, tickVars, bootVars>>
  <2>1. next[t] = CURRENT /\ SwitchGrant(t) BY <1>1
  <2>2. QED BY ONLY <2>1 DEF SwitchGrant, GrantSwap, Thawed, Goto, frameVars
<1>8. frozen[CURRENT] => granted[CURRENT] \/ pc[os_thread[CURRENT]] \in PermitPcs
  BY <1>2 DEF Hands, FrozenOccupants
<1>9. StartedFirst' BY DEF StartedFirst
<1>10. OwnLocals' BY DEF OwnLocals
<1>11. HandlesMatch' BY DEF HandlesMatch, Hands, Making
<1>12. SlotsReused' BY DEF SlotsReused, Making
<1>13. FrozenOccupants'
  <2>0. frozen \in [Task -> BOOLEAN] /\ pc \in [Thread -> Pc] OBVIOUS
  <2> HIDE DEF IInv, PermitInv
  <2>1. CASE frozen[CURRENT]
    <3>1. /\ suspended' = suspended \ {os_thread[CURRENT]}
          /\ pc' = [pc EXCEPT ![t] = "sw_release"]
      BY <1>1, <1>2, <1>3, <1>4, <1>5, <1>6, <1>7, <1>8, <2>0, <2>1
    <3>2. FrozenOccupants /\ t \in Thread /\ t # os_thread[CURRENT]
      BY <1>1, <1>2, <1>3, <1>4, <1>5, <1>6, <1>7, <1>8 DEF PermitInv, Hands
    <3>3. ASSUME NEW u \in Thread PROVE
             /\ u \in suspended' => pc'[u] # "none"
             /\ u \in suspended' /\ Present(u)' => frozen'[u[1]]
             /\ Present(u)' /\ pc'[u] # "none" /\ frozen'[u[1]] =>
                   u \in suspended' /\ (granted'[u[1]] \/ pc'[u] \in PermitPcs)
      <4>1. Present(u)' <=> Present(u) BY <1>1, <1>2, <1>3, <1>4, <1>5, <1>6, <1>7, <1>8
      <4>2. CASE u = t
        BY <1>1, <1>2, <1>3, <1>4, <1>5, <1>6, <1>7, <1>8, <2>0, <3>1, <3>2, <4>1,
           <4>2 DEF FrozenOccupants
      <4>3. CASE u = os_thread[CURRENT]
        BY <1>1, <1>2, <1>3, <1>4, <1>5, <1>6, <1>7, <1>8, <2>0, <3>1, <3>2, <4>1,
           <4>3 DEF FrozenOccupants, Hands
      <4>4. CASE u # t /\ u # os_thread[CURRENT]
        BY <1>1, <1>2, <1>3, <1>4, <1>5, <1>6, <1>7, <1>8, <2>0, <3>1, <3>2, <4>1,
           <4>4 DEF FrozenOccupants, Hands
      <4>5. QED BY <4>2, <4>3, <4>4
    <3>4. suspended' \subseteq Thread BY DEF IInv
    <3>5. QED BY <3>3, <3>4 DEF FrozenOccupants
  <2>2. CASE ~frozen[CURRENT]
    <3>1. suspended' = suspended /\ pc' = [pc EXCEPT ![t] = "sw_signal"]
      BY <1>1, <1>2, <1>3, <1>4, <1>5, <1>6, <1>7, <1>8, <2>0, <2>2
    <3>2. FrozenOccupants /\ t \in Thread BY DEF PermitInv
    <3>3. QED
      BY <1>1, <1>2, <1>3, <1>4, <1>5, <1>6, <1>7, <1>8, <2>0, <3>1,
         <3>2 DEF FrozenOccupants
  <2>3. QED BY <2>1, <2>2
<1>14. GrantsForParked' BY <1>7 DEF GrantsForParked
<1>15. OnCpuIsCurrent'
  <2>0. frozen \in [Task -> BOOLEAN] /\ pc \in [Thread -> Pc] OBVIOUS
  <2> HIDE DEF IInv, PermitInv
  <2>1. CASE frozen[CURRENT]
    <3>1. /\ suspended' = suspended \ {os_thread[CURRENT]}
          /\ pc' = [pc EXCEPT ![t] = "sw_release"]
      BY <1>1, <1>2, <1>3, <1>4, <1>5, <1>6, <1>7, <1>8, <2>0, <2>1
    <3>2. OnCpuIsCurrent /\ t \in Thread /\ t # os_thread[CURRENT]
      BY <1>1, <1>2, <1>3, <1>4, <1>5, <1>6, <1>7, <1>8 DEF PermitInv, Hands
    <3>3. QED
      BY <1>1, <1>2, <1>3, <1>4, <1>5, <1>6, <1>7, <1>8, <2>0, <3>1,
         <3>2 DEF OnCpuIsCurrent, Hands
  <2>2. CASE ~frozen[CURRENT]
    <3>1. suspended' = suspended /\ pc' = [pc EXCEPT ![t] = "sw_signal"]
      BY <1>1, <1>2, <1>3, <1>4, <1>5, <1>6, <1>7, <1>8, <2>0, <2>2
    <3>2. OnCpuIsCurrent /\ t \in Thread BY DEF PermitInv
    <3>3. QED
      BY <1>1, <1>2, <1>3, <1>4, <1>5, <1>6, <1>7, <1>8, <2>0, <3>1,
         <3>2 DEF OnCpuIsCurrent
  <2>3. QED BY <2>1, <2>2
<1>16. HandoverTarget' BY DEF HandoverTarget, Idles
<1>17. TickTurn' BY <1>1 DEF TickTurn, Idles
<1>18. BeforeStart' BY DEF BeforeStart, StartedFirst
<1>19. CurrentHasPermit' BY <1>1, <1>3, <1>8 DEF CurrentHasPermit, Settled
<1> QED
  BY <1>9, <1>10, <1>11, <1>12, <1>13, <1>14, <1>15, <1>16, <1>17, <1>18,
     <1>19 DEF PermitInv

\* grant by the yielding thread, second half.
LEMMA SwitchSignalKeeps ==
    ASSUME IInv, IInv', PermitInv, NEW t \in Thread,
           SwitchSignal(t)
    PROVE  PermitInv'
<1> USE DEF SwitchSignal, GrantSet, Notified
<1>1. /\ pc[t] = "sw_signal"
      /\ next[t] = CURRENT
      /\ t[1] # CURRENT
      /\ owner = t
      /\ Present(t)
      /\ ~froze
      /\ t[1] \in Task
      /\ ~frozen[t[1]] /\ ~granted[t[1]] /\ bootPc = "asleep"
  BY DEF HandoverTarget, OnCpuIsCurrent, FrozenOccupants, GrantsForParked
<1>2. CURRENT \in Task /\ Hands(CURRENT) BY <1>1, CurrentHands DEF BeforeStart
<1>3. \A u \in Thread : u[1] = CURRENT /\ Present(u) => u = os_thread[CURRENT]
  BY <1>2, SameOccupant DEF Hands
<1>4. \A u \in Thread : u # t => ~HandingOver(u) /\ pc[u] # "sw_release" /\ ~Making(u)
  BY <1>1 DEF Making
<1>5. \A u \in Thread : OnCpu(u) /\ ~HandingOver(u) => u = os_thread[CURRENT]
  BY <1>3 DEF OnCpuIsCurrent
<1>6. \A u \in Thread : u # t => ~OnCpu(u)
  BY <1>1, <1>2, <1>4, <1>5 DEF HandoverTarget, Idles, FrozenOccupants, OnCpuIsCurrent

<1>7. ~frozen[CURRENT] /\ pc[os_thread[CURRENT]] \in ParkPcs
  BY <1>1, <1>2 DEF HandoverTarget, Idles, Hands
<1>8. generation[CURRENT] # 0 BY <1>2 DEF Hands
<1>9. StartedFirst' BY DEF StartedFirst
<1>10. OwnLocals' BY DEF OwnLocals
<1>11. HandlesMatch' BY DEF HandlesMatch, Hands, Making
<1>12. SlotsReused' BY <1>1, <1>8 DEF SlotsReused, Making
<1>13. FrozenOccupants' BY DEF FrozenOccupants
<1>14. GrantsForParked' BY <1>1, <1>3, <1>7 DEF GrantsForParked
<1>15. OnCpuIsCurrent' BY <1>3, <1>7 DEF OnCpuIsCurrent
<1>16. HandoverTarget' BY DEF HandoverTarget, Idles
<1>17. TickTurn' BY <1>1 DEF TickTurn, Idles
<1>18. BeforeStart' BY <1>1 DEF BeforeStart, StartedFirst
<1>19. CurrentHasPermit' BY <1>1, <1>7 DEF CurrentHasPermit, Settled
<1> QED
  BY <1>9, <1>10, <1>11, <1>12, <1>13, <1>14, <1>15, <1>16, <1>17, <1>18,
     <1>19 DEF PermitInv

\* The lock goes down after the grant.
LEMMA SwitchReleaseKeeps ==
    ASSUME IInv, IInv', PermitInv, NEW t \in Thread,
           SwitchRelease(t)
    PROVE  PermitInv'
<1> USE DEF SwitchRelease, Release
<1>1. StartedFirst' BY DEF StartedFirst
<1>2. OwnLocals' BY DEF OwnLocals
<1>3. HandlesMatch' BY DEF HandlesMatch, Hands, Making
<1>4. SlotsReused' BY DEF SlotsReused, Making
<1>5. FrozenOccupants' BY DEF FrozenOccupants
<1>6. GrantsForParked' BY DEF GrantsForParked
<1>7. OnCpuIsCurrent' BY DEF OnCpuIsCurrent
<1>8. HandoverTarget' BY DEF HandoverTarget, Idles
<1>9. TickTurn' BY DEF TickTurn, Idles
<1>10. BeforeStart' BY DEF BeforeStart, StartedFirst
<1>11. CurrentHasPermit' BY DEF CurrentHasPermit, Settled
<1> QED
  BY <1>1, <1>2, <1>3, <1>4, <1>5, <1>6, <1>7, <1>8, <1>9, <1>10, <1>11 DEF PermitInv

\* The thread that takes a grant is the current task's, and alone.
LEMMA PermitTakeKeeps ==
    ASSUME IInv, IInv', PermitInv, NEW t \in Thread,
           PermitTake(t)
    PROVE  PermitInv'
<1> USE DEF PermitTake, MayTake
<1>1. /\ pc[t] = "take"
      /\ t \notin suspended
      /\ mine[t] = t[1]
      /\ mygen[t] = t[2]
      /\ t[1] \in Task
      /\ Present(t)
      /\ granted[t[1]]
      /\ granted' = [granted EXCEPT ![t[1]] = FALSE]
  BY DEF OwnLocals
<1>2. /\ pc' = [pc EXCEPT ![t] = pc'[t]] /\ pc'[t] \in {"run", "reacq"}
  OBVIOUS
<1>3. ~frozen[t[1]] /\ t[1] = CURRENT BY <1>1 DEF FrozenOccupants, GrantsForParked
<1>4. ~Idles(CURRENT) BY <1>1, <1>3 DEF Idles
<1>5. ~froze /\ \A u \in Thread : ~HandingOver(u) BY <1>4 DEF TickTurn, HandoverTarget
<1>6. bootPc = "asleep" BY <1>1 DEF BeforeStart
<1>7. \A u \in Thread : ~OnCpu(u)
  BY <1>1, <1>3, <1>5 DEF OnCpuIsCurrent, GrantsForParked
<1>8. \A u \in Thread : u # t /\ u[1] = t[1] => ~Present(u) BY <1>1, SameOccupant
<1>9. StartedFirst' BY DEF StartedFirst
<1>10. OwnLocals' BY DEF OwnLocals
<1>11. HandlesMatch' BY DEF HandlesMatch, Hands, Making
<1>12. SlotsReused' BY DEF SlotsReused, Making
<1>13. FrozenOccupants' BY <1>1 DEF FrozenOccupants
<1>14. GrantsForParked' BY <1>1 DEF GrantsForParked
<1>15. OnCpuIsCurrent' BY <1>1, <1>3, <1>5, <1>6 DEF OnCpuIsCurrent
<1>16. HandoverTarget' BY <1>7 DEF HandoverTarget, Idles
<1>17. TickTurn' BY <1>5 DEF TickTurn, Idles
<1>18. BeforeStart' BY DEF BeforeStart, StartedFirst
<1>19. CurrentHasPermit' BY <1>3, <1>8 DEF CurrentHasPermit, Settled
<1> QED
  BY <1>9, <1>10, <1>11, <1>12, <1>13, <1>14, <1>15, <1>16, <1>17, <1>18,
     <1>19 DEF PermitInv

\* start_first_task names the first task.
LEMMA StartStoreKeeps ==
    ASSUME IInv, IInv', PermitInv, NEW i \in Task,
           StartStore(i)
    PROVE  PermitInv'
<1> USE DEF StartStore
<1>1. /\ tickPc = "idle"
      /\ ~froze
      /\ CURRENT = NO_TASK
      /\ CURRENT' = i
      /\ bootPc' = "grant"
      /\ bootPc = "boot"
      /\ i # NO_TASK
      /\ \A k \in Task : ~granted[k] /\ ~frozen[k]
      /\ suspended = {}
  BY HostConstants DEF StartedFirst, TickTurn, BeforeStart
<1>2. \A u \in Thread : pc[u] \notin PermitPcs BY <1>1 DEF OnCpuIsCurrent
<1>3. \A u \in Thread : pc[u] # "sw_release" BY <1>1 DEF OnCpuIsCurrent
<1>4. \A u \in Thread : ~OnCpu(u) /\ ~HandingOver(u) /\ ~Making(u) BY <1>2 DEF Making
<1>5. Hands(i) BY <1>4, ReadyHands
<1>6. StartedFirst' BY DEF StartedFirst
<1>7. OwnLocals' BY DEF OwnLocals
<1>8. HandlesMatch' BY DEF HandlesMatch, Hands, Making
<1>9. SlotsReused' BY <1>4 DEF SlotsReused, Making
<1>10. FrozenOccupants' BY DEF FrozenOccupants
<1>11. GrantsForParked' BY <1>1 DEF GrantsForParked
<1>12. OnCpuIsCurrent' BY DEF OnCpuIsCurrent
<1>13. HandoverTarget' BY <1>4 DEF HandoverTarget, Idles
<1>14. TickTurn' BY <1>1 DEF TickTurn, Idles
<1>15. BeforeStart' BY <1>1 DEF BeforeStart, StartedFirst
<1>16. CurrentHasPermit' BY DEF CurrentHasPermit, Settled
<1> QED
  BY <1>6, <1>7, <1>8, <1>9, <1>10, <1>11, <1>12, <1>13, <1>14, <1>15,
     <1>16 DEF PermitInv

\* start_first_task's grant finds nothing frozen.
LEMMA StartGrantKeeps ==
    ASSUME IInv, IInv', PermitInv,
           StartGrant
    PROVE  PermitInv'
<1> USE DEF StartGrant, GrantSwap, Thawed
<1>1. /\ tickPc = "idle"
      /\ ~froze
      /\ first = CURRENT
      /\ CURRENT # NO_TASK
      /\ bootPc # "asleep"
      /\ bootPc # "boot"
      /\ bootPc' # "boot"
      /\ suspended = {} /\ (\A k \in Task : ~granted[k] /\ ~frozen[k])
  BY DEF StartedFirst, BeforeStart, TickTurn
<1>2. CURRENT \in Task /\ Hands(CURRENT) BY <1>1, CurrentHands
<1>3. \A u \in Thread : pc[u] \notin PermitPcs /\ pc[u] # "sw_release"
  BY <1>1 DEF OnCpuIsCurrent
<1>4. \A u \in Thread : ~Making(u) /\ ~HandingOver(u) BY <1>3 DEF Making
<1>5. \A u \in Thread : u[1] = CURRENT /\ Present(u) => u = os_thread[CURRENT]
  BY <1>2, SameOccupant DEF Hands
<1>6. pc[os_thread[CURRENT]] \in ParkPcs BY <1>2, <1>3 DEF Hands
<1>7. frozen' = frozen /\ suspended' = suspended BY <1>1, <1>2
<1>8. StartedFirst' BY DEF StartedFirst
<1>9. OwnLocals' BY DEF OwnLocals
<1>10. HandlesMatch' BY DEF HandlesMatch, Hands, Making
<1>11. SlotsReused' BY DEF SlotsReused, Making
<1>12. FrozenOccupants' BY <1>7 DEF FrozenOccupants
<1>13. GrantsForParked' BY <1>7 DEF GrantsForParked
<1>14. OnCpuIsCurrent' BY <1>7 DEF OnCpuIsCurrent
<1>15. HandoverTarget' BY <1>7 DEF HandoverTarget, Idles
<1>16. TickTurn' BY <1>7 DEF TickTurn, Idles
<1>17. BeforeStart' BY DEF BeforeStart, StartedFirst
<1>18. CurrentHasPermit' BY <1>7 DEF CurrentHasPermit, Settled
<1> QED
  BY <1>8, <1>9, <1>10, <1>11, <1>12, <1>13, <1>14, <1>15, <1>16, <1>17,
     <1>18 DEF PermitInv

\* start_first_task sets the first permit.
LEMMA StartSignalKeeps ==
    ASSUME IInv, IInv', PermitInv,
           StartSignal
    PROVE  PermitInv'
<1> USE DEF StartSignal, GrantSet, Notified
<1>1. /\ tickPc = "idle"
      /\ ~froze
      /\ first = CURRENT
      /\ CURRENT # NO_TASK
      /\ bootPc # "asleep"
      /\ bootPc # "boot"
      /\ bootPc' # "boot"
      /\ suspended = {} /\ (\A k \in Task : ~granted[k] /\ ~frozen[k])
  BY DEF StartedFirst, BeforeStart, TickTurn
<1>2. CURRENT \in Task /\ Hands(CURRENT) BY <1>1, CurrentHands
<1>3. \A u \in Thread : pc[u] \notin PermitPcs /\ pc[u] # "sw_release"
  BY <1>1 DEF OnCpuIsCurrent
<1>4. \A u \in Thread : ~Making(u) /\ ~HandingOver(u) BY <1>3 DEF Making
<1>5. \A u \in Thread : u[1] = CURRENT /\ Present(u) => u = os_thread[CURRENT]
  BY <1>2, SameOccupant DEF Hands
<1>6. pc[os_thread[CURRENT]] \in ParkPcs BY <1>2, <1>3 DEF Hands
<1>7. generation[CURRENT] # 0 BY <1>2 DEF Hands
<1>8. StartedFirst' BY DEF StartedFirst
<1>9. OwnLocals' BY DEF OwnLocals
<1>10. HandlesMatch' BY DEF HandlesMatch, Hands, Making
<1>11. SlotsReused' BY <1>1, <1>7 DEF SlotsReused, Making
<1>12. FrozenOccupants' BY DEF FrozenOccupants
<1>13. GrantsForParked' BY <1>1, <1>5, <1>6 DEF GrantsForParked
<1>14. OnCpuIsCurrent' BY DEF OnCpuIsCurrent
<1>15. HandoverTarget' BY <1>4 DEF HandoverTarget, Idles
<1>16. TickTurn' BY <1>1 DEF TickTurn, Idles
<1>17. BeforeStart' BY DEF BeforeStart, StartedFirst
<1>18. CurrentHasPermit' BY <1>1 DEF CurrentHasPermit, Settled
<1> QED
  BY <1>8, <1>9, <1>10, <1>11, <1>12, <1>13, <1>14, <1>15, <1>16, <1>17,
     <1>18 DEF PermitInv

\* The tick takes the lock.
LEMMA TickEnterKeeps ==
    ASSUME IInv, IInv', PermitInv,
           TickEnter
    PROVE  PermitInv'
<1> USE DEF TickEnter, Acquire
<1>1. StartedFirst' BY DEF StartedFirst
<1>2. OwnLocals' BY DEF OwnLocals
<1>3. HandlesMatch' BY DEF HandlesMatch, Hands, Making
<1>4. SlotsReused' BY DEF SlotsReused, Making
<1>5. FrozenOccupants' BY DEF FrozenOccupants
<1>6. GrantsForParked' BY DEF GrantsForParked
<1>7. OnCpuIsCurrent' BY DEF OnCpuIsCurrent
<1>8. HandoverTarget' BY DEF HandoverTarget, Idles
<1>9. TickTurn' BY DEF TickTurn, Idles
<1>10. BeforeStart' BY DEF BeforeStart, StartedFirst
<1>11. CurrentHasPermit' BY DEF CurrentHasPermit, Settled
<1> QED
  BY <1>1, <1>2, <1>3, <1>4, <1>5, <1>6, <1>7, <1>8, <1>9, <1>10, <1>11 DEF PermitInv

\* The tick freezes whoever has the permit, or the grant for it.
LEMMA FreezeRunningKeeps ==
    ASSUME IInv, IInv', PermitInv,
           FreezeRunning
    PROVE  PermitInv'
<1> USE DEF FreezeRunning
<1>1. bootPc = "asleep" /\ ~froze BY DEF StartedFirst, TickTurn
<1>2. CURRENT \in Task /\ Hands(CURRENT) BY CurrentHands
<1>3. \A u \in Thread : ~HandingOver(u) /\ pc[u] # "sw_release" /\ ~Making(u)
  BY DEF Making
<1>4. \A u \in Thread : u[1] = CURRENT /\ Present(u) => u = os_thread[CURRENT]
  BY <1>2, SameOccupant DEF Hands
<1>5. ~frozen[CURRENT] /\ (granted[CURRENT] \/ pc[os_thread[CURRENT]] \in PermitPcs)
  BY <1>1, <1>2, <1>3 DEF CurrentHasPermit, Settled, Hands
<1>6. \A u \in Thread : OnCpu(u) => u = os_thread[CURRENT]
  BY <1>3, <1>4 DEF OnCpuIsCurrent
<1>7. owner = Tick /\ generation[CURRENT] # 0 BY <1>2 DEF Hands
<1>8. StartedFirst' BY DEF StartedFirst
<1>9. OwnLocals' BY DEF OwnLocals
<1>10. HandlesMatch' BY DEF HandlesMatch, Hands, Making
<1>11. SlotsReused' BY <1>7 DEF SlotsReused, Making
<1>12. FrozenOccupants'
  <2>1. ASSUME NEW u \in Thread PROVE
             /\ u \in suspended' => pc'[u] # "none"
             /\ u \in suspended' /\ Present(u)' => frozen'[u[1]]
             /\ Present(u)' /\ pc'[u] # "none" /\ frozen'[u[1]] =>
                   u \in suspended' /\ (granted'[u[1]] \/ pc'[u] \in PermitPcs)
    <3>1. CASE u = os_thread[CURRENT]
      BY <1>1, <1>2, <1>3, <1>4, <1>5, <1>6, <1>7, <3>1 DEF FrozenOccupants, Hands
    <3>2. CASE u # os_thread[CURRENT]
      BY <1>1, <1>2, <1>3, <1>4, <1>5, <1>6, <1>7, <3>2 DEF FrozenOccupants, Hands
    <3>3. QED BY <3>1, <3>2
  <2>2. suspended' \subseteq Thread OBVIOUS
  <2>3. QED BY <2>1, <2>2 DEF FrozenOccupants
<1>13. GrantsForParked' BY DEF GrantsForParked
<1>14. OnCpuIsCurrent' BY <1>6 DEF OnCpuIsCurrent
<1>15. HandoverTarget' BY DEF HandoverTarget, Idles
<1>16. TickTurn'
  <2>1. /\ frozen'[CURRENT]
        /\ CURRENT' = CURRENT
        /\ running' = CURRENT
        /\ froze'
        /\ tickPc' = "ontick"
    BY <1>1, <1>2, <1>3, <1>4, <1>5, <1>6, <1>7
  <2>2. Idles(CURRENT)' BY <2>1 DEF Idles
  <2>3. os_thread' = os_thread /\ generation' = generation
    BY <1>1, <1>2, <1>3, <1>4, <1>5, <1>6, <1>7
  <2>4. QED
    BY <1>1, <1>2, <1>3, <1>4, <1>5, <1>6, <1>7, <2>1, <2>2, <2>3 DEF TickTurn, Hands
<1>17. BeforeStart' BY DEF BeforeStart, StartedFirst
<1>18. CurrentHasPermit' BY DEF CurrentHasPermit, Settled
<1> QED
  BY <1>8, <1>9, <1>10, <1>11, <1>12, <1>13, <1>14, <1>15, <1>16, <1>17,
     <1>18 DEF PermitInv

\* The tick freezes nobody.
LEMMA FreezeDeclinesKeeps ==
    ASSUME IInv, IInv', PermitInv,
           FreezeDeclines
    PROVE  PermitInv'
<1> USE DEF FreezeDeclines
<1>1. StartedFirst' BY DEF StartedFirst
<1>2. OwnLocals' BY DEF OwnLocals
<1>3. HandlesMatch' BY DEF HandlesMatch, Hands, Making
<1>4. SlotsReused' BY DEF SlotsReused, Making
<1>5. FrozenOccupants' BY DEF FrozenOccupants
<1>6. GrantsForParked' BY DEF GrantsForParked
<1>7. OnCpuIsCurrent' BY DEF OnCpuIsCurrent
<1>8. HandoverTarget' BY DEF HandoverTarget, Idles
<1>9. TickTurn' BY DEF TickTurn, Idles
<1>10. BeforeStart' BY DEF BeforeStart, StartedFirst
<1>11. CurrentHasPermit' BY DEF CurrentHasPermit, Settled, TickTurn
<1> QED
  BY <1>1, <1>2, <1>3, <1>4, <1>5, <1>6, <1>7, <1>8, <1>9, <1>10, <1>11 DEF PermitInv

\* The scheduler names a task under the tick; with the old one frozen it was idle.
LEMMA TickAskKeeps ==
    ASSUME IInv, IInv', PermitInv, NEW woken \in SUBSET Task, NEW n \in Task,
           TickAsk(woken, n)
    PROVE  PermitInv'
<1> USE DEF TickAsk, OnTick
<1>1. n # NO_TASK /\ bootPc = "asleep" /\ CURRENT # NO_TASK
  BY HostConstants DEF StartedFirst, BeforeStart
<1>2. froze /\ running = CURRENT /\ frozen[CURRENT] BY DEF TickTurn
<1>3. \A u \in Thread : ~OnCpu(u) /\ ~HandingOver(u) /\ ~Making(u) /\ pc[u] # "sw_release"
  BY <1>2 DEF OnCpuIsCurrent, Making
<1>4. n \in alive BY DEF HandlesMatch
<1>5. Hands(n) BY <1>3, <1>4 DEF HandlesMatch
<1>6. \A u \in Thread : u[1] = n /\ Present(u) => u = os_thread[n]
  BY <1>5, SameOccupant DEF Hands
<1>7. frozen[n] \/ (~granted[n] /\ pc[os_thread[n]] \in ParkPcs)
  BY <1>2, <1>3, <1>5 DEF Hands, FrozenOccupants, Making, GrantsForParked
<1>8. Idles(n) BY <1>6, <1>7 DEF Idles
<1>9. CURRENT' = n OBVIOUS
<1>10. StartedFirst' BY DEF StartedFirst
<1>11. OwnLocals' BY DEF OwnLocals
<1>12. HandlesMatch' BY DEF HandlesMatch, Hands, Making
<1>13. SlotsReused' BY DEF SlotsReused, Making
<1>14. FrozenOccupants' BY DEF FrozenOccupants
<1>15. GrantsForParked' BY <1>2 DEF GrantsForParked
<1>16. OnCpuIsCurrent' BY DEF OnCpuIsCurrent
<1>17. HandoverTarget' BY DEF HandoverTarget, Idles
<1>18. TickTurn' BY <1>8 DEF TickTurn, Idles
<1>19. BeforeStart' BY <1>1 DEF BeforeStart, StartedFirst
<1>20. CurrentHasPermit' BY DEF CurrentHasPermit, Settled
<1> QED
  BY <1>10, <1>11, <1>12, <1>13, <1>14, <1>15, <1>16, <1>17, <1>18, <1>19,
     <1>20 DEF PermitInv

\* The tick wants no switch.
LEMMA TickKeepKeeps ==
    ASSUME IInv, IInv', PermitInv, NEW woken \in SUBSET Task,
           TickKeep(woken)
    PROVE  PermitInv'
<1> USE DEF TickKeep, OnTick
<1>1. StartedFirst' BY DEF StartedFirst
<1>2. OwnLocals' BY DEF OwnLocals
<1>3. HandlesMatch' BY DEF HandlesMatch, Hands, Making
<1>4. SlotsReused' BY DEF SlotsReused, Making
<1>5. FrozenOccupants' BY DEF FrozenOccupants
<1>6. GrantsForParked' BY DEF GrantsForParked
<1>7. OnCpuIsCurrent' BY DEF OnCpuIsCurrent
<1>8. HandoverTarget' BY DEF HandoverTarget, Idles
<1>9. TickTurn' BY DEF TickTurn, Idles
<1>10. BeforeStart' BY DEF BeforeStart, StartedFirst
<1>11. CurrentHasPermit' BY DEF CurrentHasPermit, Settled
<1> QED
  BY <1>1, <1>2, <1>3, <1>4, <1>5, <1>6, <1>7, <1>8, <1>9, <1>10, <1>11 DEF PermitInv

\* The tick leaves the lock.
LEMMA TickExitKeeps ==
    ASSUME IInv, IInv', PermitInv,
           TickExit
    PROVE  PermitInv'
<1> USE DEF TickExit, Release
<1>1. StartedFirst' BY DEF StartedFirst
<1>2. OwnLocals' BY DEF OwnLocals
<1>3. HandlesMatch' BY DEF HandlesMatch, Hands, Making
<1>4. SlotsReused' BY DEF SlotsReused, Making
<1>5. FrozenOccupants' BY DEF FrozenOccupants
<1>6. GrantsForParked' BY DEF GrantsForParked
<1>7. OnCpuIsCurrent' BY DEF OnCpuIsCurrent
<1>8. HandoverTarget' BY DEF HandoverTarget, Idles
<1>9. TickTurn' BY DEF TickTurn, Idles
<1>10. BeforeStart' BY DEF BeforeStart, StartedFirst
<1>11. CurrentHasPermit' BY DEF CurrentHasPermit, Settled
<1> QED
  BY <1>1, <1>2, <1>3, <1>4, <1>5, <1>6, <1>7, <1>8, <1>9, <1>10, <1>11 DEF PermitInv

\* Nothing was frozen: the tick returns.
LEMMA TickResumeIdleKeeps ==
    ASSUME IInv, IInv', PermitInv,
           TickResume, ~froze
    PROVE  PermitInv'
<1> USE DEF TickResume, TickReturn
<1>1. StartedFirst' BY DEF StartedFirst
<1>2. OwnLocals' BY DEF OwnLocals
<1>3. HandlesMatch' BY DEF HandlesMatch, Hands, Making
<1>4. SlotsReused' BY DEF SlotsReused, Making
<1>5. FrozenOccupants' BY DEF FrozenOccupants
<1>6. GrantsForParked' BY DEF GrantsForParked
<1>7. OnCpuIsCurrent' BY DEF OnCpuIsCurrent
<1>8. HandoverTarget' BY DEF HandoverTarget, Idles
<1>9. TickTurn' BY DEF TickTurn, Idles
<1>10. BeforeStart' BY DEF BeforeStart, StartedFirst
<1>11. CurrentHasPermit' BY DEF CurrentHasPermit, Settled
<1> QED
  BY <1>1, <1>2, <1>3, <1>4, <1>5, <1>6, <1>7, <1>8, <1>9, <1>10, <1>11 DEF PermitInv

\* The tick thaws the thread it froze, which is current again.
LEMMA TickResumeThawKeeps ==
    ASSUME IInv, IInv', PermitInv,
           TickResume, froze
    PROVE  PermitInv'
<1> USE DEF TickResume, TickReturn, Thawed
<1>1. bootPc = "asleep" /\ CURRENT # NO_TASK BY DEF StartedFirst, BeforeStart
<1>2. froze /\ tnext = CURRENT BY DEF TickTurn
<1>3. CURRENT \in Task /\ Hands(CURRENT) BY <1>1, CurrentHands
<1>4. \A u \in Thread : u[1] = CURRENT /\ Present(u) => u = os_thread[CURRENT]
  BY <1>3, SameOccupant DEF Hands
<1>5. \A u \in Thread : ~OnCpu(u) /\ ~HandingOver(u) BY <1>2 DEF OnCpuIsCurrent
<1>6. /\ frozen[CURRENT]
      /\ frozen' = [frozen EXCEPT ![CURRENT] = FALSE]
      /\ suspended' = suspended \ {os_thread[CURRENT]}
  <2>1. running = CURRENT BY <1>1, <1>2 DEF TickTurn
  <2>2. frozen[CURRENT] BY <2>1 DEF TickTurn
  <2>3. QED BY <2>1, <2>2
<1>7. (granted[CURRENT] \/ pc[os_thread[CURRENT]] \in PermitPcs)
  BY <1>3, <1>6 DEF Hands, FrozenOccupants
<1>8. StartedFirst' BY DEF StartedFirst
<1>9. OwnLocals' BY DEF OwnLocals
<1>10. HandlesMatch' BY DEF HandlesMatch, Hands, Making
<1>11. SlotsReused' BY <1>6 DEF SlotsReused, Making
<1>12. FrozenOccupants' BY <1>3, <1>6 DEF FrozenOccupants, Hands
<1>13. GrantsForParked' BY <1>6 DEF GrantsForParked
<1>14. OnCpuIsCurrent' BY <1>1, <1>3, <1>6 DEF OnCpuIsCurrent, Hands
<1>15. HandoverTarget' BY <1>5 DEF HandoverTarget, Idles, Hands
<1>16. TickTurn' BY DEF TickTurn, Idles
<1>17. BeforeStart' BY DEF BeforeStart, StartedFirst
<1>18. CurrentHasPermit' BY <1>4, <1>6, <1>7 DEF CurrentHasPermit, Settled, Hands
<1> QED
  BY <1>8, <1>9, <1>10, <1>11, <1>12, <1>13, <1>14, <1>15, <1>16, <1>17,
     <1>18 DEF PermitInv

\* The tick's grant thaws the next task's thread.
LEMMA TickGrantThawKeeps ==
    ASSUME IInv, IInv', PermitInv,
           TickGrantThaw
    PROVE  PermitInv'
<1> USE DEF TickGrantThaw, TickReturn, GrantSwap, Thawed
<1>1. bootPc = "asleep" /\ CURRENT # NO_TASK BY DEF StartedFirst, BeforeStart
<1>2. froze /\ tnext = CURRENT BY DEF TickTurn
<1>3. CURRENT \in Task /\ Hands(CURRENT) BY <1>1, CurrentHands
<1>4. \A u \in Thread : u[1] = CURRENT /\ Present(u) => u = os_thread[CURRENT]
  BY <1>3, SameOccupant DEF Hands
<1>5. \A u \in Thread : ~OnCpu(u) /\ ~HandingOver(u) BY <1>2 DEF OnCpuIsCurrent
<1>6. /\ frozen[CURRENT]
      /\ frozen' = [frozen EXCEPT ![CURRENT] = FALSE]
      /\ suspended' = suspended \ {os_thread[CURRENT]}
  BY <1>2
<1>7. (granted[CURRENT] \/ pc[os_thread[CURRENT]] \in PermitPcs)
  BY <1>3, <1>6 DEF Hands, FrozenOccupants
<1>8. StartedFirst' BY DEF StartedFirst
<1>9. OwnLocals' BY DEF OwnLocals
<1>10. HandlesMatch' BY DEF HandlesMatch, Hands, Making
<1>11. SlotsReused' BY DEF SlotsReused, Making
<1>12. FrozenOccupants' BY <1>3, <1>6 DEF FrozenOccupants, Hands
<1>13. GrantsForParked' BY <1>6 DEF GrantsForParked
<1>14. OnCpuIsCurrent' BY <1>1, <1>3, <1>6 DEF OnCpuIsCurrent, Hands
<1>15. HandoverTarget' BY <1>5 DEF HandoverTarget, Idles, Hands
<1>16. TickTurn' BY DEF TickTurn, Idles
<1>17. BeforeStart' BY DEF BeforeStart, StartedFirst
<1>18. CurrentHasPermit' BY <1>4, <1>6, <1>7 DEF CurrentHasPermit, Settled, Hands
<1> QED
  BY <1>8, <1>9, <1>10, <1>11, <1>12, <1>13, <1>14, <1>15, <1>16, <1>17,
     <1>18 DEF PermitInv

\* The tick's grant finds the next task not frozen ...
LEMMA TickGrantSwapKeeps ==
    ASSUME IInv, IInv', PermitInv,
           TickGrantSwap
    PROVE  PermitInv'
<1> USE DEF TickGrantSwap
<1>1. StartedFirst' BY DEF StartedFirst
<1>2. OwnLocals' BY DEF OwnLocals
<1>3. HandlesMatch' BY DEF HandlesMatch, Hands, Making
<1>4. SlotsReused' BY DEF SlotsReused, Making
<1>5. FrozenOccupants' BY DEF FrozenOccupants
<1>6. GrantsForParked' BY DEF GrantsForParked
<1>7. OnCpuIsCurrent' BY DEF OnCpuIsCurrent
<1>8. HandoverTarget' BY DEF HandoverTarget, Idles
<1>9. TickTurn' BY DEF TickTurn, Idles
<1>10. BeforeStart' BY DEF BeforeStart, StartedFirst
<1>11. CurrentHasPermit' BY DEF CurrentHasPermit, Settled
<1> QED
  BY <1>1, <1>2, <1>3, <1>4, <1>5, <1>6, <1>7, <1>8, <1>9, <1>10, <1>11 DEF PermitInv

\* ... and sets its permit.
LEMMA TickGrantSetKeeps ==
    ASSUME IInv, IInv', PermitInv,
           TickGrantSet
    PROVE  PermitInv'
<1> USE DEF TickGrantSet, TickReturn, GrantSet, Notified
<1>1. bootPc = "asleep" /\ CURRENT # NO_TASK BY DEF StartedFirst, BeforeStart
<1>2. froze /\ tnext = CURRENT BY DEF TickTurn
<1>3. CURRENT \in Task /\ Hands(CURRENT) BY <1>1, CurrentHands
<1>4. \A u \in Thread : u[1] = CURRENT /\ Present(u) => u = os_thread[CURRENT]
  BY <1>3, SameOccupant DEF Hands
<1>5. \A u \in Thread : ~OnCpu(u) /\ ~HandingOver(u) BY <1>2 DEF OnCpuIsCurrent
<1>6. ~frozen[CURRENT] /\ pc[os_thread[CURRENT]] \in ParkPcs /\ generation[CURRENT] # 0
  BY <1>2, <1>3 DEF TickTurn, Idles, Hands
<1>7. \A u \in Thread : pc[u] = "spawn" => making[u] # CURRENT
  BY DEF SlotsReused, Making
<1>8. StartedFirst' BY DEF StartedFirst
<1>9. OwnLocals' BY DEF OwnLocals
<1>10. HandlesMatch' BY DEF HandlesMatch, Hands, Making
<1>11. SlotsReused' BY <1>2, <1>6 DEF SlotsReused, Making
<1>12. FrozenOccupants' BY DEF FrozenOccupants
<1>13. GrantsForParked' BY <1>2, <1>4, <1>6 DEF GrantsForParked
<1>14. OnCpuIsCurrent' BY DEF OnCpuIsCurrent
<1>15. HandoverTarget' BY <1>5 DEF HandoverTarget, Idles
<1>16. TickTurn' BY DEF TickTurn, Idles
<1>17. BeforeStart' BY DEF BeforeStart, StartedFirst
<1>18. CurrentHasPermit' BY <1>2, <1>6 DEF CurrentHasPermit, Settled
<1> QED
  BY <1>8, <1>9, <1>10, <1>11, <1>12, <1>13, <1>14, <1>15, <1>16, <1>17,
     <1>18 DEF PermitInv

HIDE DEF PermitInv, IInv, TypeOK, LockInv, OwnerIsInside, FrozenOutside, Present, PermitPcs,
         LockedPcs, ParkPcs, FreePcs, TickPc, TickLockedPcs, BootPc, Pc, OnCpu, HandingOver,
         At, Goto, statics, lockVars, slotVars, frameVars, tickVars, bootVars, kernelVars

\* A step that moves a thread among the plain labels, or among the parked ones,
\* and touches no slot keeps every clause.
LEMMA PlainSteps ==
    ASSUME TypeOK, TypeOK', PermitInv,
           \A u \in Thread : \/ pc'[u] = pc[u]
                             \/ pc[u] \in PlainPcs /\ pc'[u] \in PlainPcs
                             \/ pc[u] \in ParkPcs /\ pc'[u] \in ParkPcs,
           ready' \subseteq alive,
           \/ owner' = owner
           \/ owner = NoThread
           \/ owner \in Thread /\ pc[owner] \in PlainPcs,
           UNCHANGED <<suspended, CURRENT, granted, frozen, os_thread, generation,
              mine, next, mygen, tickVars, bootVars, making, alive>>
    PROVE PermitInv'
<1> USE HostThreadNames, ThreadParts
     DEF PermitInv, TypeOK, Present, PlainPcs, PermitPcs, LockedPcs, ParkPcs, FreePcs, Pc,
         tickVars, bootVars, OnCpu, HandingOver
<1>1. StartedFirst' BY DEF StartedFirst
<1>2. OwnLocals' BY DEF OwnLocals
<1>3. HandlesMatch'
  <2>1. \A i \in Task : Hands(i) => Hands(i)' BY DEF Hands
  <2>2. \A t \in Thread : owner = t /\ Making(t) => owner' = owner BY DEF Making
  <2>3. \A t \in Thread : Making(t) => Making(t)' BY DEF Making
  <2>4. QED
    <3> HIDE DEF Present, PlainPcs, PermitPcs, LockedPcs, ParkPcs, FreePcs, Pc, OnCpu,
                 HandingOver
    <3>1. ready' \subseteq alive' OBVIOUS
    <3>2. ASSUME NEW i \in Task, i \in alive' \/ i = CURRENT'
          PROVE  Hands(i)' \/ (owner' \in Thread /\ (Making(owner) /\ making[owner] = i)')
      BY <2>1, <2>2, <2>3, <3>2 DEF HandlesMatch
    <3>3. QED BY <3>1, <3>2 DEF HandlesMatch
<1>4. SlotsReused' BY DEF SlotsReused, Making
<1>5. FrozenOccupants' BY DEF FrozenOccupants
<1>6. GrantsForParked' BY DEF GrantsForParked
<1>7. OnCpuIsCurrent' BY DEF OnCpuIsCurrent
<1>8. HandoverTarget' BY DEF HandoverTarget, Idles
<1>9. TickTurn' BY DEF TickTurn, Idles
<1>10. BeforeStart' BY DEF BeforeStart
<1>11. CurrentHasPermit' BY DEF CurrentHasPermit, Settled
<1> QED BY <1>1, <1>2, <1>3, <1>4, <1>5, <1>6, <1>7, <1>8, <1>9, <1>10, <1>11

\* The critical section and the kernel calls in it are such steps ...
LEMMA CriticalKeeps ==
    ASSUME IInv, IInv', PermitInv, NEW t \in Thread,
           \/ EnterCritical(t)
           \/ EnterNested(t)
           \/ ExitNested(t)
           \/ ExitOuter(t)
           \/ ExitReadInTick(t)
           \/ ExitSwapPending(t)
           \/ PendSwitch(t)
           \/ KernelBlock(t)
           \/ \E j \in Task, b \in BOOLEAN : KernelWake(t, j, b)
    PROVE  PermitInv'
<1> USE HostThreadNames
    DEF PlainPcs, PermitPcs, LockedPcs, ParkPcs, FreePcs, At, Goto, Acquire, Release,
        statics, lockVars, slotVars, frameVars, tickVars, bootVars, kernelVars
<1>1. TypeOK /\ TypeOK' /\ OwnerIsInside BY DEF IInv, LockInv
<1>2. ready \subseteq alive BY DEF PermitInv, HandlesMatch
<1> USE <1>1, <1>2, PlainSteps DEF TypeOK, OwnerIsInside
<1>3. CASE EnterCritical(t) BY <1>3 DEF EnterCritical
<1>4. CASE EnterNested(t) BY <1>4 DEF EnterNested
<1>5. CASE ExitNested(t) BY <1>5 DEF ExitNested
<1>6. CASE ExitOuter(t) BY <1>6 DEF ExitOuter
<1>7. CASE ExitReadInTick(t) BY <1>7 DEF ExitReadInTick
<1>8. CASE ExitSwapPending(t) BY <1>8 DEF ExitSwapPending
<1>9. CASE PendSwitch(t) BY <1>9 DEF PendSwitch
<1>10. CASE KernelBlock(t) BY <1>10 DEF KernelBlock
<1>11. CASE \E j \in Task, b \in BOOLEAN : KernelWake(t, j, b) BY <1>11 DEF KernelWake
<1> QED BY <1>3, <1>4, <1>5, <1>6, <1>7, <1>8, <1>9, <1>10, <1>11

\* ... and so are the parked half of a switch and a switch to the same task.
LEMMA ParkedKeeps ==
    ASSUME IInv, IInv', PermitInv, NEW t \in Thread,
           \/ PermitLock(t)
           \/ PermitWait(t)
           \/ SpuriousWake(t)
           \/ SwitchReacquire(t)
           \/ SwitchExit(t)
           \/ SwitchAsk(t, CURRENT)
    PROVE  PermitInv'
<1> USE HostThreadNames
    DEF PlainPcs, PermitPcs, LockedPcs, ParkPcs, FreePcs, At, Goto, Acquire, Release,
        statics, lockVars, slotVars, frameVars, tickVars, bootVars, kernelVars
<1>1. TypeOK /\ TypeOK' /\ OwnerIsInside BY DEF IInv, LockInv
<1>2. ready \subseteq alive BY DEF PermitInv, HandlesMatch
<1> USE <1>1, <1>2, PlainSteps DEF TypeOK, OwnerIsInside
<1>3. CASE PermitLock(t) BY <1>3 DEF PermitLock
<1>4. CASE PermitWait(t) BY <1>4 DEF PermitWait
<1>5. CASE SpuriousWake(t) BY <1>5 DEF SpuriousWake
<1>6. CASE SwitchReacquire(t) BY <1>6 DEF SwitchReacquire
<1>7. CASE SwitchExit(t) BY <1>7 DEF SwitchExit
<1>8. CASE SwitchAsk(t, CURRENT) BY <1>8 DEF SwitchAsk
<1> QED BY <1>3, <1>4, <1>5, <1>6, <1>7, <1>8

\* Before the start nobody has the permit and the boot tasks are parked.
LEMMA PermitInit == Init /\ ~TickBeforeStart => PermitInv
<1> SUFFICES ASSUME Init, ~TickBeforeStart PROVE PermitInv OBVIOUS
<1> USE HostConstants, HostThreadNames, ThreadParts DEF Init, Present, Making
<1>1. StartedFirst BY DEF StartedFirst
<1>2. OwnLocals BY DEF OwnLocals
<1>3. HandlesMatch
  <2>1. \A i \in BootTask : <<i, 1>> \in Thread BY DEF Thread
  <2>2. \A i \in BootTask : Hands(i) BY <2>1 DEF Hands
  <2>3. QED BY <2>2 DEF HandlesMatch
<1>4. SlotsReused BY DEF SlotsReused
<1>5. FrozenOccupants BY DEF FrozenOccupants
<1>6. GrantsForParked BY DEF GrantsForParked
<1>7. OnCpuIsCurrent BY DEF OnCpuIsCurrent, OnCpu, PermitPcs, LockedPcs, FreePcs
<1>8. HandoverTarget BY DEF HandoverTarget, HandingOver
<1>9. TickTurn BY DEF TickTurn
<1>10. BeforeStart BY DEF BeforeStart
<1>11. CurrentHasPermit BY DEF CurrentHasPermit, Settled
<1> QED BY <1>1, <1>2, <1>3, <1>4, <1>5, <1>6, <1>7, <1>8, <1>9, <1>10, <1>11 DEF PermitInv

\* Every step keeps the permit invariant.
LEMMA PermitNext ==
    ASSUME IInv, IInv', PermitInv, [Next]_vars
    PROVE  PermitInv'
<1>1. ASSUME NEW t \in Thread, TaskStep(t) PROVE PermitInv'
  <2>1. ASSUME NEW n \in Task, SwitchAsk(t, n) PROVE PermitInv'
    <3>1. CASE n = CURRENT BY <2>1, <3>1, ParkedKeeps
    <3>2. CASE n # CURRENT BY <2>1, <3>2, SwitchAskKeeps
    <3>3. QED BY <3>1, <3>2
  <2>2. QED
    BY <1>1, <2>1, CriticalKeeps, ParkedKeeps, KernelDeleteKeeps, KernelCreateKeeps,
       InitClearKeeps, InitSpawnKeeps, SwitchLockKeeps, SwitchGrantKeeps, SwitchSignalKeeps,
       SwitchReleaseKeeps, PermitTakeKeeps
    DEF TaskStep
<1>2. CASE BootStep
  BY <1>2, StartStoreKeeps, StartGrantKeeps, StartSignalKeeps DEF BootStep
<1>3. CASE TickStep
  <2>1. CASE TickResume BY <2>1, TickResumeIdleKeeps, TickResumeThawKeeps
  <2>2. QED
    BY <1>3, <2>1, TickEnterKeeps, FreezeRunningKeeps, FreezeDeclinesKeeps, TickAskKeeps,
       TickKeepKeeps, TickExitKeeps, TickGrantThawKeeps, TickGrantSwapKeeps, TickGrantSetKeeps
    DEF TickStep
<1>4. CASE UNCHANGED vars
  BY <1>4, PlainSteps
  DEF IInv, PermitInv, HandlesMatch, vars, statics, lockVars, slotVars, frameVars, kernelVars
<1>5. QED BY <1>1, <1>2, <1>3, <1>4 DEF Next

\* The permit invariant holds in every behaviour without an early tick.
LEMMA PermitHolds == ~TickBeforeStart /\ Spec => []PermitInv
<1>1. IInv /\ IInv' /\ PermitInv /\ [Next]_vars => PermitInv' BY PermitNext
<1>2. QED BY <1>1, PermitInit, InvariantHolds, PTL DEF Spec

\* Two threads on the CPU would both be the current task's, or both hand over
\* with CRITICAL in hand, or one hand over to a task that does not idle.
LEMMA OnCpuAlone ==
    ASSUME IInv, PermitInv, NEW t \in Thread, NEW u \in Thread, OnCpu(t), OnCpu(u)
    PROVE  t = u
<1>1. /\ Present(t) /\ (HandingOver(t) \/ t[1] = CURRENT)
      /\ Present(u) /\ (HandingOver(u) \/ u[1] = CURRENT)
      /\ pc[t] # "none" /\ pc[u] # "none" /\ t \notin suspended /\ u \notin suspended
      /\ pc[t] \notin ParkPcs /\ pc[u] \notin ParkPcs
  BY DEF PermitInv, OnCpuIsCurrent, OnCpu, PermitPcs, LockedPcs, FreePcs, ParkPcs
<1>2. \A v \in Thread : HandingOver(v) => owner = v
  BY DEF IInv, LockInv, OwnerIsInside, HandingOver, LockedPcs
<1>3. \A v \in Thread : HandingOver(v) => Idles(CURRENT)
  BY DEF PermitInv, HandoverTarget
<1>4. \A v \in {t, u} : ~(v[1] = CURRENT /\ Idles(CURRENT))
  BY <1>1 DEF Idles, PermitInv, FrozenOccupants
<1>5. QED BY <1>1, <1>2, <1>3, <1>4, SameOccupant

\* One permit, any number of tasks, occupants and ticks: two task threads are
\* never on the CPU at once, though each is an OS thread that could run.
THEOREM OneCpu == ~TickBeforeStart /\ Spec => []OneOnCpu
<1>1. IInv /\ PermitInv => OneOnCpu BY OnCpuAlone DEF OneOnCpu
<1>2. QED BY <1>1, InvariantHolds, PermitHolds, PTL

\* grant never reaches a thread that already runs, and a new occupant of a slot
\* never inherits the grant or the freeze of the one before.
THEOREM GrantsAreForParked == ~TickBeforeStart /\ Spec => []GrantIsForParked
<1>1. ASSUME PermitInv, NEW t \in Thread, granted[t[1]], t = Occupant(t[1]), pc[t] # "none"
      PROVE  pc[t] \in ParkPcs /\ (t[1] = CURRENT \/ frozen[t[1]])
  <2>1. t[1] \in Task /\ Present(t) BY <1>1, ThreadParts DEF Occupant, Present
  <2>2. QED BY <1>1, <2>1 DEF PermitInv, GrantsForParked
<1>2. PermitInv => GrantIsForParked BY <1>1 DEF GrantIsForParked
<1>3. QED BY <1>2, PermitHolds, PTL

\* Between two handovers the permit is with the thread of the task the kernel
\* calls current, or granted to it, and the OS does not hold that thread.
THEOREM PermitIsNotStranded == ~TickBeforeStart /\ Spec => []PermitNotStranded
<1>1. ASSUME IInv, PermitInv, HandoverOver
      PROVE  /\ Occupant(CURRENT) \notin suspended
             /\ pc[Occupant(CURRENT)] \in PermitPcs \/ granted[CURRENT]
  <2>1. Settled
    BY <1>1 DEF HandoverOver, Settled, PermitInv, TickTurn
  <2>2. CURRENT \in Task /\ Hands(CURRENT)
    BY <1>1, CurrentHands DEF HandoverOver, IInv, PermitInv, BeforeStart
  <2>3. Occupant(CURRENT) = os_thread[CURRENT]
    <3>1. \A v \in Thread : v = <<v[1], v[2]>> BY DEF Thread
    <3>2. QED BY <2>2, <3>1 DEF Hands, Present, Occupant
  <2>4. /\ ~frozen[CURRENT]
        /\ granted[CURRENT] \/ pc[os_thread[CURRENT]] \in PermitPcs
    BY <1>1, <2>1, <2>2 DEF PermitInv, CurrentHasPermit, Hands
  <2>5. os_thread[CURRENT] \notin suspended
    BY <1>1, <2>2, <2>4 DEF PermitInv, FrozenOccupants, Hands
  <2>6. QED BY <2>3, <2>4, <2>5
<1>2. IInv /\ PermitInv => PermitNotStranded BY <1>1 DEF PermitNotStranded
<1>3. QED BY <1>2, InvariantHolds, PermitHolds, PTL

\* The threads that the abstract CPU has.
Executing == {t \in Thread : OnCpu(t) /\ ~HandingOver(t)}

\* Nobody executes, or the occupant of the current slot.
ChosenExecutes == Executing = {} \/ (CURRENT \in Task /\ Executing = {Occupant(CURRENT)})

\* The invariant says so.
LEMMA ExecutingIsChosen == IInv /\ PermitInv => ChosenExecutes
<1> SUFFICES ASSUME IInv, PermitInv, Executing # {}
             PROVE  CURRENT \in Task /\ Executing = {Occupant(CURRENT)}
  BY DEF ChosenExecutes
<1>1. PICK t \in Thread : OnCpu(t) /\ ~HandingOver(t) BY DEF Executing
<1>2. t[1] = CURRENT /\ Present(t) BY <1>1 DEF PermitInv, OnCpuIsCurrent
<1>3. t = <<t[1], t[2]>> /\ t[1] \in Task BY DEF Thread
<1>4. t = Occupant(CURRENT) BY <1>2, <1>3 DEF Present, Occupant
<1>5. \A u \in Executing : u = t BY <1>1, OnCpuAlone DEF Executing
<1>6. t \in Executing BY <1>1 DEF Executing
<1>7. Executing = {t} BY <1>5, <1>6
<1>8. QED BY <1>2, <1>3, <1>4, <1>7

\* The port starts as the abstract CPU does.
LEMMA CpuInit == Init => CPU!Init
<1> SUFFICES ASSUME Init PROVE CPU!Init OBVIOUS
<1>1. Executing = {} BY DEF Init, Executing, OnCpu, PermitPcs, LockedPcs, FreePcs
<1>2. generation \in [Task -> {0, 1}] BY DEF Init
<1>3. QED BY <1>1, <1>2 DEF Init, CPU!Init, Executing

\* A step that changes neither CURRENT nor an occupant starts the chosen thread,
\* stops it, or does neither.
LEMMA SameChoice ==
    ASSUME ChosenExecutes, ChosenExecutes', UNCHANGED <<CURRENT, generation>>,
           CURRENT \in Task => CURRENT # NO_TASK
    PROVE  [CPU!Next]_(CPU!vars)
<1>1. CASE Executing' = Executing
  BY <1>1 DEF CPU!vars, Executing
<1>2. CASE Executing = {} /\ Executing' # {}
  <2>1. CURRENT \in Task /\ Executing' = {Occupant(CURRENT)}
    BY <1>2 DEF ChosenExecutes, Occupant
  <2>2. CPU!Dispatch
    BY <1>2, <2>1 DEF CPU!Dispatch, CPU!Chosen, Occupant, Executing
  <2>3. QED BY <2>2 DEF CPU!Next
<1>3. CASE Executing # {} /\ Executing' = {}
  BY <1>3 DEF CPU!Next, CPU!Stop, Executing
<1>4. CASE Executing # {} /\ Executing' # {}
  <2>1. Executing' = Executing BY <1>4 DEF ChosenExecutes, Occupant
  <2>2. QED BY <1>1, <2>1
<1>5. QED BY <1>1, <1>2, <1>3, <1>4

\* create_task gives the slot a new occupant.
LEMMA CreateReplaces ==
    ASSUME IInv, NEW t \in Thread, NEW j \in Task, KernelCreate(t, j)
    PROVE  CPU!Next
<1>1. Executing' = Executing
  BY DEF Executing, KernelCreate, At, Goto, IInv, TypeOK, OnCpu, HandingOver, PermitPcs,
     LockedPcs, FreePcs
<1>2. j # CURRENT /\ CURRENT' = CURRENT /\ generation' = [generation EXCEPT ![j] = @ + 1]
  BY DEF KernelCreate, statics
<1>3. CPU!Replace(j) BY <1>1, <1>2 DEF CPU!Replace, Executing
<1>4. QED BY <1>3 DEF CPU!Next

\* A task named before the start, or under a tick that froze the old one, is
\* named while nobody executes.
LEMMA NamesWhileIdle ==
    ASSUME PermitInv, NEW n \in Task, froze \/ bootPc # "asleep",
           UNCHANGED <<pc, suspended, generation>>, CURRENT' = n
    PROVE  CPU!Next
<1>1. Executing = {} BY DEF Executing, PermitInv, OnCpuIsCurrent
<1>2. Executing' = Executing BY DEF Executing, OnCpu, HandingOver
<1>3. CPU!Choose(n) BY <1>1, <1>2 DEF CPU!Choose, Executing
<1>4. QED BY <1>3 DEF CPU!Next

\* A switch to another task gives the CPU up in the step that names it.
LEMMA AskYields ==
    ASSUME IInv, PermitInv, NEW t \in Thread, NEW n \in Task, SwitchAsk(t, n), n # CURRENT
    PROVE  CPU!Next
<1>1. /\ At(t, "sw_enter") /\ pc \in [Thread -> Pc]
      /\ OnCpu(t) /\ ~HandingOver(t)
  BY DEF SwitchAsk, At, OnCpu, HandingOver, PermitPcs, FreePcs, IInv, TypeOK
<1>2. t[1] = CURRENT /\ CURRENT # NO_TASK
  BY <1>1, HostConstants, ThreadParts DEF PermitInv, OnCpuIsCurrent
<1>3. /\ pc' = [pc EXCEPT ![t] = "sw_lock"] /\ suspended' = suspended
      /\ CURRENT' = n /\ generation' = generation
  BY <1>2 DEF SwitchAsk, Goto, slotVars
<1>4. Executing = {t}
  BY <1>1, OnCpuAlone DEF Executing
<1>5. Executing' = {}
  <2>1. \A u \in Thread : u # t => pc'[u] = pc[u] BY <1>1, <1>3
  <2>2. pc'[t] = "sw_lock" BY <1>1, <1>3
  <2>3. \A u \in Thread : u # t => ~(OnCpu(u) /\ ~HandingOver(u)) BY <1>4 DEF Executing
  <2>4. QED BY <1>3, <2>1, <2>2, <2>3 DEF Executing, OnCpu, HandingOver
<1>6. CPU!Yield(n) BY <1>3, <1>4, <1>5 DEF CPU!Yield, Executing
<1>7. QED BY <1>6 DEF CPU!Next

\* Every step of the port is a step of the abstract CPU, or none.
LEMMA CpuNext ==
    ASSUME IInv, PermitInv, ChosenExecutes, ChosenExecutes', [Next]_vars
    PROVE  [CPU!Next]_(CPU!vars)
<1>1. CASE UNCHANGED <<CURRENT, generation>>
  BY <1>1, SameChoice, HostConstants
<1>2. ASSUME NEW t \in Thread, TaskStep(t), ~UNCHANGED <<CURRENT, generation>>
      PROVE  CPU!Next
  <2>1. \/ \E j \in Task : KernelCreate(t, j)
        \/ \E n \in Task : SwitchAsk(t, n) /\ n # CURRENT
    <3>1. \A n \in Task : SwitchAsk(t, n) => n # CURRENT
      BY <1>2 DEF SwitchAsk, slotVars
    <3>2. \/ \E j \in Task : KernelCreate(t, j)
          \/ \E n \in Task : SwitchAsk(t, n)
      BY <1>2 DEF TaskStep, EnterCritical, EnterNested, ExitNested, ExitOuter, ExitReadInTick,
         ExitSwapPending, KernelBlock, KernelWake, KernelDelete, InitClear, InitSpawn,
         PendSwitch, SwitchLock, SwitchGrant, SwitchSignal, SwitchRelease, PermitLock,
         PermitTake, PermitWait, SpuriousWake, SwitchReacquire, SwitchExit, statics, slotVars
    <3>3. QED BY <3>1, <3>2
  <2>2. QED BY <2>1, CreateReplaces, AskYields
<1>3. ASSUME BootStep, ~UNCHANGED <<CURRENT, generation>>
      PROVE  CPU!Next
  <2>1. PICK i \in Task : StartStore(i)
    BY <1>3 DEF BootStep, StartGrant, StartSignal, statics
  <2>2. QED BY <2>1, NamesWhileIdle DEF StartStore, slotVars
<1>4. ASSUME TickStep, ~UNCHANGED <<CURRENT, generation>>
      PROVE  CPU!Next
  <2>1. PICK woken \in SUBSET Task, n \in Task : TickAsk(woken, n)
    BY <1>4 DEF TickStep, TickEnter, FreezeRunning, FreezeDeclines, TickKeep, TickExit,
       TickResume, TickGrantThaw, TickGrantSwap, TickGrantSet, statics, slotVars
  <2>2. QED BY <2>1, NamesWhileIdle DEF TickAsk, slotVars
<1>5. CASE UNCHANGED vars BY <1>1, <1>5 DEF vars, statics, slotVars
<1>6. QED BY <1>1, <1>2, <1>3, <1>4, <1>5 DEF Next

\* The port implements one CPU: its executing threads, its CURRENT and its
\* generations go through the states of RunPermit, whatever tasks, ticks, freezes
\* and slot reuse interleave.
THEOREM ImplementsOneCpu == ~TickBeforeStart /\ Spec => SingleCpu
<1>1. IInv /\ PermitInv => ChosenExecutes BY ExecutingIsChosen
<1>2. IInv /\ PermitInv /\ ChosenExecutes /\ ChosenExecutes' /\ [Next]_vars
        => [CPU!Next]_(CPU!vars)
  BY CpuNext
<1>3. QED
  BY <1>1, <1>2, CpuInit, InvariantHolds, PermitHolds, PTL DEF Spec, SingleCpu, CPU!Spec

=============================================================================

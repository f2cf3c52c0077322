-------------------------- MODULE MCRelease_proofs --------------------------
(***************************************************************************)
(* What the wait queue and the RISC-V trap of MCRelease promise, for every *)
(* number of waiters, of switches and of nested sections.                  *)
(*                                                                         *)
(* The wait queue: a notify owes its waiters a release, and until it has   *)
(* given all it read nobody else begins to wait, so those who are owed are *)
(* exactly those who ask; what is in the semaphore and what is still to be *)
(* given are together enough for them.                                     *)
(*                                                                         *)
(* The trap: a register is the task's own as long as what was saved on its *)
(* way out is; a task is only ever switched out outside its sections, with *)
(* its caller-saved registers on its own stack.                            *)
(***************************************************************************)
EXTENDS MCRelease, Integers, FiniteSetTheorems, TLAPS

\* The variables of the three, as MCRelease's next-state relation keeps them.
both == <<part, vars, wait, riscv>>

-----------------------------------------------------------------------------
(* RadioWaitQueue.                                                         *)

\* A step of the three is a step of the wait queue, or leaves it alone.
LEMMA WaitMoves ==
    ASSUME [ReleaseNext]_both PROVE Wait!Next \/ UNCHANGED wait
BY DEF ReleaseNext, both

\* Nobody begins to wait while a notify releases others, and the semaphore
\* holds a release for every waiter.
WaitFits == ~Overlap /\ Cardinality(Waiter) <= MaxCount

\* The variables and what they may hold.
WaitTypes ==
    /\ waiters \in Nat /\ left \in Nat /\ sem \in 0..MaxCount
    /\ wpc \in [Waiter -> {"idle", "asking", "leaving"}]
    /\ npc \in {"idle", "giving"}

\* Those who have registered and not taken themselves off again.
Registered == {w \in Waiter : wpc[w] # "idle"}

\* Those who are owed a release are those who ask, during a notify all of them.
OwedAsk ==
    /\ owed \subseteq Wait!Asking
    /\ owed = {} \/ owed = Wait!Asking
    /\ npc = "giving" => owed = Wait!Asking

\* The semaphore, with what is still to be given, covers those who are owed.
OwedCovered ==
    /\ npc = "giving" => Cardinality(owed) <= sem + left
    /\ npc = "idle" => Cardinality(owed) <= sem

\* No registration is lost or left behind.
Counted == waiters = Cardinality(Registered)

WaitInv == WaitTypes /\ Counted /\ OwedAsk /\ OwedCovered

\* Finiteness and size mean the same in RadioWaitQueue.
LEMMA SameSize ==
    /\ \A S : Wait!IsFiniteSet(S) <=> IsFiniteSet(S)
    /\ \A S : Wait!Cardinality(S) = Cardinality(S)
BY DEF Wait!IsFiniteSet, Wait!Cardinality, IsFiniteSet, Cardinality

\* The sets of waiters are finite, and those who ask have registered.
LEMMA WaitSets ==
    ASSUME WaitFits, WaitTypes
    PROVE  /\ IsFiniteSet(Waiter) /\ MaxCount \in Nat \ {0} /\ Cardinality(Waiter) <= MaxCount
           /\ IsFiniteSet(Wait!Asking) /\ IsFiniteSet(Registered)
           /\ Cardinality(Wait!Asking) \in Nat /\ Cardinality(Registered) \in Nat
           /\ Cardinality(Wait!Asking) <= Cardinality(Registered)
           /\ Cardinality(Registered) <= MaxCount
<1>1. IsFiniteSet(Waiter) /\ MaxCount \in Nat \ {0}
  BY WaitFacts, SameSize DEF Wait!WaitConstants
<1>2. Wait!Asking \subseteq Registered /\ Registered \subseteq Waiter
  BY DEF Wait!Asking, Registered
<1>3. IsFiniteSet(Registered) /\ Cardinality(Registered) <= Cardinality(Waiter)
  BY <1>1, <1>2, FS_Subset
<1>4. IsFiniteSet(Wait!Asking) /\ Cardinality(Wait!Asking) <= Cardinality(Registered)
  BY <1>2, <1>3, FS_Subset
<1>5. /\ Cardinality(Waiter) \in Nat /\ Cardinality(Registered) \in Nat
      /\ Cardinality(Wait!Asking) \in Nat
  BY <1>1, <1>3, <1>4, FS_CardinalityType
<1> QED BY <1>1, <1>3, <1>4, <1>5 DEF WaitFits

\* At the start nobody waits and nobody is owed.
LEMMA WaitStarts == ASSUME WaitFits, Wait!Init PROVE WaitInv
<1>1. WaitTypes
  BY WaitFacts DEF Wait!Init, WaitTypes, Wait!WaitConstants
<1>2. Registered = {} /\ Wait!Asking = {}
  BY DEF Wait!Init, Registered, Wait!Asking
<1> QED BY <1>1, <1>2, FS_EmptySet
        DEF Wait!Init, WaitInv, OwedAsk, OwedCovered, Counted

\* A task that goes from one place to another leaves the others where they are.
LEMMA GotoMoves ==
    ASSUME WaitTypes, NEW w \in Waiter, NEW from, NEW to \in {"idle", "asking", "leaving"},
           Wait!Goto(w, from, to)
    PROVE  /\ wpc' \in [Waiter -> {"idle", "asking", "leaving"}] /\ wpc[w] = from
           /\ Registered' = IF to = "idle" THEN Registered \ {w} ELSE Registered \cup {w}
           /\ Wait!Asking' = IF to = "asking" THEN Wait!Asking \cup {w} ELSE Wait!Asking \ {w}
<1>1. wpc \in [Waiter -> {"idle", "asking", "leaving"}] /\ wpc[w] = from /\ wpc' = [wpc EXCEPT ![w] = to]
  BY DEF WaitTypes, Wait!Goto
<1>2. wpc' \in [Waiter -> {"idle", "asking", "leaving"}]
  BY <1>1
<1>3. \A v \in Waiter : wpc'[v] = IF v = w THEN to ELSE wpc[v]
  BY <1>1
<1> QED BY <1>1, <1>2, <1>3 DEF Registered, Wait!Asking

\* A task registers when nobody is owed.
LEMMA WaitRegister ==
    ASSUME WaitFits, WaitInv, NEW w \in Waiter, Wait!Register(w) PROVE WaitInv'
<1>0. WaitTypes /\ Counted /\ OwedAsk /\ OwedCovered
  BY DEF WaitInv
<1>1. /\ Wait!Goto(w, "idle", "asking") /\ owed = {} /\ npc = "idle"
      /\ waiters' = waiters + 1 /\ UNCHANGED <<sem, npc, left, owed>>
  BY DEF Wait!Register, WaitFits
<1>2. /\ wpc' \in [Waiter -> {"idle", "asking", "leaving"}]
      /\ Registered' = Registered \cup {w} /\ w \notin Registered
  BY <1>0, <1>1, GotoMoves DEF Registered
<1>3. Cardinality(Registered') = Cardinality(Registered) + 1
  BY <1>0, <1>2, WaitSets, FS_AddElement
<1>4. WaitTypes'
  BY <1>0, <1>1, <1>2 DEF WaitTypes
<1>5. Counted'
  BY <1>0, <1>1, <1>3 DEF Counted
<1>6. OwedAsk' /\ OwedCovered'
  BY <1>0, <1>1 DEF OwedAsk, OwedCovered
<1> QED BY <1>4, <1>5, <1>6 DEF WaitInv

\* A task that leaves, with a release or at its deadline, is owed nothing.
LEMMA WaitLeaves ==
    ASSUME WaitFits, WaitInv, NEW w \in Waiter, Wait!Take(w) \/ Wait!TimesOut(w) PROVE WaitInv'
<1>0. WaitTypes /\ Counted /\ OwedAsk /\ OwedCovered
  BY DEF WaitInv
<1>1. /\ Wait!Goto(w, "asking", "leaving") /\ owed' = owed \ {w}
      /\ (sem > 0 /\ sem' = sem - 1) \/ (sem = 0 /\ sem' = sem)
      /\ UNCHANGED <<waiters, npc, left>>
  BY DEF Wait!Take, Wait!TimesOut
<1>2. /\ wpc' \in [Waiter -> {"idle", "asking", "leaving"}]
      /\ Registered' = Registered \cup {w} /\ w \in Registered
      /\ Wait!Asking' = Wait!Asking \ {w} /\ w \in Wait!Asking
  BY <1>0, <1>1, GotoMoves DEF Registered, Wait!Asking
<1>3. sem \in Nat /\ sem' \in 0..MaxCount /\ left \in Nat /\ MaxCount \in Nat
  BY <1>0, <1>1, WaitSets DEF WaitTypes
<1>4. WaitTypes'
  BY <1>0, <1>1, <1>2, <1>3 DEF WaitTypes
<1>5. Counted'
  <2>1. Registered' = Registered
    BY <1>2
  <2> QED BY <1>0, <1>1, <2>1 DEF Counted
<1>6. OwedAsk'
  BY <1>0, <1>1, <1>2 DEF OwedAsk
<1>7. /\ Cardinality({}) = 0 /\ IsFiniteSet(owed) /\ Cardinality(owed) \in Nat
      /\ Cardinality(owed \ {w}) = IF w \in owed THEN Cardinality(owed) - 1 ELSE Cardinality(owed)
  <2>1. IsFiniteSet(owed)
    BY <1>0, WaitSets, FS_EmptySet DEF OwedAsk
  <2> QED BY <2>1, FS_EmptySet, FS_RemoveElement, FS_CardinalityType
<1>8. OwedCovered'
  <2>1. CASE owed = {}
    <3>1. owed' = {}
      BY <1>1, <2>1
    <3> QED BY <3>1, <1>3, <1>7, <1>1 DEF OwedCovered
  <2>2. CASE owed # {}
    <3>1. w \in owed
      BY <2>2, <1>0, <1>2 DEF OwedAsk
    <3> QED BY <3>1, <1>0, <1>1, <1>3, <1>7 DEF OwedCovered
  <2> QED BY <2>1, <2>2
<1> QED BY <1>4, <1>5, <1>6, <1>8 DEF WaitInv

\* A task takes itself off the count, on which it was.
LEMMA WaitDeregister ==
    ASSUME WaitFits, WaitInv, NEW w \in Waiter, Wait!Deregister(w) PROVE WaitInv'
<1>0. WaitTypes /\ Counted /\ OwedAsk /\ OwedCovered
  BY DEF WaitInv
<1>1. /\ Wait!Goto(w, "leaving", "idle") /\ UNCHANGED <<sem, npc, left, owed>>
      /\ waiters' = IF waiters > 0 THEN waiters - 1 ELSE 0
  BY DEF Wait!Deregister
<1>2. /\ wpc' \in [Waiter -> {"idle", "asking", "leaving"}]
      /\ Registered' = Registered \ {w} /\ w \in Registered
      /\ Wait!Asking' = Wait!Asking
  <2>1. /\ wpc' \in [Waiter -> {"idle", "asking", "leaving"}] /\ wpc[w] = "leaving"
        /\ Registered' = Registered \ {w} /\ Wait!Asking' = Wait!Asking \ {w}
    BY <1>0, <1>1, GotoMoves
  <2>2. w \in Registered /\ w \notin Wait!Asking
    BY <2>1 DEF Registered, Wait!Asking
  <2> QED BY <2>1, <2>2
<1>3. Cardinality(Registered') = Cardinality(Registered) - 1 /\ Cardinality(Registered) # 0
  BY <1>0, <1>2, WaitSets, FS_RemoveElement, FS_EmptySet
<1>4. waiters \in Nat /\ waiters' = waiters - 1 /\ waiters' \in Nat
  BY <1>0, <1>1, <1>3 DEF WaitTypes, Counted
<1>5. WaitTypes'
  BY <1>0, <1>1, <1>2, <1>4 DEF WaitTypes
<1>6. Counted'
  BY <1>0, <1>3, <1>4 DEF Counted
<1>7. OwedAsk' /\ OwedCovered'
  BY <1>0, <1>1, <1>2 DEF OwedAsk, OwedCovered
<1> QED BY <1>5, <1>6, <1>7 DEF WaitInv

\* A notify's gives are as many as have registered, so as many as ask.
LEMMA WaitNotify ==
    ASSUME WaitFits, WaitInv,
           Wait!NotifyRead \/ Wait!NotifyGive \/ Wait!NotifyReturn \/ Wait!NotifyFromIsr
    PROVE  WaitInv'
<1>0. WaitTypes /\ Counted /\ OwedAsk /\ OwedCovered
  BY DEF WaitInv
<1>1. /\ waiters \in Nat /\ left \in Nat /\ sem \in Nat /\ sem <= MaxCount /\ MaxCount \in Nat \ {0}
      /\ Cardinality(Wait!Asking) \in Nat /\ Cardinality(Wait!Asking) <= waiters
      /\ waiters <= MaxCount
  BY <1>0, WaitSets DEF WaitTypes, Counted
<1>2. /\ UNCHANGED <<waiters, wpc>> /\ Registered' = Registered /\ Wait!Asking' = Wait!Asking
  BY DEF Wait!NotifyRead, Wait!NotifyGive, Wait!NotifyReturn, Wait!NotifyFromIsr, Registered, Wait!Asking
<1>3. owed \cup Wait!Asking = Wait!Asking
  BY <1>0 DEF OwedAsk
<1>4. Cardinality(owed) \in Nat /\ Cardinality(owed) <= MaxCount
  BY <1>0, <1>1, FS_EmptySet DEF OwedAsk
<1>5. Counted'
  BY <1>0, <1>2 DEF Counted
<1>6. CASE Wait!NotifyRead
  <2>1. left' = waiters /\ npc' = "giving" /\ owed' = Wait!Asking /\ sem' = sem
    BY <1>6, <1>3 DEF Wait!NotifyRead
  <2>2. WaitTypes' /\ OwedAsk' /\ OwedCovered'
    BY <2>1, <1>0, <1>1, <1>2 DEF WaitTypes, OwedAsk, OwedCovered
  <2> QED BY <2>2, <1>5 DEF WaitInv
<1>7. CASE Wait!NotifyGive
  <2>1. /\ npc = "giving" /\ left > 0 /\ left' = left - 1 /\ UNCHANGED <<npc, owed>>
        /\ sem' = IF sem + 1 <= MaxCount THEN sem + 1 ELSE MaxCount
    BY <1>7 DEF Wait!NotifyGive, Wait!Given
  <2>2. WaitTypes' /\ OwedAsk'
    BY <2>1, <1>0, <1>1, <1>2 DEF WaitTypes, OwedAsk
  <2>3. OwedCovered'
    BY <2>1, <1>0, <1>1, <1>4 DEF OwedCovered
  <2> QED BY <2>2, <2>3, <1>5 DEF WaitInv
<1>8. CASE Wait!NotifyReturn
  <2>1. npc = "giving" /\ left = 0 /\ npc' = "idle" /\ UNCHANGED <<sem, left, owed>>
    BY <1>8 DEF Wait!NotifyReturn
  <2>2. WaitTypes' /\ OwedAsk' /\ OwedCovered'
    BY <2>1, <1>0, <1>1, <1>2, <1>4 DEF WaitTypes, OwedAsk, OwedCovered
  <2> QED BY <2>2, <1>5 DEF WaitInv
<1>9. CASE Wait!NotifyFromIsr
  <2>1. /\ owed' = Wait!Asking /\ UNCHANGED <<npc, left>>
        /\ sem' = IF sem + waiters <= MaxCount THEN sem + waiters ELSE MaxCount
    BY <1>9, <1>3 DEF Wait!NotifyFromIsr, Wait!Given
  <2>2. sem' \in 0..MaxCount /\ Cardinality(Wait!Asking) <= sem'
    BY <2>1, <1>1
  <2>3. WaitTypes' /\ OwedAsk' /\ OwedCovered'
    BY <2>1, <2>2, <1>0, <1>1, <1>2 DEF WaitTypes, OwedAsk, OwedCovered
  <2> QED BY <2>3, <1>5 DEF WaitInv
<1> QED BY <1>6, <1>7, <1>8, <1>9

\* Every step keeps the invariant.
LEMMA WaitNext ==
    ASSUME WaitFits, WaitInv, Wait!Next \/ UNCHANGED wait PROVE WaitInv'
<1>1. CASE UNCHANGED wait
  BY <1>1 DEF wait, WaitInv, WaitTypes, Counted, OwedAsk, OwedCovered, Registered, Wait!Asking
<1> QED BY <1>1, WaitRegister, WaitLeaves, WaitDeregister, WaitNotify DEF Wait!Next, Wait!TaskStep

\* For any number of waiters up to the semaphore's maximum (64 in the source),
\* with takes, timeouts and notifies from the interrupt in any order: once a
\* notify has given all it read, whoever was waiting then has returned or finds
\* the semaphore positive.
THEOREM OneNotifyReleasesAll == WaitFits /\ ReleaseSpec => []EveryoneReleased
<1> SUFFICES ASSUME WaitFits PROVE ReleaseSpec => []EveryoneReleased
  OBVIOUS
<1>1. ReleaseInit => WaitInv
  BY WaitStarts DEF ReleaseInit
<1>2. WaitInv /\ [ReleaseNext]_both => WaitInv'
  BY WaitMoves, WaitNext
<1>3. WaitInv => EveryoneReleased
  <2> SUFFICES ASSUME WaitInv, npc = "idle", sem = 0 PROVE owed = {}
    BY DEF EveryoneReleased, Wait!EveryoneReleased
  <2>1. IsFiniteSet(owed) /\ Cardinality(owed) \in Nat /\ Cardinality(owed) <= 0
    BY WaitSets, FS_EmptySet DEF WaitInv, OwedAsk, OwedCovered
  <2> QED BY <2>1, FS_EmptySet
<1>4. ReleaseSpec => ReleaseInit /\ [][ReleaseNext]_both
  BY DEF ReleaseSpec, both
<1> QED BY <1>1, <1>2, <1>3, <1>4, PTL

-----------------------------------------------------------------------------
(* RiscvTrap.                                                              *)

\* A step of the three is a step of the trap, or leaves it alone.
LEMMA TrapMoves ==
    ASSUME [ReleaseNext]_both PROVE Riscv!Next \/ UNCHANGED riscv
BY DEF ReleaseNext, both

\* The variables and what they may hold; mepc never names a section.
TrapTypes ==
    /\ mie \in BOOLEAN /\ mpie \in BOOLEAN /\ was_enabled \in BOOLEAN /\ nesting \in Nat
    /\ mepc \in Riscv!Address /\ mepc.line = "loop" /\ pc \in Riscv!Address
    /\ place \in Riscv!Places
    /\ sp \in Riscv!Contexts /\ s \in Riscv!Contexts /\ t \in Riscv!Contexts
    /\ frame \in [Riscv!Contexts -> Riscv!Contexts]
    /\ contexts \in [Riscv!Contexts -> Riscv!Context]
    /\ CURRENT \in Riscv!Contexts

\* A section is code with interrupts off, and what its exit puts back is on.
SectionIsMasked ==
    /\ nesting > 0 => place = "code" /\ pc.task \in Riscv!Tasks
    /\ nesting > 0 => ~mie /\ was_enabled
    /\ place = "code" => (mie <=> nesting = 0) /\ (pc.line = "loop" <=> nesting = 0)
    /\ place \in {"timer", "soft", "leave", "trampoline"} => ~mie /\ mpie

\* What the task that CURRENT names has in the registers: in its code all, in a
\* trap what the trap's end will not load again, and the rest on its own stack.
RegistersAreCurrents ==
    /\ sp = CURRENT /\ s = CURRENT
    /\ place \in {"code", "report"} => t = CURRENT /\ pc.task = CURRENT
    /\ place \in {"timer", "soft", "leave"} => frame[CURRENT] = CURRENT
    /\ place \in {"timer", "soft", "leave", "trampoline"} => mepc.task = CURRENT

\* What is saved of the others is theirs, and resumes them unmasked.
SavedIsTheirs ==
    \A c \in Riscv!Contexts \ {CURRENT} :
        /\ contexts[c].sp = c /\ contexts[c].s = c /\ contexts[c].mpie
        /\ contexts[c].mepc = Riscv!At(c)
        /\ contexts[c].ra = "leave" => frame[c] = c

TrapInv == TrapTypes /\ SectionIsMasked /\ RegistersAreCurrents /\ SavedIsTheirs

\* main starts as the task that CURRENT names, and both tasks fresh.
LEMMA TrapStarts == ASSUME Riscv!Init PROVE TrapInv
<1>1. TrapTypes
  BY DEF Riscv!Init, TrapTypes, Riscv!Address, Riscv!At, Riscv!Contexts, Riscv!Lines, Riscv!Places, Riscv!Context, Riscv!new_task_context_preemptive
<1>2. SectionIsMasked /\ RegistersAreCurrents
  BY DEF Riscv!Init, SectionIsMasked, RegistersAreCurrents, Riscv!At
<1>3. SavedIsTheirs
  BY DEF Riscv!Init, SavedIsTheirs, Riscv!new_task_context_preemptive
<1> QED BY <1>1, <1>2, <1>3 DEF TrapInv

\* The timer touches nothing but its own request.
LEMMA Trap_TimerDue == ASSUME TrapInv, Riscv!TimerDue PROVE TrapInv'
<1>0. TrapTypes /\ SectionIsMasked /\ RegistersAreCurrents /\ SavedIsTheirs
  BY DEF TrapInv
<1>1. TrapTypes'
  BY <1>0 DEF Riscv!TimerDue, Riscv!csr, Riscv!regs, Riscv!cell, Riscv!port, TrapTypes
<1>2. SectionIsMasked'
  BY <1>0 DEF Riscv!TimerDue, Riscv!csr, Riscv!port, SectionIsMasked
<1>3. RegistersAreCurrents'
  BY <1>0 DEF Riscv!TimerDue, Riscv!csr, Riscv!regs, Riscv!cell, RegistersAreCurrents
<1>4. SavedIsTheirs'
  BY <1>0 DEF Riscv!TimerDue, Riscv!cell, SavedIsTheirs
<1> QED BY <1>1, <1>2, <1>3, <1>4 DEF TrapInv

\* The trap's entry puts the caller-saved registers on the current task's stack.
LEMMA Trap_Trap == ASSUME TrapInv, Riscv!Trap PROVE TrapInv'
<1>0. TrapTypes /\ SectionIsMasked /\ RegistersAreCurrents /\ SavedIsTheirs
  BY DEF TrapInv
<1>1. TrapTypes'
  BY <1>0 DEF Riscv!Trap, Riscv!regs, Riscv!cell, Riscv!port, TrapTypes, SectionIsMasked, Riscv!Places
<1>2. SectionIsMasked'
  BY <1>0 DEF Riscv!Trap, Riscv!port, SectionIsMasked
<1>3. RegistersAreCurrents'
  BY <1>0 DEF Riscv!Trap, Riscv!regs, Riscv!cell, TrapTypes, RegistersAreCurrents
<1>4. SavedIsTheirs'
  BY <1>0 DEF Riscv!Trap, Riscv!cell, RegistersAreCurrents, SavedIsTheirs
<1> QED BY <1>1, <1>2, <1>3, <1>4 DEF TrapInv

\* The trap's end loads the caller-saved registers and unmasks.
LEMMA Trap_Leave == ASSUME TrapInv, Riscv!Leave PROVE TrapInv'
<1>0. TrapTypes /\ SectionIsMasked /\ RegistersAreCurrents /\ SavedIsTheirs
  BY DEF TrapInv
<1>1. TrapTypes'
  BY <1>0 DEF Riscv!Leave, Riscv!Mret, Riscv!cell, Riscv!port, TrapTypes, Riscv!Places
<1>2. SectionIsMasked'
  BY <1>0 DEF Riscv!Leave, Riscv!Mret, Riscv!port, TrapTypes, SectionIsMasked
<1>3. RegistersAreCurrents'
  BY <1>0 DEF Riscv!Leave, Riscv!Mret, Riscv!cell, RegistersAreCurrents
<1>4. SavedIsTheirs'
  BY <1>0 DEF Riscv!Leave, Riscv!cell, SavedIsTheirs
<1> QED BY <1>1, <1>2, <1>3, <1>4 DEF TrapInv

\* A fresh task's first way out of a trap.
LEMMA Trap_Trampoline == ASSUME TrapInv, Riscv!Trampoline PROVE TrapInv'
<1>0. TrapTypes /\ SectionIsMasked /\ RegistersAreCurrents /\ SavedIsTheirs
  BY DEF TrapInv
<1>1. TrapTypes'
  BY <1>0 DEF Riscv!Trampoline, Riscv!Mret, Riscv!LeaveFresh, Riscv!cell, Riscv!port, TrapTypes, Riscv!Places
<1>2. SectionIsMasked'
  BY <1>0 DEF Riscv!Trampoline, Riscv!Mret, Riscv!LeaveFresh, Riscv!port, TrapTypes, SectionIsMasked
<1>3. RegistersAreCurrents'
  BY <1>0 DEF Riscv!Trampoline, Riscv!Mret, Riscv!LeaveFresh, Riscv!cell, RegistersAreCurrents
<1>4. SavedIsTheirs'
  BY <1>0 DEF Riscv!Trampoline, Riscv!cell, SavedIsTheirs
<1> QED BY <1>1, <1>2, <1>3, <1>4 DEF TrapInv

\* The timer's handler asks for the switch.
LEMMA Trap_machine_timer == ASSUME TrapInv, Riscv!machine_timer PROVE TrapInv'
<1>0. TrapTypes /\ SectionIsMasked /\ RegistersAreCurrents /\ SavedIsTheirs
  BY DEF TrapInv
<1>1. TrapTypes'
  BY <1>0 DEF Riscv!machine_timer, Riscv!csr, Riscv!regs, Riscv!cell, Riscv!port, TrapTypes, Riscv!Places
<1>2. SectionIsMasked'
  BY <1>0 DEF Riscv!machine_timer, Riscv!csr, Riscv!port, SectionIsMasked
<1>3. RegistersAreCurrents'
  BY <1>0 DEF Riscv!machine_timer, Riscv!csr, Riscv!regs, Riscv!cell, RegistersAreCurrents
<1>4. SavedIsTheirs'
  BY <1>0 DEF Riscv!machine_timer, Riscv!cell, SavedIsTheirs
<1> QED BY <1>1, <1>2, <1>3, <1>4 DEF TrapInv

\* The switch saves what is the outgoing task's and loads what is the other's.
LEMMA Trap_machine_soft == ASSUME TrapInv, Riscv!machine_soft PROVE TrapInv'
<1>0. TrapTypes /\ SectionIsMasked /\ RegistersAreCurrents /\ SavedIsTheirs
  BY DEF TrapInv
<1> DEFINE to == Riscv!To
<1>1. /\ place = "soft" /\ ~mie /\ mpie /\ nesting = 0
      /\ sp = CURRENT /\ s = CURRENT /\ frame[CURRENT] = CURRENT /\ mepc = Riscv!At(CURRENT)
      /\ UNCHANGED <<mie, pc, t, frame, nesting, was_enabled>>
  <2>1. mepc.task = CURRENT /\ mepc.line = "loop" /\ mepc \in Riscv!Address
    BY <1>0 DEF TrapTypes, RegistersAreCurrents, Riscv!machine_soft
  <2>2. mepc = Riscv!At(CURRENT)
    BY <2>1 DEF Riscv!Address, Riscv!At
  <2> QED BY <1>0, <2>2 DEF SectionIsMasked, RegistersAreCurrents, Riscv!machine_soft, Riscv!port, TrapTypes
<1>2. CASE place' = "leave" /\ UNCHANGED <<sp, s, mepc, mpie, contexts, CURRENT, switched>>
  <2>1. TrapTypes'
    BY <1>0, <1>1, <1>2 DEF TrapTypes, Riscv!Places
  <2>2. SectionIsMasked' /\ RegistersAreCurrents' /\ SavedIsTheirs'
    BY <1>0, <1>1, <1>2 DEF SectionIsMasked, RegistersAreCurrents, SavedIsTheirs
  <2> QED BY <2>1, <2>2 DEF TrapInv
<1>3. CASE /\ to # CURRENT /\ contexts' = [contexts EXCEPT ![CURRENT] = Riscv!Outgoing]
           /\ sp' = contexts[to].sp /\ s' = contexts[to].s /\ mepc' = contexts[to].mepc
           /\ mpie' = contexts[to].mpie /\ place' = contexts[to].ra /\ CURRENT' = to
  <2>1. to \in Riscv!Contexts /\ CURRENT \in Riscv!Contexts
    BY <1>0 DEF Riscv!To, Riscv!Contexts, Riscv!Tasks, TrapTypes
  <2>2. /\ sp' = to /\ s' = to /\ mepc' = Riscv!At(to) /\ mpie' = TRUE
        /\ place' \in {"leave", "trampoline"} /\ (place' = "leave" => frame[to] = to)
    BY <1>0, <1>3, <2>1 DEF SavedIsTheirs, TrapTypes, Riscv!Context
  <2>3. /\ mepc'.task = to /\ mepc'.line = "loop" /\ mepc' \in Riscv!Address
    BY <2>1, <2>2 DEF Riscv!At, Riscv!Address, Riscv!Lines
  <2>4. /\ Riscv!Outgoing \in Riscv!Context /\ Riscv!Outgoing.sp = CURRENT /\ Riscv!Outgoing.s = CURRENT
        /\ Riscv!Outgoing.mpie = TRUE /\ Riscv!Outgoing.mepc = Riscv!At(CURRENT)
    BY <1>0, <1>1 DEF Riscv!Outgoing, Riscv!Context, TrapTypes
  <2>5. contexts' \in [Riscv!Contexts -> Riscv!Context]
    BY <1>0, <1>3, <2>4 DEF TrapTypes
  <2>6. TrapTypes'
    BY <1>0, <1>1, <1>3, <2>1, <2>2, <2>3, <2>5 DEF TrapTypes, Riscv!Places
  <2>7. SectionIsMasked' /\ RegistersAreCurrents'
    BY <1>1, <1>3, <2>2, <2>3 DEF SectionIsMasked, RegistersAreCurrents
  <2>8. SavedIsTheirs'
    <3> SUFFICES ASSUME NEW c \in Riscv!Contexts \ {to}
                 PROVE  /\ contexts'[c].sp = c /\ contexts'[c].s = c /\ contexts'[c].mpie
                        /\ contexts'[c].mepc = Riscv!At(c)
                        /\ contexts'[c].ra = "leave" => frame[c] = c
      BY <1>1, <1>3 DEF SavedIsTheirs, Riscv!At
    <3>1. CASE c = CURRENT
      <4>1. contexts'[c] = Riscv!Outgoing
        BY <3>1, <1>3, <1>0, <2>1 DEF TrapTypes
      <4> QED BY <3>1, <4>1, <2>4, <1>1
    <3>2. CASE c # CURRENT
      <4>1. contexts'[c] = contexts[c]
        BY <3>2, <1>3, <1>0 DEF TrapTypes
      <4> QED BY <3>2, <4>1, <1>0 DEF SavedIsTheirs
    <3> QED BY <3>1, <3>2
  <2> QED BY <2>6, <2>7, <2>8 DEF TrapInv
<1> QED BY <1>2, <1>3 DEF Riscv!machine_soft, Riscv!Resume

\* A section masks, and keeps what was found by the outermost.
LEMMA Trap_enter_critical == ASSUME TrapInv, Riscv!enter_critical PROVE TrapInv'
<1>0. TrapTypes /\ SectionIsMasked /\ RegistersAreCurrents /\ SavedIsTheirs
  BY DEF TrapInv
<1>1. TrapTypes'
  <2>1. pc' \in Riscv!Address
    BY <1>0 DEF Riscv!enter_critical, TrapTypes, Riscv!Address, Riscv!Lines
  <2>2. nesting' \in Nat
    BY <1>0 DEF Riscv!enter_critical, TrapTypes
  <2>3. mie' \in BOOLEAN /\ was_enabled' \in BOOLEAN
    BY <1>0 DEF Riscv!enter_critical, Riscv!KeptState, TrapTypes
  <2>4. UNCHANGED <<mpie, mepc, place, sp, s, t, frame, contexts, CURRENT>>
    BY DEF Riscv!enter_critical, Riscv!regs, Riscv!cell
  <2> QED BY <1>0, <2>1, <2>2, <2>3, <2>4 DEF TrapTypes
<1>2. SectionIsMasked'
  <2>1. /\ pc'.task = pc.task /\ pc'.line = "section" /\ pc.task \in Riscv!Tasks
        /\ place = "code" /\ place' = "code" /\ mie' = FALSE /\ nesting' = nesting + 1
        /\ was_enabled' = (IF nesting = 0 THEN mie ELSE was_enabled)
    BY <1>0 DEF Riscv!enter_critical, Riscv!InTask, Riscv!KeptState
  <2>2. was_enabled' = TRUE /\ nesting' > 0
    BY <2>1, <1>0 DEF SectionIsMasked, TrapTypes
  <2> QED BY <2>1, <2>2 DEF SectionIsMasked
<1>3. RegistersAreCurrents'
  <2>1. pc'.task = pc.task /\ UNCHANGED <<place, sp, s, t, frame, mepc, CURRENT>>
    BY <1>0 DEF Riscv!enter_critical, Riscv!regs, Riscv!cell
  <2> QED BY <1>0, <2>1 DEF RegistersAreCurrents
<1>4. SavedIsTheirs'
  BY <1>0 DEF Riscv!enter_critical, Riscv!cell, SavedIsTheirs
<1> QED BY <1>1, <1>2, <1>3, <1>4 DEF TrapInv

\* The outermost exit unmasks.
LEMMA Trap_exit_critical == ASSUME TrapInv, Riscv!exit_critical PROVE TrapInv'
<1>0. TrapTypes /\ SectionIsMasked /\ RegistersAreCurrents /\ SavedIsTheirs
  BY DEF TrapInv
<1>1. TrapTypes'
  <2>1. pc' \in Riscv!Address
    BY <1>0 DEF Riscv!exit_critical, TrapTypes, Riscv!Address, Riscv!Lines
  <2>2. nesting' \in Nat
    BY <1>0 DEF Riscv!exit_critical, TrapTypes
  <2>3. mie' \in BOOLEAN /\ was_enabled' \in BOOLEAN
    BY <1>0 DEF Riscv!exit_critical, Riscv!Unmasked, TrapTypes
  <2>4. UNCHANGED <<mpie, mepc, place, sp, s, t, frame, contexts, CURRENT>>
    BY DEF Riscv!exit_critical, Riscv!regs, Riscv!cell
  <2> QED BY <1>0, <2>1, <2>2, <2>3, <2>4 DEF TrapTypes
<1>2. SectionIsMasked'
  <2>1. /\ pc'.task = pc.task /\ pc'.line = (IF nesting = 1 THEN "loop" ELSE "section")
        /\ place = "code" /\ place' = "code" /\ nesting > 0 /\ nesting \in Nat /\ nesting' = nesting - 1
        /\ mie' = (IF nesting - 1 = 0 /\ was_enabled THEN TRUE ELSE mie) /\ was_enabled' = was_enabled
    BY <1>0 DEF Riscv!exit_critical, Riscv!InTask, Riscv!Unmasked, TrapTypes
  <2>2. mie = FALSE /\ was_enabled = TRUE /\ pc.task \in Riscv!Tasks
    BY <2>1, <1>0 DEF SectionIsMasked, TrapTypes
  <2>3. CASE nesting = 1
    BY <2>1, <2>2, <2>3 DEF SectionIsMasked
  <2>4. CASE nesting # 1
    BY <2>1, <2>2, <2>4 DEF SectionIsMasked
  <2> QED BY <2>3, <2>4
<1>3. RegistersAreCurrents'
  <2>1. pc'.task = pc.task /\ UNCHANGED <<place, sp, s, t, frame, mepc, CURRENT>>
    BY <1>0 DEF Riscv!exit_critical, Riscv!regs, Riscv!cell
  <2> QED BY <1>0, <2>1 DEF RegistersAreCurrents
<1>4. SavedIsTheirs'
  BY <1>0 DEF Riscv!exit_critical, Riscv!cell, SavedIsTheirs
<1> QED BY <1>1, <1>2, <1>3, <1>4 DEF TrapInv

\* A lap of a task.
LEMMA Trap_body == ASSUME TrapInv, Riscv!body PROVE TrapInv'
<1>0. TrapTypes /\ SectionIsMasked /\ RegistersAreCurrents /\ SavedIsTheirs
  BY DEF TrapInv
<1>1. TrapTypes'
  BY <1>0 DEF Riscv!body, Riscv!csr, Riscv!regs, Riscv!port, TrapTypes
<1>2. SectionIsMasked'
  BY <1>0 DEF Riscv!body, Riscv!csr, Riscv!port, SectionIsMasked
<1>3. RegistersAreCurrents'
  BY <1>0 DEF Riscv!body, Riscv!csr, Riscv!regs, RegistersAreCurrents
<1>4. SavedIsTheirs'
  BY <1>0 DEF Riscv!body, SavedIsTheirs
<1> QED BY <1>1, <1>2, <1>3, <1>4 DEF TrapInv

\* main's report.
LEMMA Trap_Report == ASSUME TrapInv, Riscv!Report PROVE TrapInv'
<1>0. TrapTypes /\ SectionIsMasked /\ RegistersAreCurrents /\ SavedIsTheirs
  BY DEF TrapInv
<1>1. TrapTypes'
  BY <1>0 DEF Riscv!Report, Riscv!csr, Riscv!regs, Riscv!cell, Riscv!port, TrapTypes, Riscv!Places
<1>2. SectionIsMasked'
  BY <1>0 DEF Riscv!Report, Riscv!InMain, Riscv!port, SectionIsMasked, Riscv!Tasks, Riscv!MAIN
<1>3. RegistersAreCurrents'
  BY <1>0 DEF Riscv!Report, Riscv!InMain, Riscv!regs, Riscv!cell, RegistersAreCurrents
<1>4. SavedIsTheirs'
  BY <1>0 DEF Riscv!Report, Riscv!cell, SavedIsTheirs
<1> QED BY <1>1, <1>2, <1>3, <1>4 DEF TrapInv

\* Every step keeps the invariant.
LEMMA TrapNext == ASSUME TrapInv, Riscv!Next \/ UNCHANGED riscv PROVE TrapInv'
<1>1. CASE UNCHANGED riscv
  BY <1>1 DEF riscv, TrapInv, TrapTypes, SectionIsMasked, RegistersAreCurrents, SavedIsTheirs
<1> QED BY <1>1, Trap_TimerDue, Trap_Trap, Trap_Leave, Trap_Trampoline, Trap_machine_timer,
           Trap_machine_soft, Trap_enter_critical, Trap_exit_critical, Trap_body, Trap_Report DEF Riscv!Next, Riscv!Handler

\* For any number of switches and any depth of sections: whoever runs has all of
\* its own registers and is named by CURRENT, a task is masked exactly inside its
\* sections, and it comes back from a trap outside every section.
THEOREM TrapKeepsTheTask == ReleaseSpec => []TrapIsSafe
<1>1. ReleaseInit => TrapInv
  BY TrapStarts DEF ReleaseInit
<1>2. TrapInv /\ [ReleaseNext]_both => TrapInv'
  BY TrapMoves, TrapNext
<1>3. TrapInv => TrapIsSafe
  BY DEF TrapInv, TrapTypes, SectionIsMasked, RegistersAreCurrents, TrapIsSafe, Riscv!Safe, Riscv!ContextWhole, Riscv!MaskedWhenInSection, Riscv!SwitchedOutOfSection, Riscv!InTask
<1>4. ReleaseSpec => ReleaseInit /\ [][ReleaseNext]_both
  BY DEF ReleaseSpec, both
<1> QED BY <1>1, <1>2, <1>3, <1>4, PTL

=============================================================================

----------------------------- MODULE MCRelease ------------------------------
(***************************************************************************)
(* Three protocols that stop someone and must let go again, side by side:  *)
(* the signal handler that parks a frozen thread, the wait queue of the    *)
(* esp-radio adapter, the RISC-V trap that switches a task out.  They      *)
(* share no state; a behaviour is of the one that `part` names.            *)
(***************************************************************************)
EXTENDS UnixFreeze

CONSTANTS
    Waiter, MaxCount, Overlap,      \* of RadioWaitQueue
    Switches, MaxNesting            \* of RiscvTrap

VARIABLE part

VARIABLES waiters, sem, wpc, npc, left, owed
wait == <<waiters, sem, wpc, npc, left, owed>>
Wait == INSTANCE RadioWaitQueue WITH pc <- wpc

\* The wait queue's constants are what its module takes them to be.
ASSUME WaitFacts == Wait!WaitConstants

VARIABLES
    mie, mpie, mepc, msip, mtip, place, pc, sp, s, t, frame, contexts, CURRENT,
    switched, done, nesting, was_enabled
riscv == <<mie, mpie, mepc, msip, mtip, place, pc, sp, s, t, frame, contexts, CURRENT,
           switched, done, nesting, was_enabled>>
Riscv == INSTANCE RiscvTrap

ReleaseInit ==
    /\ part \in {"freeze", "wait", "trap"}
    /\ Init /\ Wait!Init /\ Riscv!Init

ReleaseNext ==
    \/ part = "freeze" /\ Next /\ UNCHANGED <<part, wait, riscv>>
    \/ part = "wait" /\ Wait!Next /\ UNCHANGED <<part, vars, riscv>>
    \/ part = "trap" /\ Riscv!Next /\ UNCHANGED <<part, vars, wait>>

ReleaseSpec ==
    /\ ReleaseInit /\ [][ReleaseNext]_<<part, vars, wait, riscv>>
    /\ \/ part = "freeze" /\ Fairness
       \/ part = "wait" /\ Wait!Fairness
       \/ part = "trap" /\ Riscv!Fairness

-----------------------------------------------------------------------------
\* RadioWaitQueue: everybody who waited is released by one notify.
EveryoneReleased == part = "wait" => Wait!EveryoneReleased

\* RadioWaitQueue: a task that waits when a notify is made returns in the end.
NotifiedReturns == part = "wait" => Wait!NotifiedReturns

\* RiscvTrap: whoever runs has all of its own registers, and is masked exactly
\* inside its sections.
TrapIsSafe == part = "trap" => Riscv!Safe

\* RiscvTrap: the timer keeps arriving after the first switch, up to the end.
PreemptionContinues == part = "trap" => Riscv!PreemptionContinues

=============================================================================

----------------------------- MODULE RunPermit ------------------------------
(***************************************************************************)
(* What the host port promises: one CPU.  At most one task thread executes *)
(* at a time; it is the present occupant of the slot the kernel names; the *)
(* kernel's choice moves only when that thread gives the CPU up or has     *)
(* been stopped; and a slot takes a new occupant only while it is neither  *)
(* executing nor chosen, after which the old one never executes again.     *)
(***************************************************************************)
EXTENDS Naturals

CONSTANTS
    Task,       \* the slots
    NO_TASK     \* nothing chosen yet

VARIABLES
    onCpu,      \* the threads <<slot, occupant>> executing: none, or one
    chosen,     \* the slot the kernel calls current
    occupant    \* which occupant each slot has

vars == <<onCpu, chosen, occupant>>

Chosen == <<chosen, occupant[chosen]>>

Init ==
    /\ onCpu = {}
    /\ chosen = NO_TASK
    /\ occupant \in [Task -> {0, 1}]

\* The kernel names a task while nobody executes.
Choose(n) ==
    /\ onCpu = {}
    /\ chosen' = n
    /\ UNCHANGED <<onCpu, occupant>>

\* The chosen task's thread starts, or goes on where it stood.
Dispatch ==
    /\ chosen # NO_TASK
    /\ onCpu = {}
    /\ onCpu' = {Chosen}
    /\ UNCHANGED <<chosen, occupant>>

\* The executing thread is taken off the CPU.
Stop ==
    /\ onCpu # {}
    /\ onCpu' = {}
    /\ UNCHANGED <<chosen, occupant>>

\* The executing thread gives the CPU up for another task.
Yield(n) ==
    /\ onCpu # {}
    /\ n # chosen
    /\ onCpu' = {}
    /\ chosen' = n
    /\ UNCHANGED occupant

\* A slot whose task is gone takes a new occupant.
Replace(j) ==
    /\ j # chosen
    /\ occupant' = [occupant EXCEPT ![j] = @ + 1]
    /\ UNCHANGED <<onCpu, chosen>>

Next ==
    \/ \E n \in Task : Choose(n) \/ Yield(n) \/ Replace(n)
    \/ Dispatch \/ Stop

Spec == Init /\ [][Next]_vars

=============================================================================

----------------------------- MODULE RiscvTrap ------------------------------
(***************************************************************************)
(* The RISC-V port under the cell riscv32-qemu-preempt: two tasks that     *)
(* never yield are switched from inside the software-interrupt trap, and   *)
(* may stand in the port's nested critical sections meanwhile.             *)
(*                                                                         *)
(* A register group holds the task whose values it has: sp, the callee-    *)
(* saved s (what the switch moves), the caller-saved t (what riscv-rt's    *)
(* trap entry and exit move).  An address is a task and a line of it.      *)
(***************************************************************************)
EXTENDS Naturals

CONSTANTS Switches,   \* SWITCHES: how many switches end the run
          MaxNesting  \* how deep the tasks nest critical sections

Tasks == {0, 1}
MAIN == 2
Contexts == Tasks \cup {MAIN}
Lines == {"loop", "section"}
Address == [task : Contexts, line : Lines]
Places == {"code", "timer", "soft", "leave", "trampoline", "report"}

VARIABLES
    mie, mpie, mepc,   \* mstatus.MIE, mstatus.MPIE and mepc
    msip, mtip,        \* the two interrupts, pending
    place, pc,         \* where the hart is, and in whose code when in "code"
    sp, s, t,          \* the register groups
    frame,             \* the caller-saved registers on each stack
    contexts, CURRENT, \* CONTEXTS and CURRENT
    switched, done,    \* SWITCHED (kept at Switches from there on) and DONE
    nesting, was_enabled

csr == <<mie, mpie, mepc>>
irq == <<msip, mtip>>
regs == <<sp, s, t>>
cell == <<contexts, CURRENT, switched, done>>
port == <<nesting, was_enabled>>
vars == <<csr, irq, place, pc, regs, frame, cell, port>>

Context == [ra : {"leave", "trampoline"}, sp : Contexts, s : Contexts,
            mepc : Address, mpie : BOOLEAN]
TypeOK ==
    /\ mie \in BOOLEAN /\ mpie \in BOOLEAN /\ mepc \in Address
    /\ msip \in BOOLEAN /\ mtip \in BOOLEAN
    /\ place \in Places /\ pc \in Address
    /\ sp \in Contexts /\ s \in Contexts /\ t \in Contexts
    /\ frame \in [Contexts -> Contexts]
    /\ contexts \in [Contexts -> Context]
    /\ CURRENT \in Contexts /\ switched \in 0..Switches /\ done \in BOOLEAN
    /\ nesting \in 0..MaxNesting /\ was_enabled \in BOOLEAN

At(c) == [task |-> c, line |-> "loop"]

\* new_task_context_preemptive, with FRESH_MSTATUS's MPIE.
new_task_context_preemptive(c) ==
    [ra |-> "trampoline", sp |-> c, s |-> c, mepc |-> At(c), mpie |-> TRUE]

\* main: both tasks built, the timer armed, both interrupts and then MIE on,
\* and the first switch asked for like any other.
Init ==
    /\ mie = TRUE /\ mpie = FALSE /\ mepc = At(MAIN)
    /\ msip = TRUE /\ mtip = FALSE
    /\ place = "code" /\ pc = At(MAIN)
    /\ sp = MAIN /\ s = MAIN /\ t = MAIN
    /\ frame = [c \in Contexts |-> MAIN]
    /\ contexts = [c \in Contexts |-> new_task_context_preemptive(c)]
    /\ CURRENT = MAIN /\ switched = 0 /\ done = FALSE
    /\ nesting = 0 /\ was_enabled = FALSE

-----------------------------------------------------------------------------
\* mtime reaches mtimecmp.
TimerDue ==
    /\ ~mtip /\ mtip' = TRUE
    /\ UNCHANGED <<csr, msip, place, pc, regs, frame, cell, port>>

\* A trap: MIE goes to MPIE and is cleared, the address to mepc; riscv-rt
\* stores the caller-saved registers on the stack it finds.  The software
\* interrupt is taken before the timer.
Trap ==
    /\ place = "code" /\ mie /\ (msip \/ mtip)
    /\ mpie' = mie /\ mie' = FALSE /\ mepc' = pc
    /\ frame' = [frame EXCEPT ![sp] = t]
    /\ place' = IF msip THEN "soft" ELSE "timer"
    /\ UNCHANGED <<irq, pc, regs, cell, port>>

\* mret: MPIE into MIE, and on at mepc.
Mret ==
    /\ mie' = mpie /\ mpie' = TRUE
    /\ pc' = mepc /\ place' = "code"
    /\ UNCHANGED mepc

\* The end of riscv-rt's trap: the caller-saved registers of the stack that
\* is now in sp, then mret.
Leave ==
    /\ place = "leave"
    /\ t' = frame[sp]
    /\ Mret
    /\ UNCHANGED <<irq, sp, s, frame, cell, port>>

\* Mutant: the trampoline ends in ret: the task runs on in the trap's state.
LeaveFresh_Ret ==
    /\ pc' = At(s) /\ place' = "code"
    /\ UNCHANGED csr

\* kairos_riscv_trampoline_trap: a task's first exit from a trap.
LeaveFresh == Mret

Trampoline ==
    /\ place = "trampoline"
    /\ t' = s
    /\ LeaveFresh
    /\ UNCHANGED <<irq, sp, s, frame, cell, port>>

\* machine_timer: rearmed, and a switch is asked for.
machine_timer ==
    /\ place = "timer"
    /\ mtip' = FALSE /\ msip' = TRUE
    /\ place' = "leave"
    /\ UNCHANGED <<csr, pc, regs, frame, cell, port>>

\* machine_soft's choice.
To == IF done THEN MAIN ELSE IF CURRENT = 0 THEN 1 ELSE 0

\* kairos_riscv_switch_trap's first half: what the outgoing context holds.
Outgoing == [ra |-> "leave", sp |-> sp, s |-> s, mepc |-> mepc, mpie |-> mpie]

\* Mutant: the outgoing task's mepc stays in the register.
Resume_Kept(c) == mepc
\* Its second half: mepc is loaded from the incoming context.
Resume(c) == c.mepc

\* machine_soft: the request cleared first, then the switch, which returns
\* to the incoming context's ra.
machine_soft ==
    /\ place = "soft"
    /\ msip' = FALSE
    /\ \/ /\ To = CURRENT
          /\ place' = "leave"
          /\ UNCHANGED <<sp, s, mepc, mpie, contexts, CURRENT, switched>>
       \/ /\ To # CURRENT
          /\ LET c == contexts[To] IN
               /\ contexts' = [contexts EXCEPT ![CURRENT] = Outgoing]
               /\ sp' = c.sp /\ s' = c.s /\ mepc' = Resume(c) /\ mpie' = c.mpie
               /\ place' = c.ra
          /\ CURRENT' = To
          /\ switched' = IF switched = Switches THEN switched ELSE switched + 1
    /\ UNCHANGED <<mie, mtip, pc, t, frame, done, port>>

-----------------------------------------------------------------------------
InTask == place = "code" /\ pc.task \in Tasks
InMain == place = "code" /\ pc.task = MAIN

\* Mutant: every entry keeps the state it found.
KeptState_Inner == mie

\* RiscvPort::enter_critical: MIE is cleared and read in one instruction, and
\* what it was is kept for the outermost section.
KeptState == IF nesting = 0 THEN mie ELSE was_enabled

enter_critical ==
    /\ InTask /\ nesting < MaxNesting
    /\ mie' = FALSE
    /\ was_enabled' = KeptState
    /\ nesting' = nesting + 1
    /\ pc' = [pc EXCEPT !.line = "section"]
    /\ UNCHANGED <<mpie, mepc, irq, place, regs, frame, cell>>

\* RiscvPort::exit_critical: the outermost exit puts MIE back.
Unmasked(n) == IF n = 0 /\ was_enabled THEN TRUE ELSE mie

exit_critical ==
    /\ InTask /\ nesting > 0
    /\ nesting' = nesting - 1
    /\ mie' = Unmasked(nesting - 1)
    /\ pc' = [pc EXCEPT !.line = IF nesting = 1 THEN "loop" ELSE "section"]
    /\ UNCHANGED <<mpie, mepc, irq, place, regs, frame, cell, was_enabled>>

\* body: a lap sees that the run has had its switches.
body ==
    /\ InTask /\ ~done /\ switched >= Switches
    /\ done' = TRUE
    /\ UNCHANGED <<csr, irq, place, pc, regs, frame, contexts, CURRENT, switched,
                   port>>

\* main, back once a handler has switched to it.
Report ==
    /\ InMain /\ done
    /\ place' = "report"
    /\ UNCHANGED <<csr, irq, pc, regs, frame, cell, port>>

Handler == Trap \/ Leave \/ Trampoline \/ machine_timer \/ machine_soft
Next ==
    \/ TimerDue \/ Handler \/ enter_critical \/ exit_critical \/ body \/ Report

\* mtime advances, the hart runs, an enabled interrupt is taken, and a task
\* leaves the sections it enters.
Fairness ==
    /\ WF_vars(TimerDue) /\ SF_vars(Trap) /\ WF_vars(Handler)
    /\ WF_vars(exit_critical) /\ SF_vars(nesting = 1 /\ exit_critical)
    /\ SF_vars(body) /\ SF_vars(Report)
Spec == Init /\ [][Next]_vars /\ Fairness
-----------------------------------------------------------------------------
\* Whoever runs, runs on its own stack with its own registers, and CURRENT
\* names it (the faults the cell counts, main.rs:238-245).
ContextWhole ==
    place = "code" => /\ sp = pc.task /\ s = pc.task /\ t = pc.task
                      /\ CURRENT = pc.task

\* A task is interruptible exactly outside every critical section, however
\* often it was switched out: a critical section nests, and a fresh task
\* does not start with interrupts masked (lib.rs:236-244).
MaskedWhenInSection == InTask => (mie <=> nesting = 0)

\* A task that comes back from a trap comes back outside every section.
SwitchedOutOfSection ==
    place # "code" => nesting = 0 /\ mepc.line = "loop"

\* "preemption CONTINUED -- the timer kept arriving after the first switch"
\* (main.rs:124), up to main's report.
PreemptionContinues == <>(place = "report" /\ switched = Switches)

Safe == ContextWhole /\ MaskedWhenInSection /\ SwitchedOutOfSection
=============================================================================

------------------------------ MODULE SmpCell ------------------------------
(***************************************************************************)
(* One kernel on both cores of the chip (firmware/xiao-s3-smp): every      *)
(* entry masks its own core and takes the one spinlock; each core switches *)
(* itself in its own software interrupt; a yield asked of the other core   *)
(* goes out as an inter-processor interrupt after the lock is released and *)
(* the mask dropped.  The handlers are all of level 1, so on one core they *)
(* do not nest.  The kernel is external: priorities, a semaphore, delays,  *)
(* and the cores it asks to yield.                                         *)
(***************************************************************************)
EXTENDS Naturals

CONSTANTS
    Core, TickCore,     \* the tick is bound to one core
    Worker,             \* the tasks that use the kernel
    Urgent,             \* those of them with the higher priority
    Nobody

IdleOf == [c \in Core |-> <<"idle", c>>]
BootOf == [c \in Core |-> <<"boot", c>>]
Idler == {IdleOf[c] : c \in Core}
Task  == Worker \cup Idler
Frame == Task \cup {BootOf[c] : c \in Core}

ASSUME SmpConstants ==
    /\ Nobody \notin Core
    /\ \A c \in Core : IdleOf[c] \notin Worker /\ BootOf[c] \notin Worker
    /\ Core \cap Frame = {}

VARIABLES
    lock,               \* LOCK: the core that holds it
    selected, asked,    \* kernel: each core's current task, cores told to yield
    parked,             \* kernel: the tasks that wait, for a give or for a tick
    running,            \* CURRENT, and whose registers the core has
    pend, ipi,          \* Software0 and FROM_CPU_INTRn, per core
    handler,            \* per core: where in a handler
    tpc,                \* per task: where in with_kernel
    owed,               \* per frame, task or core: the yields it has yet to raise
    again               \* the tasks that yield their own core when they are done

kernel == <<selected, asked, parked>>
machine == <<running, ipi, pend>>
frames == <<handler, tpc, owed, again>>
vars == <<lock, kernel, machine, frames>>

Init ==
    /\ lock = Nobody
    /\ selected = IdleOf /\ asked = {}
    /\ parked = {}
    /\ running = BootOf
    /\ pend = [c \in Core |-> TRUE] /\ ipi = [c \in Core |-> FALSE]
    /\ handler = [c \in Core |-> "none"]
    /\ tpc = [t \in Frame |-> "run"]
    /\ owed = [f \in Frame \cup Core |-> {}]
    /\ again = {}

-----------------------------------------------------------------------------
(* The kernel.                                                             *)

Urgency(t) == IF t \in Urgent THEN 2 ELSE IF t \in Worker THEN 1 ELSE 0
Ready == Task \ parked
Elsewhere(c) == {selected[d] : d \in Core \ {c}}

\* What core c may run next: the most urgent that no other core runs.
Choice(c) ==
    LET free == Ready \ Elsewhere(c)
    IN  {t \in free : \A u \in free : Urgency(u) <= Urgency(t)}

\* Readying t asks one core to yield: a core below t, the lowest there is and
\* not asked yet, or none.
Below(t) ==
    LET unasked == {d \in Core \ asked : Urgency(selected[d]) < Urgency(t)}
    IN  {d \in unasked : \A e \in unasked : Urgency(selected[d]) <= Urgency(selected[e])}

\* The kernel, on core c for the frame f, readies t.  A yield of its own core
\* it raises at once, another's it reports.
Wakes(c, f, t) ==
    IF Below(t) = {} THEN UNCHANGED <<asked, pend, owed>>
    ELSE \E d \in Below(t) :
        /\ asked' = asked \cup {d}
        /\ pend' = IF d = c THEN [pend EXCEPT ![c] = TRUE] ELSE pend
        /\ owed' = [owed EXCEPT ![f] = IF d = c THEN {} ELSE {d}]

-----------------------------------------------------------------------------
(* with_kernel, from a task.                                               *)

\* Mutant: the lock alone, without the mask.
Masked_Not(t) == FALSE

\* From the mask to the unmask.
Masked(t) == tpc[t] \in {"spin", "in"}

\* The task t executes on core c, and no switch of c is being taken.
Executes(c, t, at) ==
    /\ handler[c] = "none" /\ running[c] = t /\ tpc[t] = at
    /\ pend[c] => Masked(t)
To(t, label) == tpc' = [tpc EXCEPT ![t] = label]

\* Mutant: the lock is found taken and entered all the same.
LockFree_Not == TRUE
LockFree == lock = Nobody

\* Mutant: the idle task may block.
May_Anyone(t) == TRUE
May(t) == t \in Worker

\* The mask, and the lock if it is free; else the spin.
Call(c, t) ==
    /\ May(t) /\ t \notin again /\ Executes(c, t, "run")
    /\ IF LockFree THEN To(t, "in") /\ lock' = c ELSE To(t, "spin") /\ UNCHANGED lock
    /\ UNCHANGED <<kernel, machine, handler, owed, again>>

Spin(c, t) ==
    /\ Executes(c, t, "spin") /\ LockFree /\ lock' = c
    /\ To(t, "in")
    /\ UNCHANGED <<kernel, machine, handler, owed, again>>

\* semaphore_take with nothing to take, delay: the caller waits, and yields
\* its core once more when it is out of the kernel.
Park(c, t) ==
    /\ parked' = parked \cup {t}
    /\ pend' = [pend EXCEPT ![c] = TRUE]
    /\ again' = again \cup {t}
    /\ UNCHANGED <<asked, owed>>

\* semaphore_give to a task that waits.
Give(c, t) ==
    /\ \E w \in parked : parked' = parked \ {w} /\ Wakes(c, t, w)
    /\ UNCHANGED again

\* A call that neither parks nor readies anyone.
Plain == UNCHANGED <<parked, pend, again, asked, owed>>

\* The call, the yields it asked for taken, the lock released, the mask dropped.
Body(c, t) ==
    /\ Executes(c, t, "in")
    /\ Park(c, t) \/ Give(c, t) \/ Plain
    /\ To(t, IF owed'[t] = {} THEN "run" ELSE "out")
    /\ lock' = Nobody
    /\ UNCHANGED <<selected, running, ipi, handler>>

\* raise_core_yields, with the mask already dropped.
RaiseYields(c, t) ==
    /\ Executes(c, t, "out") /\ To(t, "run")
    /\ ipi' = [d \in Core |-> ipi[d] \/ d \in owed[t]]
    /\ owed' = [owed EXCEPT ![t] = {}]
    /\ UNCHANGED <<lock, kernel, running, pend, handler, again>>

\* The task that had to wait asks for the switch once more.
YieldNow(c, t) ==
    /\ Executes(c, t, "run") /\ t \in again
    /\ again' = again \ {t}
    /\ pend' = [pend EXCEPT ![c] = TRUE]
    /\ UNCHANGED <<lock, kernel, running, ipi, handler, tpc, owed>>

TaskStep(c, t) ==
    \/ Call(c, t) \/ Spin(c, t) \/ Body(c, t) \/ RaiseYields(c, t) \/ YieldNow(c, t)

-----------------------------------------------------------------------------
(* The interrupts of one core.                                             *)

Interruptible(c) == handler[c] = "none" /\ ~Masked(running[c])
Handle(c, from, to) == handler[c] = from /\ handler' = [handler EXCEPT ![c] = to]

\* Mutant: the request is reset and the core not told.
Ipi_Resets(c) ==
    /\ Interruptible(c) /\ ipi[c]
    /\ ipi' = [ipi EXCEPT ![c] = FALSE]
    /\ UNCHANGED <<lock, kernel, running, pend, frames>>

\* ipi_core0 and ipi_core1: another core asked this one to yield.
Ipi(c) ==
    /\ Interruptible(c) /\ ipi[c]
    /\ ipi' = [ipi EXCEPT ![c] = FALSE]
    /\ pend' = [pend EXCEPT ![c] = TRUE]
    /\ UNCHANGED <<lock, kernel, running, frames>>

\* A handler masks, and takes the lock if it is free; else it spins.
Enter(c, spins, in) ==
    IF LockFree THEN Handle(c, "none", in) /\ lock' = c
    ELSE Handle(c, "none", spins) /\ UNCHANGED lock

Software0(c) ==
    /\ Interruptible(c) /\ pend[c]
    /\ pend' = [pend EXCEPT ![c] = FALSE]
    /\ Enter(c, "switch", "switching")
    /\ UNCHANGED <<kernel, running, ipi, tpc, owed, again>>

Tick(c) ==
    /\ c = TickCore /\ Interruptible(c)
    /\ Enter(c, "tick", "ticking")
    /\ UNCHANGED <<kernel, machine, tpc, owed, again>>

HandlerSpin(c, from, to) ==
    /\ Handle(c, from, to) /\ LockFree /\ lock' = c
    /\ UNCHANGED <<kernel, machine, tpc, owed, again>>

\* Mutant: the lock is released once the choice is made.
HeldForTheCopy_Not == lock' = Nobody
HeldForTheCopy == UNCHANGED lock

\* switch_context of the kernel, for this core; it asks no other core to yield.
Decide(c) ==
    /\ Handle(c, "switching", "copy")
    /\ \E to \in Choice(c) : selected' = [selected EXCEPT ![c] = to]
    /\ asked' = asked \ {c}
    /\ HeldForTheCopy
    /\ UNCHANGED <<parked, machine, tpc, owed, again>>

\* Mutant: the frame of whatever core is loaded with the choice of the tick's.
CopyContexts_OfTickCore(c) ==
    /\ Handle(c, "copy", "none")
    /\ running' = [running EXCEPT ![c] = selected[TickCore]]
    /\ lock' = Nobody
    /\ UNCHANGED <<kernel, pend, ipi, tpc, owed, again>>

\* The frame into the context of the one, the context of the other into the
\* frame, and only then the lock released.
CopyContexts(c) ==
    /\ Handle(c, "copy", "none")
    /\ running' = [running EXCEPT ![c] = selected[c]]
    /\ lock' = Nobody
    /\ UNCHANGED <<kernel, pend, ipi, tpc, owed, again>>

\* increment_tick: a delay ends, or equals take turns.
IncrementTick(c) ==
    /\ handler[c] = "ticking"
    /\ \/ \E t \in parked : parked' = parked \ {t} /\ Wakes(c, c, t)
       \/ UNCHANGED <<parked, asked, owed>> /\ pend' = [pend EXCEPT ![c] = TRUE]
    /\ Handle(c, "ticking", IF owed'[c] = {} THEN "none" ELSE "raise")
    /\ lock' = Nobody
    /\ UNCHANGED <<selected, running, ipi, tpc, again>>

HandlerRaises(c) ==
    /\ Handle(c, "raise", "none")
    /\ ipi' = [d \in Core |-> ipi[d] \/ d \in owed[c]]
    /\ owed' = [owed EXCEPT ![c] = {}]
    /\ UNCHANGED <<lock, kernel, running, pend, tpc, again>>

HandlerStep(c) ==
    \/ HandlerSpin(c, "switch", "switching") \/ HandlerSpin(c, "tick", "ticking")
    \/ Decide(c) \/ CopyContexts(c) \/ IncrementTick(c) \/ HandlerRaises(c)

Progress(c) == HandlerStep(c) \/ (\E t \in Frame : TaskStep(c, t)) \/ Software0(c) \/ Ipi(c)

Next == \E c \in Core : Progress(c) \/ Tick(c)

Spec == Init /\ [][Next]_vars

-----------------------------------------------------------------------------

\* Every variable is in its domain.
TypeOK ==
    /\ lock \in Core \cup {Nobody}
    /\ selected \in [Core -> Task] /\ asked \subseteq Core
    /\ parked \subseteq Worker /\ running \in [Core -> Frame]
    /\ pend \in [Core -> BOOLEAN] /\ ipi \in [Core -> BOOLEAN]
    /\ handler \in [Core -> {"none", "switch", "switching", "copy", "tick", "ticking",
                             "raise"}]
    /\ tpc \in [Frame -> {"run", "spin", "in", "out"}]
    /\ owed \in [Frame \cup Core -> SUBSET Core]
    /\ again \subseteq Worker

\* A core is inside the kernel.
InKernel(c) ==
    \/ handler[c] \in {"switching", "copy", "ticking"}
    \/ tpc[running[c]] = "in"

\* Exactly one core is inside the kernel at a time (with_kernel, lock): two
\* entries never overlap, and the lock names the one that is in.
OneCoreInKernel == \A c \in Core : InKernel(c) => lock = c

\* A task's registers are on one core at most: its context is saved before
\* another core may load it
\* (switching_interrupt, the copy inside the lock).
TaskOnOneCore == \A c, d \in Core : c # d => running[c] # running[d]

\* Outside its switch a core runs the task the kernel selected for it.
SelectedRuns ==
    \A c \in Core : handler[c] = "copy" \/ running[c] \in {selected[c], BootOf[c]}

\* The yield of core c is on its way: asked for, raised, or being served.
YieldOnItsWay(c) ==
    \/ pend[c] \/ ipi[c] \/ handler[c] \in {"switch", "switching"}
    \/ \E d \in Core : c \in owed[d] \/ c \in owed[running[d]]

\* No yield across cores is lost: a core the kernel told to yield has its
\* request on its way, or it is owed by a task that was switched out between
\* the unmask and raise_core_yields.
NoYieldLost ==
    \A c \in asked : YieldOnItsWay(c) \/ \E t \in Worker : c \in owed[t]

\* The lock's exit raises the yield: no task is switched out still owing it.
YieldGoesOutAtOnce == \A c \in asked : YieldOnItsWay(c)

\* A core never spins on a lock it holds itself: the mask is taken before the
\* lock, so no handler interrupts a section of its own core (with_kernel).
NoCoreWaitsForItself ==
    \A c \in Core : handler[c] \in {"switch", "tick"} \/ tpc[running[c]] = "spin" => lock # c

=============================================================================

------------------------------ MODULE HostPort ------------------------------
(***************************************************************************)
(* The host port of crates/rusty_rtos_port-host: one OS thread per task, a *)
(* single run permit, and a tick thread standing in for the timer          *)
(* interrupt.                                                              *)
(*                                                                         *)
(* Every step below is one access to shared state (an atomic, the critical *)
(* lock, a slot's `granted` mutex) together with the thread-local work up  *)
(* to the next one.  A thread of slot i and occupant g is the pair <<i,g>>.*)
(* The kernel crate is external: it is the sets `alive` and `ready`, a     *)
(* scheduler that may choose any ready task, and a tick that may wake any  *)
(* task and may or may not want a switch.  The OS freezing primitive is    *)
(* atomic here (`suspended`); module UnixFreeze opens it up.               *)
(***************************************************************************)
EXTENDS Naturals, FiniteSets

CONSTANTS
    Task,            \* the slot indices in use
    Idle,            \* the idle task, ready for ever
    BootTask,        \* the tasks given a thread before the scheduler starts
    NO_TASK,         \* CURRENT before the first task starts
    NoThread,        \* a free lock, or a slot without a thread
    Tick,            \* the tick thread
    MaxGen,          \* occupants a slot may have over a behaviour
    MaxNesting,      \* how deep critical sections nest
    SpuriousWakes,   \* do condition variables also wake for no reason?
    MayDecline,      \* may backend::freeze answer false for a live thread?
    TickBeforeStart  \* may a tick fall before start_first_task has granted?

ASSUME HostConstants ==
    /\ Idle \in BootTask
    /\ BootTask \subseteq Task
    /\ NO_TASK \notin Task
    /\ MaxGen \in Nat \ {0}
    /\ MaxNesting \in Nat \ {0}
    /\ SpuriousWakes \in BOOLEAN
    /\ MayDecline \in BOOLEAN
    /\ TickBeforeStart \in BOOLEAN

Thread == Task \X (1..MaxGen)

ASSUME HostThreadNames ==
    /\ NoThread \notin Thread
    /\ Tick \notin Thread
    /\ Tick # NoThread

VARIABLES
    pc,          \* where each task thread is
    suspended,   \* the threads the OS holds frozen
    CURRENT, PENDING, IN_TICK,                         \* the port's statics
    owner, nesting,                                    \* CRITICAL
    granted, frozen, os_thread, generation, guard,     \* the slots
    mine, next, mygen, depth,                          \* switch_now's locals
    tickPc, running, froze, tnext,                     \* interrupt's locals
    bootPc, first,                                     \* start_first_task
    making,      \* init_task's `index`, per calling thread
    alive, ready \* the kernel

lockVars   == <<owner, nesting>>
statics    == <<CURRENT, PENDING, IN_TICK>>
slotVars   == <<granted, frozen, os_thread, generation, guard>>
frameVars  == <<mine, next, mygen, depth>>
tickVars   == <<tickPc, running, froze, tnext>>
bootVars   == <<bootPc, first>>
kernelVars == <<alive, ready>>
vars == <<pc, suspended, statics, lockVars, slotVars, frameVars, tickVars,
          bootVars, making, kernelVars>>

-----------------------------------------------------------------------------
(* Program counters.                                                       *)

\* inside CRITICAL: kernel calls, and the part of switch_now under the lock
LockedPcs == {"crit", "clear", "spawn",
              "sw_lock", "sw_grant", "sw_signal", "sw_release", "sw_exit"}
\* inside take_permit, where the thread does not have the permit yet
ParkPcs   == {"relock", "take", "wait"}
FreePcs   == {"run", "exit1", "exit2", "sw_enter", "reacq"}
Pc        == LockedPcs \cup ParkPcs \cup FreePcs \cup {"none"}

\* the thread has the permit: it has taken it and not yet handed it on
PermitPcs == (LockedPcs \ {"sw_release"}) \cup FreePcs

TickLockedPcs == {"freeze", "ontick", "exit"}
TickPc == TickLockedPcs \cup {"idle", "after", "signal"}
BootPc == {"boot", "grant", "signal", "asleep"}

Gens == 0..MaxGen

Init ==
    /\ pc = [t \in Thread |-> IF t[1] \in BootTask /\ t[2] = 1 THEN "relock" ELSE "none"]
    /\ suspended = {}
    /\ CURRENT = NO_TASK /\ PENDING = FALSE /\ IN_TICK = FALSE
    /\ owner = NoThread /\ nesting = 0
    /\ granted = [i \in Task |-> FALSE]
    /\ frozen = [i \in Task |-> FALSE]
    /\ os_thread = [i \in Task |-> IF i \in BootTask THEN <<i, 1>> ELSE NoThread]
    /\ generation = [i \in Task |-> IF i \in BootTask THEN 1 ELSE 0]
    /\ guard = [i \in Task |-> NoThread]
    /\ mine = [t \in Thread |-> t[1]]
    /\ next = [t \in Thread |-> NO_TASK]
    /\ mygen = [t \in Thread |-> t[2]]
    /\ depth = [t \in Thread |-> 0]
    /\ tickPc = "idle" /\ running = NO_TASK /\ froze = FALSE
    /\ tnext = NO_TASK
    /\ bootPc = "boot" /\ first = NO_TASK
    /\ making = [t \in Thread |-> NO_TASK]
    /\ alive = BootTask
    /\ ready = BootTask

At(t, label) == t \notin suspended /\ pc[t] = label
Goto(t, label) == pc' = [pc EXCEPT ![t] = label]

-----------------------------------------------------------------------------
(* CriticalLock::enter, exit, release_all, reacquire.                      *)

Acquire(who, n) ==
    /\ owner = NoThread
    /\ owner' = who
    /\ nesting' = n

Release ==
    /\ owner' = NoThread
    /\ nesting' = 0

\* The port's enter_critical, from task code: the compare-exchange wins.
EnterCritical(t) ==
    /\ At(t, "run")
    /\ Acquire(t, 1)
    /\ Goto(t, "crit")
    /\ UNCHANGED <<suspended, statics, slotVars, frameVars, tickVars, bootVars,
                   making, kernelVars>>

\* enter_critical by the thread that already owns the lock counts a level.
EnterNested(t) ==
    /\ At(t, "crit")
    /\ nesting < MaxNesting
    /\ nesting' = nesting + 1
    /\ UNCHANGED <<pc, suspended, statics, owner, slotVars, frameVars, tickVars,
                   bootVars, making, kernelVars>>

\* exit_critical when a level is left: CriticalLock::exit answers false.
ExitNested(t) ==
    /\ At(t, "crit")
    /\ nesting > 1
    /\ nesting' = nesting - 1
    /\ UNCHANGED <<pc, suspended, statics, owner, slotVars, frameVars, tickVars,
                   bootVars, making, kernelVars>>

\* exit_critical at the outermost level: the lock is released first ...
ExitOuter(t) ==
    /\ At(t, "crit")
    /\ nesting = 1
    /\ Release
    /\ Goto(t, "exit1")
    /\ UNCHANGED <<suspended, statics, slotVars, frameVars, tickVars, bootVars,
                   making, kernelVars>>

\* ... then IN_TICK is read ...
ExitReadInTick(t) ==
    /\ At(t, "exit1")
    /\ Goto(t, IF IN_TICK THEN "run" ELSE "exit2")
    /\ UNCHANGED <<suspended, statics, lockVars, slotVars, frameVars, tickVars,
                   bootVars, making, kernelVars>>

\* ... then PENDING is swapped, and a switch that was pended is taken.
ExitSwapPending(t) ==
    /\ At(t, "exit2")
    /\ PENDING' = FALSE
    /\ Goto(t, IF PENDING THEN "sw_enter" ELSE "run")
    /\ UNCHANGED <<suspended, CURRENT, IN_TICK, lockVars, slotVars, frameVars,
                   tickVars, bootVars, making, kernelVars>>

-----------------------------------------------------------------------------
(* Kernel calls, made inside the critical section.  They are external; a   *)
(* call that asks for a switch reaches pend_switch, which finds the caller *)
(* owning CRITICAL and only records the request.                           *)

\* A delay, a blocking receive, a suspend of the caller: the kernel takes the
\* caller off the ready list and yields.
KernelBlock(t) ==
    /\ At(t, "crit")
    /\ t[1] # Idle /\ t[1] \in alive
    /\ ready' = ready \ {t[1]}
    /\ PENDING' = TRUE
    /\ UNCHANGED <<pc, suspended, CURRENT, IN_TICK, lockVars, slotVars, frameVars,
                   tickVars, bootVars, making, alive>>

\* A give, a send, a resume: some task becomes ready, and the kernel yields
\* when it is more urgent than the caller.
KernelWake(t, j, yields) ==
    /\ At(t, "crit")
    /\ j \in alive
    /\ ready' = ready \cup {j}
    /\ PENDING' = (PENDING \/ yields)
    /\ UNCHANGED <<pc, suspended, CURRENT, IN_TICK, lockVars, slotVars, frameVars,
                   tickVars, bootVars, making, alive>>

\* Delete a task, itself included; a cell may hand the OS handle back with
\* release_task.  The idle task is never deleted.
KernelDelete(t, j, releases) ==
    /\ At(t, "crit")
    /\ j \in alive \ {Idle}
    /\ alive' = alive \ {j}
    /\ ready' = ready \ {j}
    /\ PENDING' = (PENDING \/ j = t[1])
    /\ os_thread' = [os_thread EXCEPT ![j] =
                        IF releases /\ j # t[1] THEN NoThread ELSE @]
    /\ UNCHANGED <<pc, suspended, CURRENT, IN_TICK, lockVars, granted, frozen,
                   generation, guard, frameVars, tickVars, bootVars, making>>

\* create_task hands a freed index out and makes it ready; init_task follows
\* inside the same critical section, and bumps the slot's generation.  The
\* kernel does not free the index of the task it still calls current.
KernelCreate(t, j) ==
    /\ At(t, "crit")
    /\ j \in Task \ alive
    /\ j # CURRENT
    /\ generation[j] < MaxGen
    /\ alive' = alive \cup {j}
    /\ ready' = ready \cup {j}
    /\ making' = [making EXCEPT ![t] = j]
    /\ generation' = [generation EXCEPT ![j] = @ + 1]
    /\ Goto(t, IF generation[j] > 0 THEN "clear" ELSE "spawn")
    /\ UNCHANGED <<suspended, statics, lockVars, granted, frozen, os_thread, guard,
                   frameVars, tickVars, bootVars>>

-----------------------------------------------------------------------------
(* init_task, by the thread t for the index making[t].                     *)

\* Mutant: the permit is set and nobody is told.
Notified_Nobody(i) == pc

\* notify_all on slot i: every waiter goes for the mutex again.
Notified(i) == [u \in Thread |->
    IF pc[u] = "wait" /\ mine[u] = i THEN "relock" ELSE pc[u]]

\* Mutant: the slot keeps the freeze of its last occupant.
InitClear_KeepsFrozen(t) ==
    /\ At(t, "clear")
    /\ LET i == making[t] IN
        /\ guard[i] = NoThread
        /\ granted' = [granted EXCEPT ![i] = FALSE]
        /\ os_thread' = [os_thread EXCEPT ![i] = NoThread]
        /\ pc' = [Notified(i) EXCEPT ![t] = "spawn"]
    /\ UNCHANGED <<suspended, statics, lockVars, frozen, generation, guard, frameVars,
                   tickVars, bootVars, making, kernelVars>>

\* Mutant: the slot keeps the grant of its last occupant.
InitClear_KeepsGrant(t) ==
    /\ At(t, "clear")
    /\ LET i == making[t] IN
        /\ guard[i] = NoThread
        /\ frozen' = [frozen EXCEPT ![i] = FALSE]
        /\ os_thread' = [os_thread EXCEPT ![i] = NoThread]
        /\ pc' = [Notified(i) EXCEPT ![t] = "spawn"]
    /\ UNCHANGED <<suspended, statics, lockVars, granted, generation, guard, frameVars,
                   tickVars, bootVars, making, kernelVars>>

\* The slot had an occupant: forget the grant and the freeze that describe
\* it, wake it so it can see its generation has passed, release its handle.
InitClear(t) ==
    /\ At(t, "clear")
    /\ LET i == making[t] IN
        /\ guard[i] = NoThread
        /\ granted' = [granted EXCEPT ![i] = FALSE]
        /\ frozen' = [frozen EXCEPT ![i] = FALSE]
        /\ os_thread' = [os_thread EXCEPT ![i] = NoThread]
        /\ pc' = [Notified(i) EXCEPT ![t] = "spawn"]
    /\ UNCHANGED <<suspended, statics, lockVars, generation, guard, frameVars,
                   tickVars, bootVars, making, kernelVars>>

\* Mutant: the handle stored is the one of the occupant before.
InitSpawn_OldHandle(t) ==
    /\ At(t, "spawn")
    /\ LET i == making[t]
           u == <<i, generation[i]>>
       IN  /\ pc' = [pc EXCEPT ![t] = "crit", ![u] = "relock"]
           /\ os_thread' = [os_thread EXCEPT ![i] = <<i, generation[i] - 1>>]
    /\ making' = [making EXCEPT ![t] = NO_TASK]
    /\ UNCHANGED <<suspended, statics, lockVars, granted, frozen, generation, guard,
                   frameVars, tickVars, bootVars, kernelVars>>

\* The new thread starts in await_permit; the spawner stores its handle.
InitSpawn(t) ==
    /\ At(t, "spawn")
    /\ LET i == making[t]
           u == <<i, generation[i]>>
       IN  /\ pc' = [pc EXCEPT ![t] = "crit", ![u] = "relock"]
           /\ os_thread' = [os_thread EXCEPT ![i] = u]
    /\ making' = [making EXCEPT ![t] = NO_TASK]
    /\ UNCHANGED <<suspended, statics, lockVars, granted, frozen, generation, guard,
                   frameVars, tickVars, bootVars, kernelVars>>

-----------------------------------------------------------------------------
(* pend_switch outside a critical section, and switch_now.                 *)

PendSwitch(t) ==
    /\ At(t, "run")
    /\ Goto(t, "sw_enter")
    /\ UNCHANGED <<suspended, statics, lockVars, slotVars, frameVars, tickVars,
                   bootVars, making, kernelVars>>

\* switch_now takes CRITICAL and calls ask_scheduler under it, with the reads
\* of CURRENT around the call: the scheduler names n.
SwitchAsk(t, n) ==
    /\ At(t, "sw_enter")
    /\ Acquire(t, 1)
    /\ n \in ready
    /\ CURRENT' = n
    /\ IF n = CURRENT \/ CURRENT = NO_TASK
         THEN /\ Goto(t, "sw_exit")
              /\ UNCHANGED <<mine, next>>
         ELSE /\ Goto(t, "sw_lock")
              /\ mine' = [mine EXCEPT ![t] = CURRENT]
              /\ next' = [next EXCEPT ![t] = n]
    /\ UNCHANGED <<suspended, PENDING, IN_TICK, slotVars, mygen, depth, tickVars,
                   bootVars, making, kernelVars>>

\* Take the caller's own permit mutex before anything else can run.
SwitchLock(t) ==
    /\ At(t, "sw_lock")
    /\ guard[mine[t]] = NoThread
    /\ guard' = [guard EXCEPT ![mine[t]] = t]
    /\ mygen' = [mygen EXCEPT ![t] = generation[mine[t]]]
    /\ Goto(t, "sw_grant")
    /\ UNCHANGED <<suspended, statics, lockVars, granted, frozen, os_thread,
                   generation, mine, next, depth, tickVars, bootVars, making,
                   kernelVars>>

\* grant(i), first half: swap `frozen`.  A frozen thread is thawed, and that
\* is the whole grant.
Thawed(i) == suspended \ {os_thread[i]}

\* Mutant: the flag goes down and the thread is not thawed.
GrantSwap_NoThaw(i) ==
    /\ frozen' = [frozen EXCEPT ![i] = FALSE]
    /\ suspended' = suspended

GrantSwap(i) ==
    /\ frozen' = [frozen EXCEPT ![i] = FALSE]
    /\ suspended' = IF frozen[i] THEN Thawed(i) ELSE suspended

\* grant(i), second half: set the permit under its mutex and wake the slot.
GrantSet(i) ==
    /\ guard[i] = NoThread
    /\ granted' = [granted EXCEPT ![i] = TRUE]

SwitchGrant(t) ==
    /\ At(t, "sw_grant")
    /\ GrantSwap(next[t])
    /\ Goto(t, IF frozen[next[t]] THEN "sw_release" ELSE "sw_signal")
    /\ UNCHANGED <<statics, lockVars, granted, os_thread, generation, guard,
                   frameVars, tickVars, bootVars, making, kernelVars>>

SwitchSignal(t) ==
    /\ At(t, "sw_signal")
    /\ GrantSet(next[t])
    /\ pc' = [Notified(next[t]) EXCEPT ![t] = "sw_release"]
    /\ UNCHANGED <<suspended, statics, lockVars, frozen, os_thread, generation,
                   guard, frameVars, tickVars, bootVars, making, kernelVars>>

\* release_all: the lock goes down whatever its depth, which is remembered.
SwitchRelease(t) ==
    /\ At(t, "sw_release")
    /\ Release
    /\ depth' = [depth EXCEPT ![t] = nesting]
    /\ next' = [next EXCEPT ![t] = NO_TASK]
    /\ Goto(t, "take")
    /\ UNCHANGED <<suspended, statics, slotVars, mine, mygen, tickVars, bootVars,
                   making, kernelVars>>

\* await_permit's lock of a new thread, and a waiter's relock.
PermitLock(t) ==
    /\ At(t, "relock")
    /\ guard[mine[t]] = NoThread
    /\ guard' = [guard EXCEPT ![mine[t]] = t]
    /\ Goto(t, "take")
    /\ UNCHANGED <<suspended, statics, lockVars, granted, frozen, os_thread,
                   generation, frameVars, tickVars, bootVars, making, kernelVars>>

\* Mutant: the loop does not look at the generation.
MayTake_AnyOccupant(t) == granted[mine[t]]

\* One round of take_permit's loop, holding the mutex.
MayTake(t) == generation[mine[t]] = mygen[t] /\ granted[mine[t]]

PermitTake(t) ==
    /\ At(t, "take")
    /\ MayTake(t)
    /\ granted' = [granted EXCEPT ![mine[t]] = FALSE]
    /\ guard' = [guard EXCEPT ![mine[t]] = NoThread]
    /\ Goto(t, IF depth[t] = 0 THEN "run" ELSE "reacq")
    /\ UNCHANGED <<suspended, statics, lockVars, frozen, os_thread, generation,
                   frameVars, tickVars, bootVars, making, kernelVars>>

PermitWait(t) ==
    /\ At(t, "take")
    /\ ~MayTake(t)
    /\ guard' = [guard EXCEPT ![mine[t]] = NoThread]
    /\ Goto(t, "wait")
    /\ UNCHANGED <<suspended, statics, lockVars, granted, frozen, os_thread,
                   generation, frameVars, tickVars, bootVars, making, kernelVars>>

\* A condition variable may wake for no reason; a freeze signal does it too.
SpuriousWake(t) ==
    /\ SpuriousWakes
    /\ At(t, "wait")
    /\ Goto(t, "relock")
    /\ UNCHANGED <<suspended, statics, lockVars, slotVars, frameVars, tickVars,
                   bootVars, making, kernelVars>>

\* reacquire(depth) on the way back from the switch.
SwitchReacquire(t) ==
    /\ At(t, "reacq")
    /\ Acquire(t, depth[t])
    /\ depth' = [depth EXCEPT ![t] = 0]
    /\ Goto(t, "sw_exit")
    /\ UNCHANGED <<suspended, statics, slotVars, mine, next, mygen, tickVars,
                   bootVars, making, kernelVars>>

\* switch_now's CriticalLock::exit: PENDING is not looked at.
SwitchExit(t) ==
    /\ At(t, "sw_exit")
    /\ IF nesting > 1 THEN /\ nesting' = nesting - 1
                           /\ owner' = owner
                      ELSE Release
    /\ Goto(t, "run")
    /\ UNCHANGED <<suspended, statics, slotVars, frameVars, tickVars, bootVars,
                   making, kernelVars>>

-----------------------------------------------------------------------------
(* start_first_task, on the main thread: it takes no lock.                 *)

StartStore(i) ==
    /\ bootPc = "boot"
    /\ i \in ready
    /\ CURRENT' = i
    /\ first' = i
    /\ bootPc' = "grant"
    /\ UNCHANGED <<pc, suspended, PENDING, IN_TICK, lockVars, slotVars, frameVars,
                   tickVars, making, kernelVars>>

StartGrant ==
    /\ bootPc = "grant"
    /\ GrantSwap(first)
    /\ bootPc' = IF frozen[first] THEN "asleep" ELSE "signal"
    /\ UNCHANGED <<pc, statics, lockVars, granted, os_thread, generation, guard,
                   frameVars, tickVars, first, making, kernelVars>>

StartSignal ==
    /\ bootPc = "signal"
    /\ GrantSet(first)
    /\ pc' = Notified(first)
    /\ bootPc' = "asleep"
    /\ UNCHANGED <<suspended, statics, lockVars, frozen, os_thread, generation,
                   guard, frameVars, tickVars, first, making, kernelVars>>

-----------------------------------------------------------------------------
(* Ticker::interrupt.                                                      *)

\* Mutant: the tick does not wait for CRITICAL.
TickEnter_NoLock ==
    /\ tickPc = "idle"
    /\ TickBeforeStart \/ bootPc = "asleep"
    /\ IN_TICK' = TRUE
    /\ tickPc' = "freeze"
    /\ UNCHANGED <<pc, suspended, CURRENT, PENDING, lockVars, slotVars, frameVars,
                   running, froze, tnext, bootVars, making, kernelVars>>

\* The lock first, then the flag that makes this the interrupt context.
TickEnter ==
    /\ tickPc = "idle"
    /\ TickBeforeStart \/ bootPc = "asleep"
    /\ Acquire(Tick, 1)
    /\ IN_TICK' = TRUE
    /\ tickPc' = "freeze"
    /\ UNCHANGED <<pc, suspended, CURRENT, PENDING, slotVars, frameVars, running,
                   froze, tnext, bootVars, making, kernelVars>>

\* freeze_running: the thread the slot of CURRENT names stops where it stands.
FreezeRunning ==
    /\ tickPc = "freeze"
    /\ CURRENT # NO_TASK
    /\ os_thread[CURRENT] # NoThread
    /\ running' = CURRENT
    /\ suspended' = suspended \cup {os_thread[CURRENT]}
    /\ frozen' = [frozen EXCEPT ![CURRENT] = TRUE]
    /\ froze' = TRUE
    /\ tickPc' = "ontick"
    /\ UNCHANGED <<pc, statics, lockVars, granted, os_thread, generation, guard,
                   frameVars, tnext, bootVars, making, kernelVars>>

\* ... or it declines: nothing runs yet, the slot has no thread, preemption
\* is off, or the thread did not stop in time.
FreezeDeclines ==
    /\ tickPc = "freeze"
    /\ \/ CURRENT = NO_TASK
       \/ CURRENT # NO_TASK /\ os_thread[CURRENT] = NoThread
       \/ MayDecline
    /\ running' = CURRENT
    /\ froze' = FALSE
    /\ tickPc' = "ontick"
    /\ UNCHANGED <<pc, suspended, statics, lockVars, slotVars, frameVars, tnext,
                   bootVars, making, kernelVars>>

\* on_tick: the kernel's increment_tick wakes any tasks and may want a switch.
\* The scheduler is asked only when its answer can be honoured.
OnTick(woken) ==
    /\ tickPc = "ontick"
    /\ woken \subseteq alive
    /\ ready' = ready \cup woken
    /\ tickPc' = "exit"

\* Mutant: the scheduler is asked though its answer cannot be honoured.
TickAsk_Always(woken, n) ==
    /\ OnTick(woken)
    /\ n \in ready \cup woken
    /\ CURRENT' = n
    /\ tnext' = n
    /\ UNCHANGED <<pc, suspended, PENDING, IN_TICK, lockVars, slotVars, frameVars,
                   running, froze, bootVars, making, alive>>

TickAsk(woken, n) ==
    /\ OnTick(woken)
    /\ froze
    /\ n \in ready \cup woken
    /\ CURRENT' = n
    /\ tnext' = n
    /\ UNCHANGED <<pc, suspended, PENDING, IN_TICK, lockVars, slotVars, frameVars,
                   running, froze, bootVars, making, alive>>

\* No switch is wanted, or it cannot be honoured.
TickKeep(woken) ==
    /\ OnTick(woken)
    /\ tnext' = running
    /\ UNCHANGED <<pc, suspended, statics, lockVars, slotVars, frameVars, running,
                   froze, bootVars, making, alive>>

\* Mutant: the interrupt returns with its flag up.
TickExit_StaysInTick ==
    /\ tickPc = "exit"
    /\ PENDING' = FALSE
    /\ Release
    /\ tickPc' = "after"
    /\ UNCHANGED <<pc, suspended, CURRENT, IN_TICK, slotVars, frameVars, running, froze,
                   tnext, bootVars, making, kernelVars>>

\* IN_TICK and PENDING are put down, then the lock.
TickExit ==
    /\ tickPc = "exit"
    /\ IN_TICK' = FALSE
    /\ PENDING' = FALSE
    /\ Release
    /\ tickPc' = "after"
    /\ UNCHANGED <<pc, suspended, CURRENT, slotVars, frameVars, running, froze,
                   tnext, bootVars, making, kernelVars>>

TickReturn ==
    /\ tickPc' = "idle"
    /\ running' = NO_TASK /\ froze' = FALSE /\ tnext' = NO_TASK

\* No change of task: a frozen thread is put back exactly as it was.
TickResume ==
    /\ tickPc = "after"
    /\ tnext \in {running, NO_TASK}
    /\ IF froze
         THEN /\ frozen' = [frozen EXCEPT ![running] = FALSE]
              /\ suspended' = Thawed(running)
         ELSE UNCHANGED <<frozen, suspended>>
    /\ TickReturn
    /\ UNCHANGED <<pc, statics, lockVars, granted, os_thread, generation, guard,
                   frameVars, bootVars, making, kernelVars>>

\* grant(next), after the lock is down.
TickGrantThaw ==
    /\ tickPc = "after"
    /\ tnext \notin {running, NO_TASK}
    /\ frozen[tnext]
    /\ GrantSwap(tnext)
    /\ TickReturn
    /\ UNCHANGED <<pc, statics, lockVars, granted, os_thread, generation, guard,
                   frameVars, bootVars, making, kernelVars>>

TickGrantSwap ==
    /\ tickPc = "after"
    /\ tnext \notin {running, NO_TASK}
    /\ ~frozen[tnext]
    /\ tickPc' = "signal"
    /\ UNCHANGED <<pc, suspended, statics, lockVars, slotVars, frameVars, running,
                   froze, tnext, bootVars, making, kernelVars>>

TickGrantSet ==
    /\ tickPc = "signal"
    /\ GrantSet(tnext)
    /\ pc' = Notified(tnext)
    /\ TickReturn
    /\ UNCHANGED <<suspended, statics, lockVars, frozen, os_thread, generation,
                   guard, frameVars, bootVars, making, kernelVars>>

-----------------------------------------------------------------------------
TaskStep(t) ==
    \/ EnterCritical(t) \/ EnterNested(t) \/ ExitNested(t) \/ ExitOuter(t)
    \/ ExitReadInTick(t) \/ ExitSwapPending(t)
    \/ KernelBlock(t)
    \/ \E j \in Task, b \in BOOLEAN : KernelWake(t, j, b)
    \/ \E j \in Task, b \in BOOLEAN : KernelDelete(t, j, b)
    \/ \E j \in Task : KernelCreate(t, j)
    \/ InitClear(t) \/ InitSpawn(t)
    \/ PendSwitch(t)
    \/ \E n \in Task : SwitchAsk(t, n)
    \/ SwitchLock(t) \/ SwitchGrant(t) \/ SwitchSignal(t) \/ SwitchRelease(t)
    \/ PermitLock(t) \/ PermitTake(t) \/ PermitWait(t) \/ SpuriousWake(t)
    \/ SwitchReacquire(t) \/ SwitchExit(t)

BootStep == (\E i \in Task : StartStore(i)) \/ StartGrant \/ StartSignal

TickStep ==
    \/ TickEnter \/ FreezeRunning \/ FreezeDeclines
    \/ \E woken \in SUBSET Task, n \in Task : TickAsk(woken, n)
    \/ \E woken \in SUBSET Task : TickKeep(woken)
    \/ TickExit
    \/ TickResume \/ TickGrantThaw \/ TickGrantSwap \/ TickGrantSet

Next == (\E t \in Thread : TaskStep(t)) \/ BootStep \/ TickStep

Spec == Init /\ [][Next]_vars

-----------------------------------------------------------------------------
(* Fairness.  The OS runs every thread it does not hold frozen, and between *)
(* two ticks a thread gets far enough to take a step, so a thread's port    *)
(* code and its way out of a kernel call are strongly fair; so is the       *)
(* spinning of a lock acquisition.  What a task does of its own accord is   *)
(* not fair: it may compute for ever.                                       *)

PortStep(t) ==
    \/ ExitOuter(t) \/ ExitReadInTick(t) \/ ExitSwapPending(t)
    \/ InitClear(t) \/ InitSpawn(t)
    \/ SwitchLock(t) \/ SwitchGrant(t) \/ SwitchSignal(t) \/ SwitchRelease(t)
    \/ PermitLock(t) \/ PermitTake(t) \/ PermitWait(t)
    \/ SwitchReacquire(t) \/ SwitchExit(t)
    \/ \E n \in Task : SwitchAsk(t, n)

\* The tick comes again and again, and the kernel's round robin names every
\* task that stays ready.
FairSpec ==
    /\ Spec
    /\ \A t \in Thread : SF_vars(PortStep(t))
    /\ WF_vars(BootStep)
    /\ WF_vars(TickStep) /\ SF_vars(TickEnter)
    /\ \A n \in Task : SF_vars(\E woken \in SUBSET Task : TickAsk(woken, n))

-----------------------------------------------------------------------------
(* Properties.                                                             *)

Occupant(i) == <<i, generation[i]>>

\* A thread executing task code, or port code on behalf of its task, with the
\* run permit in hand.
OnCpu(t) == pc[t] \in PermitPcs /\ t \notin suspended

\* A thread between the scheduler's answer and its grant to the next task.
HandingOver(t) == pc[t] \in {"sw_lock", "sw_grant", "sw_signal"}

\* Every variable keeps its type.
TypeOK ==
    /\ pc \in [Thread -> Pc]
    /\ suspended \subseteq Thread
    /\ CURRENT \in Task \cup {NO_TASK} /\ PENDING \in BOOLEAN /\ IN_TICK \in BOOLEAN
    /\ owner \in Thread \cup {Tick, NoThread} /\ nesting \in Nat
    /\ granted \in [Task -> BOOLEAN] /\ frozen \in [Task -> BOOLEAN]
    /\ os_thread \in [Task -> Thread \cup {NoThread}]
    /\ generation \in [Task -> Gens]
    /\ guard \in [Task -> Thread \cup {NoThread}]
    /\ mine \in [Thread -> Task] /\ next \in [Thread -> Task \cup {NO_TASK}]
    /\ mygen \in [Thread -> Gens] /\ depth \in [Thread -> Nat]
    /\ tickPc \in TickPc /\ running \in Task \cup {NO_TASK} /\ froze \in BOOLEAN
    /\ tnext \in Task \cup {NO_TASK}
    /\ bootPc \in BootPc /\ first \in Task \cup {NO_TASK}
    /\ making \in [Thread -> Task \cup {NO_TASK}]
    /\ alive \subseteq Task /\ ready \subseteq Task

\* At most one task thread is on the CPU, though each is a real OS thread:
\* what firmware/host-kernel counts as OVERLAPS never happens, through any
\* mix of yields, ticks, refused freezes and slot reuse.
OneOnCpu == \A t, u \in Thread : OnCpu(t) /\ OnCpu(u) => t = u

\* A thread the tick froze never owns CRITICAL: Ticker::interrupt takes the
\* lock before it freezes, so no kernel or heap call waits on a stopped owner.
FrozenOwnsNothing == owner \notin suspended

\* When no handover is under way the permit is somewhere it can be used: the
\* thread of the task the kernel calls current is not frozen, and it has the
\* permit or a grant is standing for it.  A permit lost here is a hang.
HandoverOver ==
    /\ tickPc = "idle" /\ bootPc = "asleep"
    /\ \A t \in Thread : ~HandingOver(t)

PermitNotStranded ==
    HandoverOver =>
        /\ Occupant(CURRENT) \notin suspended
        /\ pc[Occupant(CURRENT)] \in PermitPcs \/ granted[CURRENT]

\* A standing grant is for a thread that is parked and for the occupant the
\* kernel chose: never for a thread that already runs (it would return from
\* its next yield at once) and never inherited by a new occupant.
GrantIsForParked ==
    \A t \in Thread : granted[t[1]] /\ t = Occupant(t[1]) /\ pc[t] # "none" =>
        pc[t] \in ParkPcs /\ (t[1] = CURRENT \/ frozen[t[1]])

\* A kernel call made by a task never finds in_isr() true: the flag is up
\* only while the tick thread has CRITICAL.
InIsrIsTheTick == \A t \in Thread : pc[t] = "crit" => ~IN_TICK

\* The port implements the single CPU of RunPermit.
CPU == INSTANCE RunPermit WITH
    onCpu <- {t \in Thread : OnCpu(t) /\ ~HandingOver(t)},
    chosen <- CURRENT,
    occupant <- generation

SingleCpu == CPU!Spec

\* The task the kernel calls current gets its CPU, or stops being current: a
\* grant, a thaw or a condition-variable wake-up is never lost.
ChosenRuns ==
    \A i \in Task : (CURRENT = i) ~> (OnCpu(Occupant(i)) \/ CURRENT # i)

\* A task that stays ready gets the CPU again and again, even past a task
\* that never blocks and never yields: the port preempts.
NeverStarved ==
    \A i \in Task : <>[](i \in ready) => []<>OnCpu(Occupant(i))

-----------------------------------------------------------------------------
(* What the comments of the port say, and the code does not keep.          *)

\* pend_switch: "record it, and `exit_critical` runs it on the way out".  So a
\* task that the kernel blocked does not go on running its own code.
PendedSwitchIsTaken ==
    tickPc = "idle" =>
        \A t \in Thread : OnCpu(t) /\ pc[t] = "run" => t[1] \in ready

\* The module header: "there is no lock for it to be holding when it freezes".
\* So nothing on the CPU waits for a permit mutex that a frozen thread holds.
FrozenHoldsNoMutex ==
    \A t \in Thread : At(t, "clear") => guard[making[t]] \notin suspended

=============================================================================

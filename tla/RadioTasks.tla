----------------------------- MODULE RadioTasks -----------------------------
(***************************************************************************)
(* The tasks of the esp-radio port: the adapter's slot table and stacks    *)
(* (crates/rusty_rtos_port-esp-radio/src/adapter.rs), and the glue that    *)
(* decides and enacts a switch in one interrupt (kernel.rs of the          *)
(* xiao-s3-wifi cell; the xiao-s3-radio cell's is the same but for its     *)
(* boot).  One step is one masked region, or the code between two of them; *)
(* a pended switch is taken the instant the mask is dropped, so a task     *)
(* steps only when none is pending.                                        *)
(* The kernel is external: its arena of indices, its ready tasks, its      *)
(* current task and one counting semaphore.  A slot, the stack and the     *)
(* machine state of a task are named by the task they were made for.       *)
(***************************************************************************)
EXTENDS Naturals

CONSTANTS
    Main, Idle, Tmr,    \* the task of the runtime and the kernel's two
    Radio,              \* the tasks the driver may create
    TaskCap,            \* the size of the kernel's task arena
    None,
    Creator, Deleter,   \* the tasks that create others, that delete others
    MaxPriorities,
    DaemonPriority,     \* TIMER_TASK_PRIORITY: MaxPriorities - 2 in wifi, 1 in radio
    Asked,              \* the priorities the driver asks for
    KernelStacks,       \* do Idle and Tmr get a stack?  TRUE in wifi, FALSE in radio
    SemMax

Boot == {Main, Idle, Tmr}
Task == Boot \cup Radio
Index == 0..(TaskCap - 1)
BootIndex == [t \in Boot |-> CASE t = Main -> 0 [] t = Idle -> 1 [] OTHER -> 2]

VARIABLES
    alive, index, prio,         \* the kernel's tasks, where they are, how urgent
    waiting, sleeping, expired, \* parked on the semaphore, delayed, timed out
    current, count,             \* the kernel's current task; the semaphore
    slots,                      \* SLOTS: index to slot
    context,                    \* slot to the task whose registers it holds
    freed,                      \* slots and stacks given back to the heap
    loaded,                     \* the task whose registers are in the CPU
    pend,                       \* the switching interrupt is raised
    pc, victim                  \* per task: where in a call, whom it deletes

kernel == <<alive, index, prio, waiting, sleeping, expired, current, count>>
adapter == <<slots, context, freed>>
frames == <<pc, victim>>
vars == <<kernel, adapter, loaded, pend, frames>>

\* Mutant: the ceiling is not applied.
Clamp_Cast(p) == p % 256

\* The top band but one is the driver's ceiling; the cast keeps eight bits.
Clamp(p) == IF p % 256 < MaxPriorities - 2 THEN p % 256 ELSE MaxPriorities - 2

Ready == alive \ (waiting \cup sleeping)
Outranks(t, u) == prio[t] > prio[u]
Top(S) == {t \in S : \A u \in S : ~Outranks(u, t)}

\* Mutant: main is created at the daemon's level, not above it.
MainPriority_Level == DaemonPriority
MainPriority == DaemonPriority + 1

\* Mutant: the kernel's own tasks are given no stack.
Stacked_MainOnly == {Main}

\* Who of them gets a slot: register_main, and register_kernel_task twice where
\* the cell calls it.
Stacked == IF KernelStacks THEN Boot ELSE {Main}

\* boot: main is created above the daemon, the scheduler's start adds Idle and
\* Tmr and makes the last created of the most urgent current; then the slots are
\* filled.
Init ==
    /\ alive = Boot
    /\ index = [t \in Task |-> IF t \in Boot THEN BootIndex[t] ELSE None]
    /\ slots = [i \in Index |-> CASE i = BootIndex[Main] -> Main
                                [] i = BootIndex[Idle] /\ Idle \in Stacked -> Idle
                                [] i = BootIndex[Tmr] /\ Tmr \in Stacked -> Tmr
                                [] OTHER -> None]
    /\ prio = [t \in Task |-> CASE t = Main -> MainPriority [] t = Tmr -> DaemonPriority
                                [] OTHER -> 0]
    /\ waiting = {} /\ sleeping = {} /\ expired = {} /\ count = 0
    /\ current = IF MainPriority > DaemonPriority THEN Main ELSE Tmr
    /\ context = [t \in Task |-> IF t = Main THEN None ELSE t]
    /\ freed = {} /\ loaded = Main /\ pend = FALSE
    /\ pc = [t \in Task |-> "run"] /\ victim = [t \in Task |-> None]

-----------------------------------------------------------------------------
(* The kernel, as Ops hands it to the adapter.                             *)

\* The names the heap has no slot for: never made, or given back.
Unmade == {n \in Radio : index[n] = None} \cup freed

FreeIndex == {i \in Index : \A t \in alive : index[t] # i}

\* A give wakes the most urgent of those that wait.
Wake ==
    IF waiting = {} THEN UNCHANGED <<waiting, pend>>
    ELSE \E w \in Top(waiting) :
        /\ waiting' = waiting \ {w}
        /\ pend' = (pend \/ Outranks(w, current))

\* The task t is at `at` and nothing is pending; its call ends at `to`.
At(t, at) == loaded = t /\ ~pend /\ pc[t] = at
Goto(t, at, to) == At(t, at) /\ pc' = [pc EXCEPT ![t] = to]

-----------------------------------------------------------------------------
(* The scheduler half of the driver's interface.                           *)

\* Mutant: the table is not told.
Register_Not(i, n) == UNCHANGED slots

Register(i, n) == slots' = [slots EXCEPT ![i] = n]

\* task_create: everything that needs no handle first, then the kernel's task
\* and its slot under one mask.
TaskCreate(t, n, p) ==
    /\ At(t, "run") /\ t \in Creator /\ n \in Unmade
    /\ \E i \in FreeIndex :
        /\ index' = [index EXCEPT ![n] = i]
        /\ Register(i, n)
    /\ alive' = alive \cup {n} /\ freed' = freed \ {n}
    /\ prio' = [prio EXCEPT ![n] = Clamp(p)]
    /\ context' = [context EXCEPT ![n] = n]
    /\ pend' = (Clamp(p) > prio[current])
    /\ UNCHANGED <<waiting, sleeping, expired, current, count, loaded>>
    /\ pc' = [pc EXCEPT ![n] = "run"] /\ victim' = [victim EXCEPT ![n] = None]

KernelDelete(v) ==
    /\ alive' = alive \ {v}
    /\ waiting' = waiting \ {v} /\ sleeping' = sleeping \ {v} /\ expired' = expired \ {v}

\* schedule_task_deletion of another task: the kernel forgets it under the
\* mask; its slot and stack go after the mask is dropped.
DeleteOther(t, v) ==
    /\ Goto(t, "run", "clearing") /\ t \in Deleter
    /\ v \in Radio \cap alive /\ v # current
    /\ KernelDelete(v)
    /\ victim' = [victim EXCEPT ![t] = v]
    /\ UNCHANGED <<index, prio, current, count, adapter, loaded, pend>>

ClearSlot(t) ==
    /\ Goto(t, "clearing", "run")
    /\ Register(index[victim[t]], None)
    /\ freed' = freed \cup {victim[t]}
    /\ victim' = [victim EXCEPT ![t] = None]
    /\ UNCHANGED <<kernel, context, loaded, pend>>

\* Mutant: the stack is freed whoever stands on it.
DeleteSelf_Frees(t) ==
    /\ Goto(t, "run", "gone") /\ t \in Radio
    /\ slots[index[current]] = t
    /\ KernelDelete(t)
    /\ freed' = freed \cup {t}
    /\ pend' = TRUE
    /\ UNCHANGED <<index, prio, current, count, slots, context, loaded, victim>>

\* Of itself, or by returning from its entry point: the switch never returns,
\* and the slot and the stack stay where they are.
DeleteSelf(t) ==
    /\ Goto(t, "run", "gone") /\ t \in Radio
    /\ slots[index[current]] = t
    /\ KernelDelete(t)
    /\ pend' = TRUE
    /\ UNCHANGED <<index, prio, current, count, adapter, loaded, victim>>

\* set_task_priority: the kernel asks for a switch when the order changed.
SetTaskPriority(t, v, p) ==
    /\ Goto(t, "run", "run") /\ t \in Creator /\ v \in Radio \cap alive
    /\ prio' = [prio EXCEPT ![v] = Clamp(p)]
    /\ pend' = \E u \in Ready : prio'[u] > prio'[current]
    /\ UNCHANGED <<alive, index, waiting, sleeping, expired, current, count, adapter, loaded, victim>>

\* usleep and sleep_ticks: the kernel parks the current task and asks for the
\* switch; when the task runs again it still yields once.
Usleep(t) ==
    /\ Goto(t, "run", "slept") /\ t # Idle
    /\ sleeping' = sleeping \cup {current}
    /\ pend' = TRUE
    /\ UNCHANGED <<alive, index, prio, waiting, expired, current, count, adapter, loaded, victim>>

YieldTask(t, at) ==
    /\ Goto(t, at, "run") /\ t # Idle /\ (t = Tmr => at = "slept")
    /\ pend' = TRUE
    /\ UNCHANGED <<kernel, adapter, loaded, victim>>

-----------------------------------------------------------------------------
(* Semaphores: block_on makes the same call again whenever the task runs.  *)

User(t) == t \notin {Idle, Tmr}

TakeCompletes(t, at) ==
    /\ Goto(t, at, "run") /\ User(t)
    /\ count > 0 /\ count' = count - 1
    /\ expired' = expired \ {t}
    /\ UNCHANGED <<alive, index, prio, waiting, sleeping, current, adapter, loaded, pend, victim>>

TakeFails(t) ==
    /\ Goto(t, "taking", "run")
    /\ count = 0 /\ t \in expired
    /\ expired' = expired \ {t}
    /\ UNCHANGED <<alive, index, prio, waiting, sleeping, current, count, adapter, loaded, pend,
                   victim>>

TakeBlocks(t, at) ==
    /\ Goto(t, at, "taking") /\ User(t)
    /\ count = 0 /\ t \notin expired
    /\ waiting' = waiting \cup {current}
    /\ pend' = TRUE
    /\ UNCHANGED <<alive, index, prio, sleeping, expired, current, count, adapter, loaded, victim>>

Take(t, at) == TakeCompletes(t, at) \/ TakeFails(t) \/ TakeBlocks(t, at)

Give(t) ==
    /\ Goto(t, "run", "run") /\ User(t)
    /\ count < SemMax /\ count' = count + 1
    /\ Wake
    /\ UNCHANGED <<alive, index, prio, sleeping, expired, current, adapter, loaded, victim>>

TaskStep(t) ==
    \/ \E n \in Radio, p \in Asked : TaskCreate(t, n, p) \/ SetTaskPriority(t, n, p)
    \/ \E v \in Radio : DeleteOther(t, v)
    \/ ClearSlot(t) \/ DeleteSelf(t) \/ Usleep(t) \/ Give(t)
    \/ \E at \in {"run", "slept"} : YieldTask(t, at)
    \/ \E at \in {"run", "taking"} : Take(t, at)

-----------------------------------------------------------------------------
(* The interrupts.                                                         *)

\* try_give_from_isr, and the yield the driver asks for when someone woke.
GiveFromIsr ==
    /\ count < SemMax /\ count' = count + 1
    /\ Wake
    /\ UNCHANGED <<alive, index, prio, sleeping, expired, current, adapter, loaded, frames>>

\* Mutant: the tick's answer is not looked at.
TickWants_Never(v, slice) == FALSE

TickWants(v, slice) == slice \/ Outranks(v, current)

\* The tick: a delay or a timeout ends; a switch is wanted when the task
\* outranks the current one, and may be wanted among equals.
OnTick ==
    \E v \in waiting \cup sleeping, slice \in BOOLEAN :
        /\ waiting' = waiting \ {v} /\ sleeping' = sleeping \ {v}
        /\ expired' = expired \cup ({v} \cap waiting)
        /\ slice => prio[v] = prio[current]
        /\ pend' = (pend \/ TickWants(v, slice))
        /\ UNCHANGED <<alive, index, prio, current, count, adapter, loaded, frames>>

\* switch_context: the frame into the slot of one, the slot of the other into
\* the frame.
Swap(out, into) ==
    /\ context' = [context EXCEPT ![out] = loaded]
    /\ loaded' = context'[into]

\* Software0: decide and commit, then swap the frames of the two slots, or
\* decline when it is the same task or one has no slot.
SwitchingInterrupt ==
    /\ pend /\ pend' = FALSE
    /\ \E to \in Top(Ready) :
        /\ current' = to
        /\ LET out == slots[index[current]]
               into == slots[index[to]]
           IN  IF to = current \/ None \in {out, into}
               THEN UNCHANGED <<context, loaded>>
               ELSE Swap(out, into)
    /\ UNCHANGED <<alive, index, prio, waiting, sleeping, expired, count, slots, freed, frames>>

Next == (\E t \in Task : TaskStep(t)) \/ GiveFromIsr \/ OnTick \/ SwitchingInterrupt

Spec == Init /\ [][Next]_vars

-----------------------------------------------------------------------------

\* Every variable is in its domain.
TypeOK ==
    /\ alive \subseteq Task /\ waiting \subseteq alive /\ sleeping \subseteq alive
    /\ expired \subseteq alive /\ freed \subseteq Radio \ alive
    /\ index \in [Task -> Index \cup {None}]
    /\ prio \in [Task -> 0..MaxPriorities]
    /\ current \in Task /\ loaded \in Task
    /\ count \in 0..SemMax
    /\ slots \in [Index -> Task \cup {None}]
    /\ context \in [Task -> Task \cup {None}]
    /\ pend \in BOOLEAN
    /\ pc \in [Task -> {"run", "taking", "slept", "clearing", "gone"}]
    /\ victim \in [Task -> Radio \cup {None}]

\* The kernel's current task is the one whose registers are in the CPU, at
\* every step (the first obligation of RadioHost): a call that parks the
\* current task parks the caller.  It needs a slot for every task the kernel may
\* choose: a choice that is declined has been committed already
\* (RadioTasks_no_stacks.cfg, the radio cell's boot).
CurrentIsLoaded == current = loaded

\* A live task is found through its index: what the slot table names at the
\* index of a task is that task, never nothing and never another (register_slot
\* and context_of).
LiveTaskHasItsSlot == \A t \in alive : t \in Radio \cup {Main} => slots[index[t]] = t

\* A task that is switched out has its own registers in its slot, so it
\* resumes where it left off and on its own stack.
ContextIntact == \A t \in alive \ {loaded} : context[t] = t

\* A stack that was given back is nobody's: it is not the one in use and no
\* slot leads to it (schedule_task_deletion).
FreedIsUnreachable == \A v \in freed : v # loaded /\ \A i \in Index : slots[i] # v

\* A task runs only while nothing more urgent is ready, unless the switch is
\* already pending: no path that readies a task forgets to ask for it.
MostUrgentRuns == pend \/ current \in Top(Ready)

=============================================================================

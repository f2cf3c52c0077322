# Verification of rusty_rtos_port

This directory models the ports of `rusty_rtos_port` in TLA+, model-checks the
models with TLC and proves theorems about them with TLAPS. A port is the part
of an RTOS below the kernel: it switches tasks, masks interrupts, supplies the
tick. The kernel crates (`rusty_rtos_core`, `rusty_rtos_kernel_core`) are in
other repositories; here the kernel is an environment that makes the calls the
ports' code and cells show it making.

Contents: [the system](#1-the-system) · [the modules](#2-the-modules) ·
[the runs](#3-the-runs) · [fairness](#4-fairness) · [the proofs](#5-the-proofs) ·
[disagreements found](#6-where-the-code-and-its-comments-disagree) ·
[what is not modelled](#7-what-is-not-modelled) · [the plan](#8-the-plan)

## 1. The system

| component | source | state it keeps | operations | what is hard |
|---|---|---|---|---|
| host port | `crates/rusty_rtos_port-host/src/lib.rs` | per task slot: `granted` (mutex + condvar), `os_thread`, `frozen`, `generation`; the re-entrant lock `CRITICAL`; `CURRENT`, `PENDING`, `IN_TICK` | critical sections, `pend_switch`/`switch_now`, `grant`, `await_permit`, `init_task`, `release_task`, `start_first_task`, `Ticker::interrupt` | every task is a real OS thread and the "interrupt" is another: all the interleavings a CPU rules out are possible |
| its Unix backend | same file, `mod backend` | a table of (`tid`, `RUNNING`/`ASKED`/`PARKED`) entries, pending signals | `freeze`, `thaw`, `release`, `thread_handle_of`, two signal handlers | signals race the state word; a freeze may give up; entries are reused |
| its Windows backend | same file | OS handles | `SuspendThread`, `ResumeThread` | freezing is asynchronous until the context is read |
| simulator port | `crates/rusty_rtos_port-core/src/sim.rs` | nesting, exits, ticks, a pending tick and yield, three flags, the tally of an abandoned frame | critical sections, ticks, yields, begin/end of an unwind | sim time is a function of the exits: none may be lost, doubled or moved |
| Cortex-M port | `crates/rusty_rtos_port-cortex-m/src/lib.rs` | PRIMASK/BASEPRI nesting, SysTick | `PendSV`, masking, `suppress_ticks_and_sleep` | SysTick wraps between two accesses; a stale COUNTFLAG |
| RISC-V port | `crates/rusty_rtos_port-riscv/src/lib.rs` | nesting, `mstatus`, the software interrupt | switch in a trap, masking | nesting across a trap; 64-bit counters read as two halves, once each (a carry between them is off by 2^32; the one reader, `riscv32-qemu-switch`, keeps differences cut to 32 bits, which it does not reach) |
| Xtensa port | `crates/rusty_rtos_port-xtensa/src/lib.rs` | PS.INTLEVEL, window registers | switch, masking | interrupt levels above the kernel's |
| esp-radio port | `crates/rusty_rtos_port-esp-radio/src/*.rs` | queues over a ring and two counting semaphores, wait queues, a timer table, task slots | the radio driver's OS interface, from tasks and interrupts | sends, removals and receives interleave between a semaphore and the ring; callbacks outside the mask; slot reuse |
| cells | `firmware/*` | the kernel singleton behind each port | boot order, `with_kernel`, interrupt handlers | two cores on one lock, nested interrupts, tick suppression |
| facade, contract | `crates/rusty_rtos_port`, `crates/rusty_rtos_port-core/src/lib.rs` | none | trait and re-exports | |

How they interact. A task calls the kernel inside `enter_critical` ..
`exit_critical`. The kernel asks for a switch with `yield_now`; inside a
section it is only recorded (`PENDING`, the `PENDSVSET` bit) and is due at the
outermost exit. The port then calls back into the kernel's scheduler, which
moves `CURRENT`. The tick enters the kernel from outside any task and may
switch as well. On the host the tick holds `CRITICAL`, freezes the running
thread through the backend and thaws it, or grants the permit to another.

What makes each correct:
- host port: one thread executes, the one the kernel calls current; the permit
  is never lost; no frozen thread owns a lock the port takes; slots can be
  reused; a ready task is not starved by one that never yields;
- Unix backend: freeze answers true only of a stopped thread; no thaw is lost;
- simulator: time is conserved, belongs to tasks, and ticks follow from it;
- Cortex-M, RISC-V: a switch moves all of a task or nothing, and kernel calls
  exclude each other and the handlers;
- Cortex-M and Xtensa tickless: ticks counted = time slept, with no drift;
- MPU cell: the boundary is the running task's at every instruction;
- two cores: one is in the kernel, a task is on one, no yield across is lost;
- esp-radio: a queue is a bounded FIFO whatever interleaves; a timer fires as
  often as it was armed for; a deleted task's slot does not touch its successor.

## 2. The modules

| module | models | proved about |
|---|---|---|
| `RunPermit` | the abstract specification: one CPU, threads dispatched and stopped, slots taking new occupants | |
| `HostPort` | the host port, one step per access to shared state; refines `RunPermit` | `HostPort_proofs` |
| `MCHostPort` | instances of it for TLC | |
| `UnixFreeze` | the signal protocol behind `freeze` and `thaw` | `UnixFreeze_proofs` |
| `SimPort` | the simulator port, with the kernel that drives it | `SimPort_proofs` |
| `BoundedQueue` | the abstract specification of the radio queue: a sequence, inserted into at either end, removed from at its head | |
| `RadioQueue` | the radio queue: a ring and two counting semaphores; refines `BoundedQueue` | `RadioQueue_proofs` |
| `RadioWaitQueue` | the radio's wait queue: a semaphore and a count of waiters | `MCRelease_proofs` |
| `RadioTimers` | the radio's timer table and its service | `RadioTimers_proofs` |
| `RadioTasks` | the radio's tasks: the adapter's slot table and stacks, and the glue of the radio cells that decides and enacts a switch in one interrupt | `MCBoards_proofs` |
| `SmpCell` | one kernel on both cores: masks, the spinlock, the yields across cores | `SmpCell_proofs` |
| `NestedIrq` | interrupts of two levels in one kernel, on the Xtensa port | `MCBoards_proofs` |
| `GridTick` | tickless idle on a free-running clock: alarms at the points of a grid | `MCBoards_proofs` |
| `SysTickSleep` | tickless idle on a down-counter: `suppress_ticks_and_sleep` register by register | `MCBoards_proofs` |
| `CortexSwitch` | the Cortex-M port: PendSV, SysTick, the two masks around a kernel call | `MCBoards_proofs` |
| `MpuCell` | unprivileged tasks: region 1, `nPRIV`, `svc`, the faults | `MCBoards_proofs` |
| `RiscvTrap` | the RISC-V port: a switch inside a trap, nested sections | `MCRelease_proofs` |
| `MCRelease` | `UnixFreeze`, `RadioWaitQueue` and `RiscvTrap` side by side | |
| `MCBoards` | `SmpCell` and the six other boards side by side | |

`MCRelease` and `MCBoards` compose modules that share nothing. Their initial
state chooses a `part`, and the behaviour is that part's; everything of the
others keeps its initial value. The state graph is the disjoint union of the
parts' own, so each property, guarded by its part, is checked as in a run of that
module alone. The modules' own configurations (`SmpCell.cfg`, `NestedIrq.cfg`,
`GridTick.cfg`, `SysTickSleep.cfg`, `CortexSwitch.cfg`, `MpuCell.cfg`,
`RadioTasks.cfg`, `RiscvTrap.cfg`, `RadioWaitQueue.cfg`) do just that with the
same constants, add the type invariants and a few more conjuncts by name, and are
the ones to run when a module changes.
The two composing modules are also what the theorems about these parts speak of
(`BoardsSpec`, `ReleaseSpec`): a step of the composition is a step of one part or
leaves it alone, and a part's constants are constants of the composing module, with
their values in its `.cfg`.

An operator whose comment begins "Mutant:" is a plausible bug in the operator
that follows it; it is in no specification, and each property is known to fail
when its mutant takes the operator's place.

### HostPort

A thread is a pair (slot, occupant): `os_thread`, `owner` and the mutex owner
`guard` name such pairs. `pc` says where a thread is:

| `pc` | in the code |
|---|---|
| `none` | not spawned |
| `run` | the task's own code, outside critical sections |
| `crit` | inside a critical section, in the kernel |
| `exit1`, `exit2` | `exit_critical` after the lock is down, before `IN_TICK` is read and before `PENDING` is swapped |
| `clear`, `spawn` | `init_task`, clearing the last occupant and spawning the new one |
| `sw_enter` .. `sw_exit`, `reacq` | `switch_now`: the lock, the scheduler, the own permit mutex, the two halves of `grant`, `release_all`, and on the way back `reacquire` and `exit` |
| `relock`, `take`, `wait` | `await_permit`/`take_permit`: going for the mutex, holding it, waiting on the condvar |

The tick thread has `tickPc` and the locals of `interrupt`; the main thread has
`bootPc`. The kernel is `alive` and `ready`: it wakes and blocks tasks, deletes
and creates them, and its scheduler names any ready task (with any priorities
and any policy; that is why no property is about which task is chosen). It does
not free the index of the task it calls current. A new task's `init_task` runs
inside the section that created it, as the C ABI shims' cells do.

Steps merged, and why nothing is lost by it: `IN_TICK` and `PENDING` are put
down and the lock released in one step (both are read by a task only without
the lock, but a task that reads them between has the lock free or waits for
it, and the step keeps both orders' outcomes except a read of a flag about to
fall, which `ExitReadInTick` and `ExitSwapPending` see as before or after it);
`freeze` and the mark in `frozen` (the flag is read by others only under
`CRITICAL`, which the tick holds); the tick's `frozen.store` and its `thaw`
(the thread is stopped until the second); the scheduler call and the reads of
`CURRENT` around it (under `CRITICAL`). `set_interrupt_mask_from_isr` is called
by the tick, which owns `CRITICAL` already, and then changes nothing; it
appears nowhere. `set_core` and the counters change nothing modelled.

### UnixFreeze

One table entry, and the threads that have it one after another. `hpc` is where
a thread is in its signal handler; `usr1`, `usr2` are its pending signals (a
pending signal does not queue, so a bit is exact); SIGUSR2 is blocked in the
handler and delivered atomically by `sigsuspend`. The caller is the port as
`HostPort` has it: one freeze at a time, a thaw only of a thread it froze, and
a release at any time the tick is not in the backend. `late` is history: the
threads on which a freeze gave up. In `HostPort` the same protocol is one step:
`FreezeRunning` and `FreezeDeclines` are its two answers.

### SimPort

Each operation of the port is an operator named as in the source; the actions
are the frame (a task's code or the tail of a switched-out one) and the kernel
around it. History variables: `open`, the sections the frame has open; `made`,
the outermost exits each task has made; `hooks`, the ticks raised by the idle
hook. The kernel is external: it takes a tick before the task goes on, replays
a task's tally when the task is switched in, one empty section at a time, and
begins and ends unwinds. `yields` is only reported and is left out.

### RadioQueue, RadioWaitQueue, RadioTimers

A step is one kernel call, one update under the interrupt mask (`Critical`), or
one unmasked read. Between two steps of a task any other task and the
interrupt run; the interrupt's own calls are one step, since nothing interrupts
it. The kernel's counting semaphore is external: a number that a take lowers
when it is positive, and that a give never raises above the maximum. A
deadline is not a clock: a call that waits may give up whenever the count is 0,
which covers "at once", "at the deadline" and, by not giving up, "for ever".

`RadioQueue`: `pc` names the point in `send` (`reserve`, `reserved`, `pushed`),
`receive_inner` (`claim`, `claimed`, `popped`) and `remove` (`remove`,
`popped`). `filled`, `empty`, `storage`, `head`, `tail`, `len` are the fields of
`Q`. A pop leaves the bytes in the slot, as the code does. The refinement maps
the ring, read from `head` for `len` slots, to the sequence of `BoundedQueue`.

`RadioWaitQueue`: `waiters` and `sem` are `WQ`; `owed` is history: the tasks
that were waiting when a notify read `waiters`. `Overlap` says whether a task
may start to wait while a notify still owes a release.

`RadioTimers`: `timers` is `TIMERS`; `spc`, `now`, `at` are the locals of
`service_timers`, whose `fetched` is the point between the mask and the
callback; `arming` is an `arm` that has read the clock and not stored. The task
`Service` makes calls only while its callback runs, the tasks in `User` at any
time. The driver deletes a timer from one task and not while another arms it
(`delete` frees the box that names the slot). A full table halts the adapter
and is no step. History: `wants`, `fired`, `rearmed`, `last`, `deleted`.

### RadioTasks

A step is one masked region, or the code between two; a switch that is pended is
taken the moment the mask is dropped, so a task steps only when none is
(`At`). A slot, a stack and a machine state are named by the task they were made
for: `slots` is the adapter's `SLOTS`, `context` what each slot's frame holds,
`freed` the stacks and slots given back, `loaded` the task in the CPU.
`SwitchingInterrupt` is the whole of the cells' `Software0`: decide, commit,
look both slots up, swap or decline. Priorities pass through `Clamp`, the cast
to eight bits included.

The two radio cells have the same glue but for their boots, and the boot modelled
is the one of `xiao-s3-wifi`: the daemon is at the driver's ceiling and main above
it, and Idle and the timer task are given stacks (`Stacked`, `KernelStacks = TRUE`).
`Deleter = {main}`: nothing then runs between main's two masked regions of a
deletion; disagreement 10 is what happens when another task deletes.
`xiao-s3-radio` puts main at 2, below its workers, deletes nothing and gives those
two tasks no slot. Its boot is the instance of `RadioTasks_no_stacks`
(disagreement 11), and what is said below of the slot table and of the task in
the CPU is not said of that cell.

### SmpCell, NestedIrq

`SmpCell`: `tpc` is where a task is in `with_kernel` (spinning with its core
masked, inside, or out with the yields it still owes), `handler` where a core is
in an interrupt. Masking is not a variable: a core is masked while the task it
runs is at `spin` or `in`, or while it is in a handler (`Interruptible`).
`selected` is what the kernel chose for a core, `running` whose registers the core
has; they differ between `Decide` and `CopyContexts`, and one hold of the lock
covers both.

`NestedIrq`: `nest` is the stack of frames on the core, the task's first, then
the handlers that interrupted it, each with the level it interrupted (`under`) and the
`PS` its own mask gave back (`ps`). A mask and an unmask are steps of their own.

### GridTick, SysTickSleep

Time passes (`Pass`, `Cycle`) between any two steps. In `SysTickSleep` every
register access whose place matters is a step: the two reads of CSR (they clear
COUNTFLAG), the two stops, the writes of RVR, CVR and CSR, PENDSTCLR. Any number
of cycles lies between two of them, the `ldr` of CSR and the `str` that stops the
counter included. `torn` is history: between those two the counter expired and was
reloaded, so that neither the flag that was read nor the count shows it. In
`GridTick` the alarm may fire at any point, `waiti` drops the mask, and the
handler then finds `SLEEPING`.

### CortexSwitch, MpuCell, RiscvTrap

`CortexSwitch`: `at` is the registers (whose code, at which line, how deep in
which mask); `psp` the stack the process stack pointer is in; `slot` what
`CURRENT_SP_SLOT` names; `sp` and `frame` what is stored. PendSV and SysTick
have one priority and do not nest, so each is a step. A task's body is its
lines; a delay ends at any tick.

`MpuCell` leaves the stacks to `CortexSwitch` and keeps what the boundary is
made of: `region`, `npriv`, `mpu_on`, `RUNNING_APP`. `RogueReaches` is a step per
reach, and what is refused goes through the fault handler to the log.

`RiscvTrap` keeps a register group as the task whose values it holds: `s` is
what the port's switch moves, `t` what the runtime's trap entry and exit move
from and to the stack. `mpie` and `mepc` are what makes `mret` a return.

## 3. The runs

| run | checks | shows |
|---|---|---|
| `HostPort_reuse` | type, `OneOnCpu`, `FrozenOwnsNothing`, `PermitNotStranded`, `GrantIsForParked`, `InIsrIsTheTick`, refinement of `RunPermit` | two tasks, the second created, deleted and created again by the first; freezes that decline; spurious wake-ups |
| `HostPort_live` | `ChosenRuns`, `NeverStarved`, no deadlock | the chosen task gets the CPU; round robin reaches a task past one that never yields |
| `MCRelease` | `FrozenIsParked`, `ThawIsNotLost`, `ThawedReturns`; `EveryoneReleased`, `NotifiedReturns`; `TrapIsSafe`, `PreemptionContinues` | freezes that park or give up, thaws, releases, two occupants of an entry; one notify releases everybody, if nobody waits again before it is over; a RISC-V task switched out and back keeps its registers and its mask, and the timer keeps arriving |
| `SimPort` | `SimTimeConserved`, `TicksDelivered`, `TimeIsTaskTime` | the clock of the simulator |
| `RadioQueue` | type, `SlotsAccounted`, refinement of `BoundedQueue`, `ReceiverServed`, `SenderServed`, no deadlock | two tasks and the interrupt on one queue; nobody waits for ever beside an item or a free slot |
| `RadioTimers` | `DueIsFired`, `ScansAPeriodApart`, `ArmedFires`, no deadlock | one scan fires what is due, whatever is armed, disarmed, deleted and created meanwhile; no arm is lost, also one made by the timer's own callback |
| `MCBoards` | `OneCoreInKernel`, `TaskOnOneCore`, `NoYieldLost`; `NestedSafe`; `GridSafe`; `SleepSafe`; `CortexSafe`; `MpuSafe`; `CurrentIsLoaded`, `LiveTaskHasItsSlot`, `StacksKept`, `MostUrgentRuns`; no deadlock | the boards: two cores, nested levels, both tickless idles, PendSV, the MPU, the wifi cell's tasks |

`NestedSafe`, `GridSafe`, `SleepSafe`, `CortexSafe`, `MpuSafe`, `StacksKept` and
`TrapIsSafe` are conjunctions of the invariants their modules name and explain.

Five runs end in a violation, for disagreements 1, 2, 4, 7 and 10 of section 6.
The configurations of the others are kept beside them and run by hand:
`HostPort_early_tick`, `UnixFreeze_release`, `UnixFreeze_wrong_thread`,
`RadioTimers_deleted`, `RadioTimers_late`, `RadioTasks_no_stacks`,
`SmpCell_deferred`, `SysTickSleep_torn`, `SysTickSleep_narrow`, `GridTick_wrap`.

Bounds. `MaxGen` bounds the occupants of a slot: two are an occupant and its
orphan; a third adds a second orphan, which the code treats as the first (it waits
for ever). `MaxNesting` bounds sections: 2 in `HostPort_reuse`, where kernel calls
are made at both depths, 1 in the other runs of `HostPort` (the proofs cover every
depth; `release_all` is reached with depth 1 only, since `pend_switch` does not
switch inside a section). Two tasks are a giver and a taker, and each is the
other's bystander when it is deleted or preempted; the theorems of section 5 are
for any number. `HostPort_reuse` does not check deadlock, because disagreement 2
is one. In `MCRelease` `UnixFreeze` ends when the last thread was released and
`RiscvTrap` with main's report, so deadlock is not checked there; in `MCBoards`
the parts that end (`Ended`: two clocks that stop, the judge) are named, and the
others may not. `SimPort` has a tick every 3 exits instead of 16 and 5 exits in
all: a tick falls inside a task, before and after a switch and during a replay; 16
only puts more uneventful exits between two ticks. `hooks` has the same bound.
`RadioQueue` has capacity 3, the least at which the slot before the head and the
slot after it differ (with 2 a push to the wrong side of the head is not seen),
and two tasks beside the interrupt: one between the two semaphores of its call
while the other is anywhere in its own, and both waiting while the interrupt fills
and empties the ring. Three tasks were checked for safety when the module was
written, and the theorems are for any number. `RadioWaitQueue` has three waiters
and a semaphore of 4: more than the waiters, as 64 is more than the radio's tasks,
and few enough that surplus gives reach it. `RadioTimers` has two timers, so that
the callback of one works on the other before and after the scan has passed it;
`MaxClock` is 2 with a timeout of 1, which lets a timer fire, be late, and fire
again. Nothing is armed beyond `MaxClock`; a periodic timer may be due beyond it
and then rests. A clock of 3 and timeouts of 1 and 2 gave 4.2 million states and
the same answers. `SmpCell` has two cores, as the chip, and three workers, two of
them urgent: a core each and one to be woken from afar. `NestedIrq` has queues of
one, so that full and empty are a step apart, and two sends of each interrupt; the
nesting is bounded by the levels. Its `Accounted` is stated on the sets of places
at which a source's values stand, and their sizes, rather than on subsequences.
`GridTick` has a period of 2 (the clock can stand between two points), windows up
to 4 (one refused, one accepted) and a delay of 3 ticks, over 16 units of time:
two sleeps and the tick between them. `SysTickSleep` has 3 cycles a tick and a
register of 10: a window of its 3 ticks fits, and one cut short by the register
does not arise but in `SysTickSleep_narrow`; ten ticks are several windows, and a
reload is at most ten cycles from an expiry, so torn stops occur. `RadioTasks` has the three tasks of
the boot and two of the driver's in five indices, so that an index is reused while
another lives; priorities 1 and 9 are one below the clamp and one above.
`RiscvTrap` makes three switches (there, back, there) and nests sections twice.
`CortexSwitch` and `MpuCell` are the cells' own tasks; the laps of the good one
are 2.

## 4. Fairness

`HostPort.FairSpec`: the OS runs every thread that is not frozen, and between
two ticks a thread gets far enough to take a step, so a thread's port code is
strongly fair (weak fairness would let every tick freeze it before its next
step, for ever; a real tick period is a millisecond and a step is some
instructions). A lock acquisition is a spin on a compare-exchange and strongly
fair like it: the code does not promise it, the OS does in effect. The tick
thread sleeps for its period and comes again. The kernel's round robin names
every task that stays ready when the tick asks. What a task does of its own
accord (enter a section, yield, call the kernel) is not fair: it may compute
for ever, and `NeverStarved` holds all the same.

`UnixFreeze.FairSpec`: handlers run, signals are delivered, the port finishes a
freeze or thaw it began. Whether it freezes and when it thaws is not fair.

`RadioQueue.FairSpec`: a task that is ready runs, and the kernel's semaphore
serves its waiters in turn, so a take that is possible again and again succeeds
(strong fairness of the two takes). That anybody calls is not assumed.
`RadioWaitQueue.FairSpec` is the same; that a deadline passes is not assumed.
`RiscvTrap`: the timer comes again, an enabled interrupt that stays pending is
taken, and a task leaves the sections it enters (the cell's tasks spend only a
few instructions in one). The other boards have safety properties only.
`RadioTimers.FairSpec`: the clock goes on, the service loops (the wifi cell
calls it once a tick, `firmware/xiao-s3-wifi/src/kernel.rs:626`), and a callback
returns, though it may make any number of calls first (strong fairness of
`CallEnd`).

## 5. The proofs

`HostPort_proofs` proves, for any number of tasks, occupants and nesting levels,
with or without refused freezes and spurious wake-ups, and, the first three, with or
without early ticks:

- `TypeCorrect`: `Spec => []TypeOK`;
- `NoFrozenOwner`: `Spec => []FrozenOwnsNothing`;
- `TaskCallsNotInIsr`: `Spec => []InIsrIsTheTick`;
- `OneCpu`: `~TickBeforeStart /\ Spec => []OneOnCpu`;
- `GrantsAreForParked`: `~TickBeforeStart /\ Spec => []GrantIsForParked`;
- `PermitIsNotStranded`: `~TickBeforeStart /\ Spec => []PermitNotStranded`;
- `ImplementsOneCpu`: `~TickBeforeStart /\ Spec => SingleCpu`, the refinement of
  `RunPermit`.

From: the assumptions `HostConstants` and `HostThreadNames` of `HostPort` (the
constants are what their comments say, and the names for "nobody" and the tick
are not threads). There are two invariants.

`IInv` is about the lock. Neither of the two safety properties it serves is
inductive; it adds that a thread at a program counter inside the lock owns it
(`OwnerIsInside`), and conversely; that a frozen thread is at a counter outside
it (`FrozenOutside`); that the tick owns it while `tickPc` says so and `IN_TICK`
is up exactly then (`InTickIsLocked`); that the counters of `switch_now` have
their locals set (`SwitchDepth`); and that the handle in a slot is not of an
occupant beyond its generation (`OccupantsInOrder`). The argument is the one of
`Ticker::interrupt`'s comment: the tick freezes only while it owns the lock, so
what it freezes does not, and a frozen thread takes no step that acquires it.
The steps are grouped as in the module: critical sections, kernel calls,
`switch_now`, the permit, boot, the tick; `NextHolds` puts them together and
`InvariantHolds` closes the induction.

`PermitInv` is about the permit and stands on `IInv`. The thread on the CPU is
the present occupant of the current task's slot, or is handing the permit over
(`OnCpuIsCurrent`); whom it hands it to, and whom the tick is about to grant it
to, is the current task, whose thread idles (`HandoverTarget`, `TickTurn`). A
grant stands for the current task or for a frozen one, and its thread is parked
(`GrantsForParked`); who is frozen was frozen with the permit or with a grant on
its way (`FrozenOccupants`), which is why a thaw is as good as a grant. The other
parts carry that through the reuse of a slot: `init_task` clears the old
occupant's grant and freeze before the new thread can be found
(`HandlesMatch`, `SlotsReused`), and an orphan's locals keep naming its own
generation (`OwnLocals`), so that `take_permit` turns it away. `CurrentHasPermit`
says that, when no handover is under way, the current task has the permit or a
grant of it. `~TickBeforeStart` is needed, not convenient: with early ticks
the instance of `HostPort_early_tick` refutes each of the four (disagreement 3).

`IInv` and the parts of `PermitInv` were first checked by TLC on the instance of
`HostPort_reuse`.

`SimPort_proofs` proves, for any tasks and any tick period:

- `TypeCorrect`: `Spec => []TypeOK`;
- `ClockOnlyInTasks`: `Spec => TimeIsTaskTime`;
- `TicksFollowExits`: `Spec => []TicksDelivered`;
- `NoSimTimeIsLost`: `Spec => []SimTimeConserved`, for any finite number of tasks.

Its invariant says that the flag word names the context (`FlagsNameContext`: in a
task it is `COUNTS`, in a tail `TALLIES`, and so on) and that the port's nesting
is the number of sections the running frame has open (`NestingIsOpen`). The first
makes `exit_critical`'s single comparison of the word decide as the four
conditions it packs; without the second an abandoned frame's nesting could outlive
it. `TicksFollowExits` adds that a tick pending keeps the task from a further exit
(`TaskMayRun`), so ticks do not merge, and an arithmetic lemma on the next
multiple of the period. `NoSimTimeIsLost` is about a sum over the tasks, a fold of
the community modules: its recursion over finite sets is unfolded once, on the set
of all sets for which the sum exists, and a smallest counterexample (the library's
theorem on the order of the naturals) gives the rest, so that no induction theorem
with an operator for a parameter is needed. From it follow the two facts a step
uses: a sum changes as its one changed term does, and a sum of zeros is zero.

`RadioQueue_proofs` proves, for any capacity, any items and any number of tasks:

- `RingIsSafe`: `Spec => []TypeOK`, that is, no push into a full ring and no pop
  from an empty one (`len` stays in 0..capacity, the indices in the ring);
- `SemaphoresExact`: `Spec => []SlotsAccounted`, so that no give is refused;
- `ImplementsBoundedQueue`: `Spec => QueueIsFifo`, the refinement of `BoundedQueue`.

`TypeOK /\ SlotsAccounted` is inductive, and neither part is alone: a push is
within the ring because its caller is counted among the reserved, and the
accounting survives a give because the semaphore is below its maximum. The counts
are cardinalities of sets of tasks; `CountMoves` says how one task's move changes
one, with the library's theorems on finite sets. For the refinement the ring, read
from `head` for `len` slots, is computed for each of the pushes, the pop and the
two steps of `remove` (a pop at the head that may put the item back, at the tail),
modulo the capacity; it needs besides `IInv` that slots and hands hold items
(`RingInv`).

`RadioTimers_proofs` proves, for any number of timers, users and clock values:

- `TypeCorrect`: `Spec => []TypeOK`;
- `ScanFiresWhatIsDue`: `Spec => []DueIsFired`;
- `NoBurst`: `Spec => ScansAPeriodApart`.

The invariant follows one slot through a scan: whoever was due when `now` was read
is still due when the scan reaches it, was fired by it, or was armed anew; and a
timer that has fired is due a period after the `now` of the scan that fired it,
unless it was armed since.

`UnixFreeze_proofs` proves, for any number of threads that occupy the entry one
after another:

- `TypeCorrect`: `Spec => []TypeOK`;
- `FreezeIsSynchronous`: `Spec => []FrozenIsParked`;
- `ThawArrives`: `Spec => []ThawIsNotLost`.

From `FreezeConstants` (the name for "nobody" is not a thread). What makes it work
is that, but for freezes that gave up, one handler at most can still turn `ASKED`
into `PARKED`: the occupant's own, started by the freeze that is looking
(`OneComing`), because a freeze that does not give up ends only when that handler
has parked, and a release happens only between freezes. `Clean` says that no
*earlier* occupant was given up on; it is never regained once lost
(`StaysUnclean`), so the invariant may be stated under it, and `FrozenIsParked`
holds even when the present occupant was given up on. `WakeOnItsWay` is the
second argument: `thaw` stores `RUNNING` before the SIGUSR2, and the handler
reads the word with SIGUSR2 blocked, so either it sees `RUNNING` or the signal
finds it in `sigsuspend`.

`SmpCell_proofs` proves, for any number of cores, workers and priorities:

- `TypeCorrect`: `Spec => []TypeOK`;
- `KernelExclusion`: `Spec => []OneCoreInKernel`;
- `ContextExclusion`: `Spec => []TaskOnOneCore`;
- `YieldsArrive`: `Spec => []NoYieldLost`.

From `SmpConstants` (names of cores, workers, idle and boot frames do not clash).
Exclusion needs more than the lock: a handler of the *same* core must not run
inside its section, and a task must not be switched out inside one, which is what
`Inside` says: a frame that is masked is on a core that is in no handler. A
task is on one core because the cores' choices differ, and what a core still
has between `Decide` and `CopyContexts` is nobody's choice (`OwnFrames`): the kernel
cannot choose it for another core before the lock is free, and by then it is
stored. A yield is followed from hand to hand (`YieldKept`): asked, owed by the
frame that asked, raised, pended by the interrupt, served by `Decide`. That a
frame that owes is a worker at `out` is `WorkersCall`.

`IInv` of both was first checked by TLC on the instances of the runs.

`MCBoards_proofs` proves what the six other boards promise, each as an invariant of
`BoardsSpec`, from `ClockConstants` and `TaskConstants` of `MCBoards`:

- `NestedIsSafe`: `[]NestedSafe`, for every length of the queue and any number of
  interrupts. The frames are stacked by level, each handler's `under` is the level of
  the frame below, and only the top one can be in the kernel (`NestShape`); the
  level is the top frame's own, or the mask's with the own one kept in `ps`
  (`NestLevel`). The numbers are the other half: what a source has on its way is
  above all it has queued, and that above all that was received (`NumbersGrow`), so
  the order of `Accounted` survives a queue that is filled at one end and emptied
  at the other by handlers that interrupt each other between the two.
- `GridIsSafe`: `GridFits => []GridSafe`. The tick handler and the idle task move
  the stored grid and the kernel's clock, and between the two what is missing in
  the one is on the way to the other (`GridTicks`); where a tick can be taken, its
  point has come (`AlarmOnGrid`). `GridFits` keeps the clock a period below the
  32-bit wrap; `GridTick_wrap` refutes it beyond.
- `SleepIsSafe`: `SleepFits => []SleepSafe`. When the register holds two ticks
  (`SysTickSleep_narrow` refutes it with less) the kernel's clock is never ahead, a
  window ends, and a tick is dropped only by a torn stop, for any number of cycles
  between two accesses. That none is dropped is false (disagreement 13).
  `SleepClock` is an equation: the cycles that went by are the kernel's ticks, the
  one that is pending, and what the counter has passed. `SleepOwed` says where a
  pending exception is in the flag or was read out of it, unless a stop was torn.
- `MpuIsSafe`: `[]MpuSafe`. The boundary is the running thread's from the switch
  on; rogue's reaches and the log go together, reach by reach (`MpuReaches`), and
  what is stored in the applications' memory is their own (`MpuMemory`).
- `CortexIsSafe`: `[]CortexSafe`. A thread at a line inside a kernel call is
  masked, so it is the loaded one (`PhaseMasks`), and what PendSV has saved of the
  others is outside every call (`FramesAreTheirs`).
- `CurrentTaskIsInTheCpu`, `SlotsFollowTheTasks`, `StacksAreKept`: for any
  driver's tasks, under `WifiCell`, which has three parts. Idle and the timer task
  have stacks, and main is above the driver's ceiling: both are that cell's boot.
  Only main deletes others: that is expected of the driver, no code enforces it.
  The theorems say nothing of `xiao-s3-radio`, whose boot has neither of the first
  two; `RadioTasks_no_stacks` refutes the first theorem for it. With another
  deleter the instance of `RadioTasks_clear` refutes all three. Slots and indices
  name each other
  (`SlotsNameTasks`), and a deletion is not preempted between its masked regions
  (`DeletionIsWhole`).
- `TheMostUrgentRuns`: `[]MostUrgentRuns`, whoever deletes and at which priority.
  It is about the kernel's books alone (`RankInv`), which stay right where the slot
  table does not: who is current is ready and outranked by nobody ready, unless the
  switch is pended, and no name is given to a new task while a deletion still holds it
  (`VictimsWait`).

`MCRelease_proofs` proves, as invariants of `ReleaseSpec`:

- `OneNotifyReleasesAll`: `WaitFits => []EveryoneReleased`, for any number of
  waiters up to the semaphore's maximum. While a notify gives nobody begins to
  wait, so those it owes are those who ask (`OwedAsk`), and the semaphore with
  what is still to be given covers them (`OwedCovered`); a waiter that gives up
  instead leaves its release in the semaphore. `WaitFits` is `~Overlap`, which
  `RadioWaitQueue_again` refutes without (disagreement 7), and a semaphore as
  large as the waiters.
- `TrapKeepsTheTask`: `[]TrapIsSafe`. Whose code runs has its own registers
  (`RegistersAreCurrents`), because what is saved of every other is its own and
  resumes it unmasked (`SavedIsTheirs`); a section is code with the interrupts
  off, and a trap is taken outside of it (`SectionIsMasked`).

The invariants of the two were checked by TLC on the parts' own configurations
before they were proved.

Every invariant and every action property that a passing run checks is stated by a
theorem above, and so are the two refinements. Only model-checked are the liveness
properties (`ChosenRuns`, `NeverStarved`, `ThawedReturns`, `NotifiedReturns`,
`PreemptionContinues`, `ReceiverServed`, `SenderServed`, `ArmedFires`), which are
out of TLAPS's reach, as `ENABLED` is, and the absence of deadlock. The hypotheses
of the theorems (`~TickBeforeStart`, `GridFits`, `SleepFits`, `WifiCell`,
`WaitFits`) hold in the passing runs. Each has a configuration that
shows what happens without it, but for two that are numbers of the source: the
semaphore of a wait queue counts to 64, above any number of tasks the radio creates,
and the timer daemon's priority is at the driver's ceiling.

## 6. Where the code and its comments disagree

Each numbered item is a configuration, named first, that ends in a
counterexample; `PROJECT.json` quotes the lines of those among its runs.

1. `HostPort_lost_pend`. `exit_critical` releases the lock, then swaps `PENDING`.
   A tick between the two clears `PENDING` and, when it wants no switch of its
   own, resumes the caller, which runs on although the kernel has blocked it.
2. `HostPort_frozen_mutex`. "There is no lock for it to be holding when it
   freezes": `take_permit` holds the slot's mutex outside `CRITICAL`. Frozen
   there, deleted and its slot reused, it blocks `init_task`, under `CRITICAL`.
3. `HostPort_early_tick`. `start_first_task` stores
   `CURRENT` and grants without the lock, after the cells have spawned the ticker:
   a tick between the two freezes a thread that is waiting for the permit, and the
   grant then thaws it in place of setting the permit. If the tick switches to
   another task, and that one deletes the first and creates its slot's next
   occupant before the grant is made, the grant is the new occupant's: two threads
   are on the CPU.
4. `UnixFreeze_giveup`. `freeze` gives up by storing `RUNNING` over a `PARKED`
   that arrived after its last look; nobody wakes that thread.
5. `UnixFreeze_release`. `release` stores `RUNNING` in the entry of a parked
   thread; with a stray SIGUSR2, or before it sleeps, it leaves the handler and
   runs on in a task that no longer exists.
6. `UnixFreeze_wrong_thread`. The handler finds its entry and swaps its state in
   two steps. Left over from a freeze that gave up, it can park on the `ASKED`
   meant for the entry's next thread, and `freeze` answers true for a thread
   that runs.
7. `RadioWaitQueue_again`. "Everyone waiting is released by one `notify`": it
   gives once per waiter it counted, and nothing ties a give to a waiter. In the
   trace the interrupt's notify counts `w1` and gives once; `w2` begins to wait
   only then, runs first and takes that give, and `w1` waits on. The one-by-one
   loop of `notify` leaves the same room.
8. `RadioTimers_deleted`. The service copies a callback under the mask and calls
   it without: a task that preempts it there may delete the timer and free what
   the callback uses.
9. `RadioTimers_late`. "Set from *now*": `now` is read once, before the scan. A
   timer reached late, by a preemption or by the callbacks before it, fires and
   is due a period after that reading, so it fires again less than a period
   later. `ScansAPeriodApart` is what does hold.

10. `RadioTasks_clear`. `schedule_task_deletion` clears the deleted task's slot
   entry after the mask is dropped. A task that is created meanwhile, by a more
   urgent one, may get the index from the kernel and register itself; the clearing
   then removes *its* entry, and it can never be switched to again. It takes a
   deleter below another creator: main, the wifi cell's deleter, is above all.
11. `RadioTasks_no_stacks`, the boot of `xiao-s3-radio`. It gives Idle and the
   timer task no stack, "because nothing ever switches to them". When nobody else
   is ready the kernel commits to one of them, the switch is declined, and the
   kernel's current task is not the one that runs: a call that parks the current
   task parks Idle. `register_kernel_task` knows it ("harmless while some radio task
   is always ready, and the first thing to break" otherwise); that cell's two
   workers never leave nobody ready. The wifi cell gives both a stack.
12. `SmpCell_deferred`. A yield for the other core goes out after the lock and
   the mask: a task that is preempted between the unmask and `raise_core_yields`
   takes the yield with it, and the other core goes on with a less urgent task until it
   runs again. `NoYieldLost` counts such a yield as owed.
13. `SysTickSleep_torn`. "Sleeping through an owed tick would lose it": the check
   reads CSR and the stop writes it, a load and a store that are more than a cycle
   apart. The counter can expire after the one and reload before the other; the
   flag was read too early, the count is not 0, and that tick is slept through. The
   second stop has the same gap, and reports too few ticks. `SleepSafe` says that
   nothing else drops a tick: an expiry before the read is seen, and one that has
   not reloaded reads 0, at which `suppress_ticks_and_sleep` declines.
14. `SysTickSleep_narrow`. A register narrower than two ticks leaves a window of
   what is left of the tick; one cycle of it is a reload of 0, which stops the
   counter for good. The cells' reload is far below the register's 24 bits.
15. `GridTick_wrap`. `NEXT_TICK_US` is 32 bits wide and compared with a 64-bit
   clock. From its wrap on ("~71 minutes. This cell runs for 400 ms") every grid
   point is in the past, each alarm is armed at once, and the kernel's clock runs
   ahead of time. A documented limit rather than a disagreement; `GridSafe` holds
   up to there.

Comments that the models contradict, without consequence for a property:
`xiao-s3-tickless` starts the alarm (line 1016) before it stores the handle the
handler uses (1022), though the comment between says the opposite order is kept;
`mps2-an385-qemu-preempt` says near line 509 that interrupts are still masked
from reset, which the core does not do (nothing is pended there, so nothing
happens: `NoSwitchAtBoot`).

`HostPort` itself is checked with ticks only after the first grant
(`TickBeforeStart = FALSE`), because of 3; `UnixFreeze` with the caller's releases
as they are, and its invariants say whom a freeze that gave up excepts (`late`),
because of 4 and 6; `RadioWaitQueue` with `Overlap = FALSE`, because of 7;
`RadioTasks` with `Deleter = {main}` and `KernelStacks = TRUE`, because of 10 and
11; `SysTickSleep` with its torn stops counted as such (`torn`), because of 13;
`GridTick` with a `Wrap` beyond its time.

## 7. What is not modelled

- Register save and restore, stack frames, window spills: assembly; the emulator
  cells test it.
- The Windows backend beyond its answers, and the stub for other systems, which
  always declines (`MayDecline`).
- Locks the port does not own (the C allocator, `stdout`), which its header
  excludes as well.
- Memory orderings: every step is one access, sequentially consistent. The
  port's orderings are acquire/release on the lock and SeqCst elsewhere.
- A full table (256 threads) or slot table: the port then declines to freeze,
  which `MayDecline` covers.
- Deletion of a radio queue or wait queue: the driver never uses one again, and
  a call in flight at its deletion is excluded by that contract. `messages_waiting`
  and `is_active` only read.
- The semaphore the adapter makes per task (`current_task_thread_semaphore`): its
  creation, and that a deletion does not give it back, are allocation; its use is
  that of any semaphore in `RadioTasks`. An allocation that fails halts the adapter.
- Task notification, streams, timers of the kernel: other repositories.
- The counters and laps by which the cells judge themselves, where the models
  state the property they stand for; their deadlines.
- Saturation of the microsecond clock (half a million years).
- `rusty_rtos_port` and the traits of `rusty_rtos_port-core`: re-exports and
  declarations.
- The cells that only boot a kernel or make one switch (`mps2-an385-qemu`,
  `mps2-an385-qemu-switch`, `riscv32-qemu-switch`, `xiao-s3-switch`): what they
  run is what the modules of their ports model, without interrupts.
- The code generation bench: it compares instructions, not states.

## 8. The plan

Written: all of section 2, and the proofs of section 5. Next, in this order:

1. Composition: `UnixFreeze` under `HostPort`, so that a freeze that gives up in
   the one is `FreezeDeclines` in the other, as a refinement.
2. Abstract specifications of the boards: `SmpCell`, `NestedIrq` and
   `CortexSwitch` each implement one kernel that runs one call at a time.
3. Liveness of the boards: a yield across cores is served, a suppressed idle wakes its
   worker; both need an assumption on the kernel's choice among equals.

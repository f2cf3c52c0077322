------------------------------ MODULE MCBoards ------------------------------
(***************************************************************************)
(* The boards, side by side: the two cores of SmpCell, and each of the     *)
(* other cells' modules with variables of its own.  They share no state; a *)
(* behaviour is of the board that `part` names.  MCBoards.cfg gives every  *)
(* board a small instance; MCBoards_proofs is about all of them.           *)
(***************************************************************************)
EXTENDS SmpCell

CONSTANTS
    Cap, MaxSent,                               \* of NestedIrq
    DelayTicks,                                 \* of GridTick and SysTickSleep
    Period, MaxWindow, Wrap, GridEnd,           \* of GridTick
    Reload, MaxReload, SleepEnd,                \* of SysTickSleep
    GoodLaps,                                   \* of MpuCell
    main, idle, tmr, Radio, Creator, Deleter, TaskCap, MaxPriorities,
    DaemonPriority, Asked, KernelStacks, SemMax \* of RadioTasks

\* The clocks and counters are natural numbers, and a tick takes time.
ASSUME ClockConstants ==
    /\ DelayTicks \in Nat /\ Period \in Nat \ {0} /\ MaxWindow \in Nat
    /\ Wrap \in Nat \ {0} /\ GridEnd \in Nat /\ Nobody \notin Nat
    /\ Reload \in Nat \ {0} /\ MaxReload \in Nat /\ SleepEnd \in Nat
    /\ GoodLaps \in Nat

\* The tasks of boot are three, none of them the driver's or the name for
\* nobody.
ASSUME TaskConstants ==
    /\ main # idle /\ main # tmr /\ idle # tmr
    /\ Radio \cap {main, idle, tmr} = {}
    /\ Nobody \notin Radio \cup {main, idle, tmr}
    /\ TaskCap \in Nat /\ TaskCap >= 3 /\ Nobody \notin Nat
    /\ MaxPriorities \in Nat /\ MaxPriorities >= 2
    /\ DaemonPriority \in Nat \ {0} /\ Asked \subseteq Nat /\ SemMax \in Nat

\* The two radio cells differ in whether the kernel's own tasks have stacks.
ASSUME StacksConstant == KernelStacks \in BOOLEAN

VARIABLE part

VARIABLES
    n_level, n_nest, n_contexts, n_pend, n_selected, n_parked, n_fromIsr,
    n_toIsr, n_sent, n_refused, n_received
nested == <<n_level, n_nest, n_contexts, n_pend, n_selected, n_parked, n_fromIsr,
    n_toIsr, n_sent, n_refused, n_received>>
Nested == INSTANCE NestedIrq WITH
    level <- n_level, nest <- n_nest, contexts <- n_contexts,
    pend <- n_pend, selected <- n_selected,
    parked <- n_parked, fromIsr <- n_fromIsr, toIsr <- n_toIsr,
    sent <- n_sent, refused <- n_refused, received <- n_received

VARIABLES
    g_now, g_alarm, g_pending, g_grid, g_masked, g_sleeping, g_handler,
    g_idle, g_asked, g_before, g_slept, g_ticks, g_wakeAt
grid == <<g_now, g_alarm, g_pending, g_grid, g_masked, g_sleeping, g_handler,
    g_idle, g_asked, g_before, g_slept, g_ticks, g_wakeAt>>
Grid == INSTANCE GridTick WITH
    MaxTime <- GridEnd, Delay <- DelayTicks, None <- Nobody,
    now <- g_now, alarm <- g_alarm, pending <- g_pending,
    grid <- g_grid, masked <- g_masked, sleeping <- g_sleeping,
    handler <- g_handler, idle <- g_idle, asked <- g_asked,
    before <- g_before, slept <- g_slept, ticks <- g_ticks, wakeAt <- g_wakeAt

VARIABLES
    s_now, s_enabled, s_rvr, s_cvr, s_countflag, s_pendst, s_torn, s_idle,
    s_asked, s_seen, s_left, s_slept, s_ticks, s_wakeAt
sleep == <<s_now, s_enabled, s_rvr, s_cvr, s_countflag, s_pendst, s_torn, s_idle,
    s_asked, s_seen, s_left, s_slept, s_ticks, s_wakeAt>>
Sleep == INSTANCE SysTickSleep WITH
    MaxTime <- SleepEnd, Delay <- DelayTicks,
    now <- s_now, enabled <- s_enabled, rvr <- s_rvr, cvr <- s_cvr,
    countflag <- s_countflag, pendst <- s_pendst, torn <- s_torn,
    idle <- s_idle, asked <- s_asked, seen <- s_seen, left <- s_left,
    slept <- s_slept, ticks <- s_ticks, wakeAt <- s_wakeAt

VARIABLES
    c_primask, c_nesting, c_saved, c_pend, c_at, c_psp, c_slot, c_sp, c_frame,
    c_current, c_ready, c_waiting, c_sema
cortex == <<c_primask, c_nesting, c_saved, c_pend, c_at, c_psp, c_slot, c_sp,
    c_frame, c_current, c_ready, c_waiting, c_sema>>
Cortex == INSTANCE CortexSwitch WITH
    primask <- c_primask, nesting <- c_nesting, saved <- c_saved,
    pend <- c_pend, at <- c_at, psp <- c_psp, slot <- c_slot, sp <- c_sp,
    frame <- c_frame, current <- c_current, ready <- c_ready,
    waiting <- c_waiting, sema <- c_sema

VARIABLES
    m_thread, m_line, m_primask, m_pend, m_region, m_npriv, m_mpu_on,
    m_RUNNING_APP, m_current, m_ready, m_laps, m_done, m_lap, m_landed,
    m_faults, m_judged
mpu == <<m_thread, m_line, m_primask, m_pend, m_region, m_npriv, m_mpu_on,
    m_RUNNING_APP, m_current, m_ready, m_laps, m_done, m_lap, m_landed,
    m_faults, m_judged>>
Mpu == INSTANCE MpuCell WITH
    thread <- m_thread, line <- m_line, primask <- m_primask,
    pend <- m_pend, region <- m_region, npriv <- m_npriv, mpu_on <- m_mpu_on,
    RUNNING_APP <- m_RUNNING_APP, current <- m_current, ready <- m_ready,
    laps <- m_laps, done <- m_done, lap <- m_lap, landed <- m_landed,
    faults <- m_faults, judged <- m_judged

VARIABLES
    k_alive, k_index, k_prio, k_waiting, k_sleeping, k_expired, k_current,
    k_count, k_slots, k_context, k_freed, k_loaded, k_pend, k_pc, k_victim
tasks == <<k_alive, k_index, k_prio, k_waiting, k_sleeping, k_expired, k_current,
    k_count, k_slots, k_context, k_freed, k_loaded, k_pend, k_pc, k_victim>>
Tasks == INSTANCE RadioTasks WITH
    Main <- main, Idle <- idle, Tmr <- tmr, None <- Nobody,
    alive <- k_alive, index <- k_index,
    prio <- k_prio, waiting <- k_waiting, sleeping <- k_sleeping,
    expired <- k_expired, current <- k_current, count <- k_count,
    slots <- k_slots, context <- k_context, freed <- k_freed,
    loaded <- k_loaded, pend <- k_pend, pc <- k_pc, victim <- k_victim

-----------------------------------------------------------------------------
Part == {"smp", "nested", "grid", "sleep", "cortex", "mpu", "tasks"}
all == <<part, vars, nested, grid, sleep, cortex, mpu, tasks>>

BoardsInit ==
    /\ part \in Part
    /\ Init /\ Nested!Init /\ Grid!Init /\ Sleep!Init /\ Cortex!Init
    /\ Mpu!Init /\ Tasks!Init

\* The clocks of grid and sleep stop at their bounds; mpu's judge ends
\* the program.
Ended == part \in {"grid", "sleep", "mpu"} /\ UNCHANGED all

BoardsNext ==
    \/ part = "smp" /\ Next /\ UNCHANGED <<part, nested, grid, sleep, cortex, mpu, tasks>>
    \/ part = "nested" /\ Nested!Next
       /\ UNCHANGED <<part, vars, grid, sleep, cortex, mpu, tasks>>
    \/ part = "grid" /\ Grid!Next
       /\ UNCHANGED <<part, vars, nested, sleep, cortex, mpu, tasks>>
    \/ part = "sleep" /\ Sleep!Next
       /\ UNCHANGED <<part, vars, nested, grid, cortex, mpu, tasks>>
    \/ part = "cortex" /\ Cortex!Next
       /\ UNCHANGED <<part, vars, nested, grid, sleep, mpu, tasks>>
    \/ part = "mpu" /\ Mpu!Next
       /\ UNCHANGED <<part, vars, nested, grid, sleep, cortex, tasks>>
    \/ part = "tasks" /\ Tasks!Next
       /\ UNCHANGED <<part, vars, nested, grid, sleep, cortex, mpu>>
    \/ Ended

BoardsSpec == BoardsInit /\ [][BoardsNext]_all

-----------------------------------------------------------------------------
(* The properties of the boards other than SmpCell's own.                  *)

\* xiao-s3-nested: no interrupt is taken inside a kernel section, every value
\* sent is accounted for in order, and no switch is lost.
NestedSafe ==
    part = "nested" => Nested!KernelExclusive /\ Nested!Accounted /\ Nested!NoSwitchLost

\* xiao-s3-tickless: the kernel is held by one, the ticks stay on the grid and
\* behind the time, and the next one is always armed.
GridSafe ==
    part = "grid" => Grid!KernelHeldByOne /\ Grid!GridKept /\ Grid!ClockNotAhead /\ Grid!TickIsArmed

\* mps2-an385-qemu-tickless: no tick is counted twice, one is dropped only when
\* the counter expires and is reloaded between the read of CSR and the write that
\* stops it, and every window ends.
SleepSafe ==
    part = "sleep" =>
        Sleep!ClockNotAhead /\ Sleep!DroppedOnlyWhenTorn /\ Sleep!WindowEnds

\* mps2-an385-qemu-preempt: kernel calls are exclusive, and PendSV moves all of
\* a task or nothing.
CortexSafe ==
    part = "cortex" =>
        /\ Cortex!KernelExclusive /\ Cortex!SwitchIsWhole /\ Cortex!FramesKept
        /\ Cortex!NoSwitchAtBoot /\ Cortex!MostUrgentRuns

\* mps2-an505-qemu-mpu: the boundary follows the running task, and refuses
\* exactly the rogue's reaches.
MpuSafe == part = "mpu" => Mpu!Safe

\* xiao-s3-wifi, whose kernel tasks have stacks: the kernel's current task is the
\* one in the CPU.
CurrentIsLoaded == part = "tasks" => Tasks!CurrentIsLoaded

\* xiao-s3-wifi: what the slot table names at a live task's index is that task.
LiveTaskHasItsSlot == part = "tasks" => Tasks!LiveTaskHasItsSlot

\* xiao-s3-wifi: a switched-out task's registers are in its slot, and a stack
\* that was given back is nobody's.
StacksKept == part = "tasks" => Tasks!ContextIntact /\ Tasks!FreedIsUnreachable

\* xiao-s3-wifi: nothing more urgent is ready than the task that runs, unless
\* the switch is pended.
MostUrgentRuns == part = "tasks" => Tasks!MostUrgentRuns

=============================================================================

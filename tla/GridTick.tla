------------------------------ MODULE GridTick ------------------------------
(***************************************************************************)
(* Tickless idle on a free-running clock (firmware/xiao-s3-tickless): every*)
(* tick is a one-shot alarm at a point of an absolute grid; the idle task, *)
(* inside the kernel and masked, programs one alarm for many ticks and     *)
(* halts in waiti, which drops the mask, so the alarm is taken while the   *)
(* kernel is held and its handler must do nothing.  Alarm and switch are of*)
(* one level.  The kernel is external: its ticks, and when it next wakes   *)
(* the worker.  Time passes between any two steps.                         *)
(***************************************************************************)
EXTENDS Naturals

CONSTANTS
    Period,         \* TICK_MICROS
    Delay,          \* DELAY_TICKS of the worker
    MaxWindow,      \* the longest alarm the timer takes
    Wrap,           \* where the stored grid wraps
    MaxTime,        \* bound: when the model's clock stops
    None

VARIABLES
    now,                        \* SYSTIMER
    alarm, pending,             \* when the alarm fires, its interrupt
    grid,                       \* NEXT_TICK_US
    masked, sleeping,           \* PS.INTLEVEL above 0; SLEEPING
    handler,                    \* where in the tick handler
    idle, asked, before, slept, \* the idle task: where, and its locals
    ticks, wakeAt               \* kernel

clock == <<now, alarm, pending, grid>>
core == <<masked, sleeping, handler>>
task == <<idle, asked, before, slept>>
kernel == <<ticks, wakeAt>>
vars == <<clock, core, task, kernel>>

Init ==
    /\ now = 0 /\ grid = Period /\ alarm = Period /\ pending = FALSE
    /\ masked = FALSE /\ sleeping = FALSE /\ handler = "none"
    /\ idle = "run" /\ asked = 0 /\ before = 0 /\ slept = 0
    /\ ticks = 0 /\ wakeAt = Delay

Pass ==
    /\ now < MaxTime /\ now' = now + 1
    /\ IF alarm # None /\ alarm <= now' THEN alarm' = None /\ pending' = TRUE
       ELSE UNCHANGED <<alarm, pending>>
    /\ UNCHANGED <<grid, core, task, kernel>>

Max2(a, b) == IF a > b THEN a ELSE b

\* arm_next_tick: the target is the grid's point, or at once if that is past.
ArmAt(point) == alarm' = Max2(point, now + 1) /\ pending' = FALSE

Advance(n) == grid' = (grid + n * Period) % Wrap

-----------------------------------------------------------------------------
(* Interrupts.                                                             *)

Open == ~masked /\ handler = "none"

\* Mutant: the handler does not look at the flag.
Suppressed_Not == FALSE
Suppressed == sleeping

\* The alarm during a suppressed sleep: acknowledged, and waiti is over.
AlarmInSleep ==
    /\ Open /\ pending /\ Suppressed
    /\ pending' = FALSE
    /\ idle' = "awake"
    /\ UNCHANGED <<now, alarm, grid, core, asked, before, slept, kernel>>

\* Any other interrupt ends waiti too: the switch declines while SLEEPING.
WokenEarly ==
    /\ Open /\ idle = "asleep" /\ idle' = "awake"
    /\ UNCHANGED <<clock, core, asked, before, slept, kernel>>

\* The tick: the grid moves and the next alarm is armed from it.
TickInterrupt ==
    /\ Open /\ pending /\ ~Suppressed
    /\ Advance(1) /\ ArmAt(grid')
    /\ handler' = "increment"
    /\ UNCHANGED <<now, masked, sleeping, task, kernel>>

IncrementTick ==
    /\ handler = "increment" /\ handler' = "none"
    /\ ticks' = ticks + 1
    /\ UNCHANGED <<clock, masked, sleeping, task, wakeAt>>

-----------------------------------------------------------------------------
(* Tasks.                                                                  *)

Runs(at) == handler = "none" /\ idle = at

\* The worker, woken, has done its work and delays again.
Work ==
    /\ Runs("run") /\ ticks >= wakeAt
    /\ wakeAt' = ticks + Delay
    /\ UNCHANGED <<clock, core, task, ticks>>

\* idle_suppress_ticks: nothing is ready, and it pays to sleep.
Suppress ==
    /\ Runs("run") /\ wakeAt >= ticks + 2
    /\ masked' = TRUE
    /\ asked' = wakeAt - ticks
    /\ idle' = "ask"
    /\ UNCHANGED <<clock, sleeping, handler, before, slept, kernel>>

\* The grid's point to sleep to.
Boundary == grid + (asked - 1) * Period

\* suppress_ticks_and_sleep declines: that point is past.
Decline ==
    /\ Runs("ask") /\ Boundary <= now
    /\ slept' = 0 /\ idle' = "wind"
    /\ UNCHANGED <<clock, core, asked, before, kernel>>

Window ==
    /\ Runs("ask") /\ Boundary > now
    /\ before' = now
    /\ idle' = "program"
    /\ UNCHANGED <<clock, core, asked, slept, kernel>>

\* The timer refuses the window: the tick goes back on the grid.
Refused ==
    /\ Runs("program") /\ Boundary - before > MaxWindow
    /\ ArmAt(grid)
    /\ slept' = 0 /\ idle' = "wind"
    /\ UNCHANGED <<now, grid, core, asked, before, kernel>>

\* The alarm is set to the window, and waiti drops the mask.
Sleep ==
    /\ Runs("program") /\ Boundary - before <= MaxWindow
    /\ alarm' = now + (Boundary - before) /\ pending' = FALSE
    /\ sleeping' = TRUE /\ masked' = FALSE
    /\ idle' = "asleep"
    /\ UNCHANGED <<now, grid, handler, asked, before, slept, kernel>>

\* Mutant: what follows waiti runs with the interrupts open.
MaskAfterWait_Not == FALSE
MaskAfterWait == TRUE

Remask ==
    /\ Runs("awake") /\ idle' = "account"
    /\ masked' = MaskAfterWait /\ sleeping' = FALSE
    /\ UNCHANGED <<clock, handler, asked, before, slept, kernel>>

\* Mutant: all the points that passed are reported.
Reported_All(points) == points
Reported(points) == IF points < asked THEN points ELSE asked

\* Mutant: the point ahead is counted with those behind.
PointsPassed_Ahead == IF now < grid THEN 1 ELSE (now - grid) \div Period + 2
PointsPassed == IF now < grid THEN 0 ELSE (now - grid) \div Period + 1

\* The points of the grid that went by are reported, and the grid moves by
\* exactly those.
Account ==
    /\ Runs("account") /\ idle' = "wind"
    /\ slept' = Reported(PointsPassed)
    /\ Advance(slept') /\ ArmAt(grid')
    /\ UNCHANGED <<now, core, asked, before, kernel>>

\* step_tick and resume_all, and with_kernel ends.
Wind ==
    /\ Runs("wind") /\ idle' = "run"
    /\ ticks' = ticks + slept
    /\ masked' = FALSE
    /\ slept' = 0 /\ asked' = 0 /\ before' = 0
    /\ UNCHANGED <<clock, sleeping, handler, wakeAt>>

Next ==
    \/ Pass
    \/ AlarmInSleep \/ WokenEarly \/ TickInterrupt \/ IncrementTick
    \/ Work \/ Suppress \/ Decline \/ Window \/ Refused \/ Sleep \/ Remask \/ Account \/ Wind

Spec == Init /\ [][Next]_vars

-----------------------------------------------------------------------------

\* The kernel is entered by one at a time: the tick's handler never counts
\* while the idle task is inside the kernel (waiti leaves the mask open).
KernelHeldByOne == handler = "increment" => idle = "run"

\* Ticks that left the grid and did not reach the kernel yet.
OnTheWay == (IF handler = "increment" THEN 1 ELSE 0) + (IF idle = "wind" THEN slept ELSE 0)

\* The kernel's clock and the grid agree: the next point is the next tick,
\* however the ticks before it were delivered (NEXT_TICK_US).
GridKept == grid = (ticks + OnTheWay + 1) * Period

\* The kernel's clock is never ahead of the time, and a sleep never winds it
\* past the wake it slept for.
ClockNotAhead ==
    /\ (ticks + OnTheWay) * Period <= now
    /\ idle = "wind" => ticks + slept <= wakeAt

\* The next tick is on its way whenever the suppression is not under way: the
\* alarm is set to the grid's point, or past due, or has fired.
TickIsArmed ==
    idle \in {"run", "ask", "wind"} =>
        pending \/ (alarm # None /\ alarm <= Max2(grid, now + 1))

=============================================================================

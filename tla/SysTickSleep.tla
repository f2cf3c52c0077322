---------------------------- MODULE SysTickSleep ----------------------------
(***************************************************************************)
(* Tickless idle on a down-counter (crates/rusty_rtos_port-cortex-m, driven*)
(* by firmware/mps2-an385-qemu-tickless).  The idle task, with PRIMASK     *)
(* held, stops SysTick, programs one long window that ends on a tick       *)
(* boundary, waits in wfi with the exception only pending, counts the whole*)
(* ticks and restarts the tick.  The counter moves any number of cycles    *)
(* between two steps, two adjacent register accesses included.  The kernel *)
(* is external: its ticks and the worker's next wake.                      *)
(***************************************************************************)
EXTENDS Naturals

CONSTANTS
    Reload,         \* TICK_RELOAD, at least 1
    MaxReload,      \* SYST_MAX_RELOAD, more than Reload
    Delay,          \* DELAY_TICKS of the worker
    MaxTime         \* bound: when the model's clock stops

PerTick == Reload + 1

VARIABLES
    now,                            \* cycles since the tick was started
    enabled, rvr, cvr, countflag,   \* SysTick
    pendst,                         \* its exception is pending
    torn,                           \* history: a tick fell between CSR and its stop
    idle, asked, seen, left, slept, \* the idle task: where, and its locals
    ticks, wakeAt                   \* kernel

counter == <<enabled, rvr, cvr, countflag, pendst>>
task == <<idle, asked, seen, left, slept>>
kernel == <<ticks, wakeAt>>
vars == <<now, counter, torn, task, kernel>>

\* start_tick.
Init ==
    /\ now = 0 /\ torn = FALSE
    /\ enabled = TRUE /\ rvr = Reload /\ cvr = 0 /\ countflag = FALSE /\ pendst = FALSE
    /\ idle = "run" /\ asked = 0 /\ seen = FALSE /\ left = 0 /\ slept = 0
    /\ ticks = 0 /\ wakeAt = Delay

Min2(a, b) == IF a < b THEN a ELSE b

\* One cycle of the counter: it reloads at 0, and expires on the way to it.
Cycle ==
    /\ now < MaxTime /\ now' = now + 1
    /\ IF ~enabled THEN UNCHANGED counter
       ELSE /\ cvr' = IF cvr = 0 THEN rvr ELSE cvr - 1
            /\ countflag' = (countflag \/ cvr = 1)
            /\ pendst' = (pendst \/ cvr = 1)
            /\ UNCHANGED <<enabled, rvr>>
    /\ UNCHANGED <<torn, task, kernel>>

-----------------------------------------------------------------------------

Masked == idle # "run"

\* A task executes with the mask down only when no exception is pending.
Undisturbed == ~Masked /\ ~pendst

\* The exception, and increment_tick.  COUNTFLAG stays: nobody reads CSR.
SysTick ==
    /\ ~Masked /\ pendst
    /\ pendst' = FALSE
    /\ ticks' = ticks + 1
    /\ UNCHANGED <<now, enabled, rvr, cvr, countflag, torn, task, wakeAt>>

Work ==
    /\ Undisturbed /\ ticks >= wakeAt
    /\ wakeAt' = ticks + Delay
    /\ UNCHANGED <<now, counter, torn, task, ticks>>

\* Whatever the kernel expects, one load of the register buys so many ticks.
Want == Min2(asked, MaxReload \div PerTick)

\* idle_suppress_ticks: nothing is ready, and it pays to sleep.
Suppress ==
    /\ Undisturbed /\ wakeAt >= ticks + 2
    /\ asked' = wakeAt - ticks
    /\ idle' = "stop"
    /\ UNCHANGED <<now, counter, torn, seen, left, slept, kernel>>

\* Reading CSR clears COUNTFLAG.
ReadControl(at, to) ==
    /\ idle = at /\ idle' = to
    /\ seen' = countflag /\ countflag' = FALSE
    /\ UNCHANGED <<now, enabled, rvr, cvr, pendst, torn, asked, left, slept, kernel>>

\* The counter has expired since CSR was read and has been reloaded since: the
\* flag was read too early, and the count does not show it.
Torn == ~seen /\ countflag /\ cvr # 0

\* Mutant: an owed tick is slept through.
MustDecline_Boundary(l) == l = 0
MustDecline(l) == seen \/ l = 0

\* The counter is stopped and what is left of the tick is read.
Stop ==
    /\ idle = "stopping"
    /\ enabled' = FALSE /\ left' = cvr
    /\ idle' = IF MustDecline(cvr) THEN "decline" ELSE "program"
    /\ torn' = Torn
    /\ UNCHANGED <<now, rvr, cvr, countflag, pendst, asked, seen, slept, kernel>>

\* RVR, then CVR, whose write clears it and COUNTFLAG, then CSR.
Restart(r) ==
    /\ rvr' = r /\ cvr' = 0 /\ countflag' = FALSE /\ enabled' = TRUE

\* A tick is owed, or there is nothing left to measure from.
Decline ==
    /\ idle = "decline" /\ Restart(Reload)
    /\ slept' = 0 /\ idle' = "wind"
    /\ UNCHANGED <<now, pendst, torn, asked, seen, left, kernel>>

\* What is left of this tick and Want - 1 whole ones.
Total == Min2(left + (Want - 1) * PerTick, MaxReload)

Program ==
    /\ idle = "program" /\ Restart(Total - 1)
    /\ idle' = "asleep"
    /\ UNCHANGED <<now, pendst, torn, asked, seen, left, slept, kernel>>

\* wfi ends for the window, or for any other interrupt; the barriers before it
\* take a cycle, in which the counter is loaded.
Woken ==
    /\ idle = "asleep" /\ (cvr # 0 \/ countflag \/ rvr = 0)
    /\ idle' = "wake"
    /\ UNCHANGED <<now, counter, torn, asked, seen, left, slept, kernel>>

\* Mutant: the tick the wake fell into is reported too.
WholeTicks_Up(elapsed) == (elapsed + Reload) \div PerTick + 1
WholeTicks(elapsed) == IF elapsed < left THEN 0 ELSE (elapsed - left) \div PerTick + 1

StopAgain ==
    /\ idle = "stoppingAgain" /\ idle' = "clear"
    /\ enabled' = FALSE
    /\ slept' = IF seen THEN Want ELSE WholeTicks(Total - cvr)
    /\ torn' = (torn \/ Torn)
    /\ UNCHANGED <<now, rvr, cvr, countflag, pendst, asked, seen, left, kernel>>

\* Mutant: the suppressed tick is left pending.
PendingAfter_Kept == pendst
PendingAfter == FALSE

\* PENDSTCLR, and the tick again.
ClearAndRestart ==
    /\ idle = "clear" /\ Restart(Reload)
    /\ pendst' = PendingAfter
    /\ idle' = "wind"
    /\ UNCHANGED <<now, torn, asked, seen, left, slept, kernel>>

\* step_tick, and the mask is dropped.
Wind ==
    /\ idle = "wind" /\ idle' = "run"
    /\ ticks' = ticks + slept
    /\ asked' = 0 /\ seen' = FALSE /\ left' = 0 /\ slept' = 0 /\ torn' = FALSE
    /\ UNCHANGED <<now, counter, wakeAt>>

Next ==
    \/ Cycle \/ SysTick \/ Work
    \/ Suppress \/ ReadControl("stop", "stopping") \/ Stop \/ Decline
    \/ Program \/ Woken \/ ReadControl("wake", "stoppingAgain")
    \/ StopAgain \/ ClearAndRestart \/ Wind

Spec == Init /\ [][Next]_vars

-----------------------------------------------------------------------------

\* The kernel's clock is never ahead of the counter's, nor wound past the wake
\* it slept for: a part of a tick is not reported and no tick is counted twice
\* (suppress_ticks_and_sleep, and the exception it leaves pending).
ClockNotAhead ==
    /\ (ticks + slept + (IF pendst /\ idle \in {"run", "wind"} THEN 1 ELSE 0)) * PerTick <= now
    /\ ticks + slept <= wakeAt \/ ~Masked

\* No tick is dropped: the window is programmed only when none is pending, and
\* the pending exception that PENDSTCLR clears stands for reported ticks
\* ("Sleeping through an owed tick would lose it").  The code does not keep that:
\* SysTickSleep_torn.cfg.
NoTickDropped ==
    /\ idle = "program" => ~pendst
    /\ idle = "clear" /\ pendst => slept = Want

\* What it keeps: a tick is dropped only if the counter expires after the read
\* of CSR and is reloaded before the write that stops it, in one of the two
\* stops of suppress_ticks_and_sleep; an expiry that the flag or the count shows
\* is declined or reported.
DroppedOnlyWhenTorn == torn \/ NoTickDropped

\* The window ends by itself: the counter is never programmed with 0.
WindowEnds == rvr > 0

=============================================================================

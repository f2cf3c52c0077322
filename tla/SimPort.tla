------------------------------ MODULE SimPort -------------------------------
(***************************************************************************)
(* The deterministic simulator port (crates/rusty_rtos_port-core/src/      *)
(* sim.rs).  Its clock is the count of outermost critical-section exits:   *)
(* every EXITS_PER_TICK of them raises a tick.  The simulator has no       *)
(* stacks, so when the kernel switches away from a task inside a call, the *)
(* rest of that call (its tail) runs at once; its exits are tallied        *)
(* instead of counted, and charged when the task next runs.                *)
(*                                                                         *)
(* The kernel is external: it takes a raised tick before the task goes on, *)
(* runs its tick entry between set_in_tick_entry calls, brackets a tail by *)
(* begin_unwind and end_unwind, keeps the tally per task and replays it,   *)
(* one empty section per exit owed, when the task is switched in.          *)
(***************************************************************************)
EXTENDS Integers, FiniteSetsExt

CONSTANTS
    Task,            \* the tasks
    Idle,            \* the one whose hook raises ticks
    EXITS_PER_TICK,  \* 16 in the source
    MaxNesting,      \* how deep a frame nests its sections
    MaxExits         \* bound on the exits of a behaviour

ASSUME SimConstants ==
    /\ Idle \in Task /\ IsFiniteSet(Task)
    /\ EXITS_PER_TICK \in Nat \ {0}
    /\ MaxNesting \in Nat \ {0}
    /\ MaxExits \in Nat

VARIABLES
    nesting, exits, ticks, pending_tick, yield_pending, flags, unwound,  \* the port
    ctx, running, owed,      \* the kernel: what executes, which task, tallies
    open, made, hooks        \* history: sections the frame has open, exits it
                             \* has made per task, ticks the idle hook raised

portVars    == <<nesting, exits, ticks, pending_tick, yield_pending, flags, unwound>>
kernelVars  == <<ctx, running, owed>>
historyVars == <<open, made, hooks>>
vars == <<portVars, kernelVars, historyVars>>

Flag == {"COUNTING", "IN_ISR", "UNWINDING"}
COUNTS  == {"COUNTING"}
TALLIES == {"COUNTING", "UNWINDING"}

\* "main": before the scheduler; "task"; "tail": a switched-out frame runs on;
\* "tick": the kernel's tick entry
Ctx == {"main", "task", "tail", "tick"}

Init ==
    /\ nesting = 0 /\ exits = 0 /\ ticks = 0 /\ unwound = 0
    /\ pending_tick = FALSE /\ yield_pending = FALSE /\ flags = {}
    /\ ctx = "main" /\ running = Idle
    /\ owed = [t \in Task |-> 0]
    /\ open = 0 /\ hooks = 0
    /\ made = [t \in Task |-> 0]

-----------------------------------------------------------------------------
(* The port's operations.                                                  *)

enter_critical == nesting' = nesting + 1

\* Mutant: the tick is raised by the exit before the last.
exit_critical_Early ==
    LET n == IF nesting > 1 THEN nesting - 1 ELSE 0 IN
    /\ nesting' = n
    /\ exits' = IF n = 0 /\ flags = COUNTS THEN exits + 1 ELSE exits
    /\ pending_tick' = (pending_tick \/ (exits' # exits /\ exits % EXITS_PER_TICK = 0))
    /\ unwound' = IF n = 0 /\ flags = TALLIES THEN unwound + 1 ELSE unwound

\* Mutant: COUNTING is tested as one bit of the word.
exit_critical_OneBit ==
    LET n == IF nesting > 1 THEN nesting - 1 ELSE 0 IN
    /\ nesting' = n
    /\ exits' = IF n = 0 /\ "COUNTING" \in flags THEN exits + 1 ELSE exits
    /\ pending_tick' = (pending_tick \/ (exits' # exits /\ exits' % EXITS_PER_TICK = 0))
    /\ unwound' = IF n = 0 /\ flags = TALLIES THEN unwound + 1 ELSE unwound

\* The exit that brings the nesting to zero is sim time on a task, a tally in
\* a tail, and nothing in the tick entry or before the scheduler runs.
exit_critical ==
    LET n == IF nesting > 1 THEN nesting - 1 ELSE 0 IN
    /\ nesting' = n
    /\ exits' = IF n = 0 /\ flags = COUNTS THEN exits + 1 ELSE exits
    /\ pending_tick' = (pending_tick \/ (exits' # exits /\ exits' % EXITS_PER_TICK = 0))
    /\ unwound' = IF n = 0 /\ flags = TALLIES THEN unwound + 1 ELSE unwound

begin_unwind ==
    /\ flags' = flags \cup {"UNWINDING"}
    /\ unwound' = 0

\* Mutant: the sections the frame left open are not closed.
end_unwind_KeepsNesting ==
    /\ flags' = flags \ {"UNWINDING"}
    /\ nesting' = nesting
    /\ unwound' = 0

\* Mutant: one section is closed, whether there is one or not.
end_unwind_OneLevel ==
    /\ flags' = flags \ {"UNWINDING"}
    /\ nesting' = nesting - 1
    /\ unwound' = 0

end_unwind ==
    /\ flags' = flags \ {"UNWINDING"}
    /\ nesting' = 0
    /\ unwound' = 0

-----------------------------------------------------------------------------
(* A frame: the running task's own code, or its tail after a switch.       *)

\* The kernel has nothing to do first: no tick to take, no tally to replay.
TaskMayRun == ctx = "task" => ~pending_tick /\ owed[running] = 0

InFrame == ctx \in {"main", "task", "tail"} /\ TaskMayRun

FrameEnter ==
    /\ InFrame
    /\ open < MaxNesting
    /\ enter_critical
    /\ open' = open + 1
    /\ UNCHANGED <<exits, ticks, pending_tick, yield_pending, flags, unwound,
                   kernelVars, made, hooks>>

Total == MapThenSumSet(LAMBDA t : made[t], Task)

FrameExit ==
    /\ InFrame
    /\ open > 0 /\ Total < MaxExits
    /\ exit_critical
    /\ open' = open - 1
    /\ made' = IF open = 1 /\ ctx # "main"
                 THEN [made EXCEPT ![running] = @ + 1] ELSE made
    /\ UNCHANGED <<ticks, yield_pending, flags, kernelVars, hooks>>

\* scheduler_started, when the main thread has created the tasks.
SchedulerStarted ==
    /\ ctx = "main" /\ open = 0
    /\ flags' = flags \cup {"COUNTING"}
    /\ ctx' = "task"
    /\ UNCHANGED <<nesting, exits, ticks, pending_tick, yield_pending, unwound,
                   running, owed, historyVars>>

\* yield_now: a blocking call, with whatever sections it has open.
YieldNow ==
    /\ ctx = "task" /\ TaskMayRun
    /\ yield_pending' = TRUE
    /\ UNCHANGED <<nesting, exits, ticks, pending_tick, flags, unwound,
                   kernelVars, historyVars>>

\* raise_tick from the idle hook.
RaiseTick ==
    /\ ctx = "task" /\ TaskMayRun
    /\ running = Idle /\ open = 0
    /\ hooks < MaxExits
    /\ pending_tick' = TRUE
    /\ hooks' = hooks + 1
    /\ UNCHANGED <<nesting, exits, ticks, yield_pending, flags, unwound,
                   kernelVars, open, made>>

-----------------------------------------------------------------------------
(* The kernel.                                                             *)

\* take_tick, count_tick and the way into the tick entry, where a task's
\* outermost section ends or the idle hook returns.
TakeTick ==
    /\ ctx = "task" /\ pending_tick /\ open = 0
    /\ pending_tick' = FALSE
    /\ ticks' = ticks + 1
    /\ flags' = flags \cup {"IN_ISR"}
    /\ ctx' = "tick"
    /\ UNCHANGED <<nesting, exits, yield_pending, unwound, running, owed,
                   historyVars>>

\* The tick entry's own sections, and the FromISR mask, which is a section too.
TickSection ==
    /\ ctx = "tick"
    /\ \/ /\ nesting < MaxNesting /\ enter_critical
          /\ UNCHANGED <<exits, pending_tick, unwound>>
       \/ nesting > 0 /\ exit_critical
    /\ UNCHANGED <<ticks, yield_pending, flags, kernelVars, historyVars>>

\* yield_from_isr, when the tick woke something, and the way out.
TickReturn(woken) ==
    /\ ctx = "tick" /\ nesting = 0
    /\ yield_pending' = (yield_pending \/ woken)
    /\ flags' = flags \ {"IN_ISR"}
    /\ ctx' = "task"
    /\ UNCHANGED <<nesting, exits, ticks, pending_tick, unwound, running, owed,
                   historyVars>>

\* take_yield, and the switch: what is left of the frame becomes a tail.
SwitchOut ==
    /\ ctx = "task" /\ TaskMayRun
    /\ yield_pending
    /\ yield_pending' = FALSE
    /\ begin_unwind
    /\ ctx' = "tail"
    /\ UNCHANGED <<nesting, exits, ticks, pending_tick, running, owed, historyVars>>

\* The tail has returned, possibly with sections open: its tally is the
\* task's debt, and the task named next runs.
SwitchIn(t) ==
    /\ ctx = "tail"
    /\ end_unwind
    /\ owed' = [owed EXCEPT ![running] = @ + unwound]
    /\ running' = t
    /\ ctx' = "task"
    /\ open' = 0
    /\ UNCHANGED <<exits, ticks, pending_tick, yield_pending, made, hooks>>

\* The kernel replays one exit the running task owes: an empty section.
Replay ==
    /\ ctx = "task" /\ ~pending_tick
    /\ owed[running] > 0
    /\ exit_critical
    /\ owed' = [owed EXCEPT ![running] = @ - 1]
    /\ UNCHANGED <<ticks, yield_pending, flags, ctx, running, historyVars>>

Next ==
    \/ FrameEnter \/ FrameExit
    \/ SchedulerStarted \/ YieldNow \/ RaiseTick
    \/ TakeTick \/ TickSection \/ \E b \in BOOLEAN : TickReturn(b)
    \/ SwitchOut \/ (\E t \in Task : SwitchIn(t)) \/ Replay

Spec == Init /\ [][Next]_vars

-----------------------------------------------------------------------------
(* Properties.                                                             *)

\* Every variable keeps its type.
TypeOK ==
    /\ nesting \in Nat /\ exits \in Nat /\ ticks \in Nat /\ unwound \in Nat
    /\ pending_tick \in BOOLEAN /\ yield_pending \in BOOLEAN
    /\ flags \subseteq Flag
    /\ ctx \in Ctx /\ running \in Task /\ owed \in [Task -> Nat]
    /\ open \in Nat /\ made \in [Task -> Nat] /\ hooks \in Nat

\* Sim time is conserved across switches: an outermost exit that a task's code
\* made is on the clock, or in the tally of the tail that runs, or owed by a
\* task that has not run since.  None is lost to a frame that was abandoned
\* with sections open, and none is counted twice.
SimTimeConserved ==
    Total = exits + unwound + MapThenSumSet(LAMBDA t : owed[t], Task)

\* Rules 2 and 3 of the contract: each EXITS_PER_TICK-th exit and each idle
\* hook delivers exactly one tick; two that fall together do not merge.
TicksDelivered ==
    ticks + (IF pending_tick THEN 1 ELSE 0) = (exits \div EXITS_PER_TICK) + hooks

\* Time stands still, and no tick is raised, before the scheduler runs, in a
\* tail (the frame is a frozen stack on a real port) and in the tick entry.
TimeIsTaskTime ==
    [][ctx # "task" => exits' = exits /\ (pending_tick' => pending_tick)]_vars

=============================================================================

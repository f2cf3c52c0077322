---------------------------- MODULE CortexSwitch ----------------------------
(***************************************************************************)
(* The Cortex-M port under the cell mps2-an385-qemu-preempt: PendSV moves  *)
(* the process stack from one task to another, SysTick counts, and every   *)
(* call of the kernel runs behind two masks, the cell's interrupt::free    *)
(* and the port's critical section nested in it.                           *)
(*                                                                         *)
(* SysTick and PendSV share the lowest priority, so neither interrupts the *)
(* other: a handler is one step.  A task is interrupted between any two of *)
(* its steps at which PRIMASK is clear.  Ticks are not counted: a delay or *)
(* a timed wait may end at any tick.  The kernel is modelled from how this *)
(* crate uses it.                                                          *)
(***************************************************************************)
EXTENDS Integers

Tasks == {"tmr", "hi", "lo", "idle"}
None == "none"
Semaphores == {"full", "free"}
Lines == {"take", "pend", "give", "look", "delay", "spin"}
Phases == {"out", "masked", "critical", "closing"}

\* The registers: whose code runs, at which line, how deep in a kernel call,
\* and PRIMASK as interrupt::free found it (a local of the call).
Registers == [task : Tasks \cup {"main"}, line : Lines \cup {"boot"},
              phase : Phases, was : BOOLEAN]

Prio == [tmr |-> 3, hi |-> 2, lo |-> 1, idle |-> 0]
Top(S) == CHOOSE t \in S : \A u \in S : Prio[u] <= Prio[t]

VARIABLES
    primask,  \* interrupts are masked
    nesting,  \* CortexMPort.nesting
    saved,    \* CortexMPort.saved_primask
    pend,     \* a PendSV is pending
    at,       \* the registers
    psp,      \* the stack the process stack pointer is in, or None
    slot,     \* the task whose word CURRENT_SP_SLOT names, or None
    sp,       \* SLOTS_SP: the stack each task's saved pointer is in
    frame,    \* the registers saved on each stack
    current, ready, waiting, sema   \* the kernel

port == <<primask, nesting, saved>>
stacks == <<psp, slot, sp, frame>>
kernel == <<current, ready, waiting, sema>>
vars == <<port, pend, at, stacks, kernel>>

TypeOK ==
    /\ primask \in BOOLEAN /\ saved \in BOOLEAN /\ pend \in BOOLEAN
    /\ nesting \in 0..1
    /\ at \in Registers
    /\ psp \in Tasks \cup {None} /\ slot \in Tasks \cup {None}
    /\ sp \in [Tasks -> Tasks \cup {None}]
    /\ frame \in [Tasks -> Registers]
    /\ current \in Tasks /\ ready \in SUBSET Tasks
    /\ waiting \in [Tasks -> Semaphores \cup {"delay", None}]
    /\ sema \in [Semaphores -> 0..1]

-----------------------------------------------------------------------------
\* A task's body, as the line that follows each of its lines.
Entry == [tmr |-> "delay", hi |-> "take", lo |-> "give", idle |-> "spin"]
Consumer == [take |-> "pend", pend |-> "give", give |-> "look", look |-> "take"]
Producer == [give |-> "look", look |-> "take", take |-> "pend", pend |-> "give"]
Daemon == [delay |-> "pend", pend |-> "delay"]
After(t, l) ==
    CASE t = "hi" -> Consumer[l]
      [] t = "lo" -> Producer[l]
      [] t = "tmr" -> Daemon[l]
      [] OTHER -> "spin"
SemaphoreOf(t, l) ==
    IF (t = "hi") <=> (l = "take") THEN "full" ELSE "free"

\* init_stack: the frame a task starts from.
Fresh(t) == [task |-> t, line |-> Entry[t], phase |-> "out", was |-> FALSE]
\* arm_task: every task the kernel created gets a stack and its slot.
Armed == [t \in Tasks |-> t]

\* main: tasks created and armed, CURRENT_SP_SLOT pointed at the kernel's
\* first choice, the tick started; PRIMASK is clear, as the core resets it.
Init ==
    /\ primask = FALSE /\ nesting = 0 /\ saved = FALSE /\ pend = FALSE
    /\ at = [task |-> "main", line |-> "boot", phase |-> "out", was |-> FALSE]
    /\ psp = None /\ sp = Armed
    /\ frame = [t \in Tasks |-> Fresh(t)]
    /\ ready = Tasks /\ current = Top(Tasks) /\ slot = current
    /\ waiting = [t \in Tasks |-> None]
    /\ sema = [s \in Semaphores |-> 0]

\* start_first_task: PSP from the slot, PRIMASK cleared, into the frame.
StartFirst ==
    /\ at.task = "main"
    /\ psp' = sp[slot] /\ at' = frame[sp[slot]]
    /\ primask' = FALSE
    /\ UNCHANGED <<nesting, saved, pend, slot, sp, frame, kernel>>

-----------------------------------------------------------------------------
\* Mutant: the kernel moves on at the yield (COMMITS_SWITCH = false).
AfterYield_Moves(c, r) == Top(r)

\* The kernel.  COMMITS_SWITCH: a yield only asks the port for a switch.
AfterYield(c, r) == c

Continue(r, w) ==
    /\ ready' = r /\ waiting' = w
    /\ UNCHANGED current

Yield(r, w) ==
    /\ ready' = r /\ waiting' = w
    /\ current' = AfterYield(current, r)
    /\ pend' = TRUE

\* Whoever the kernel takes for the caller is put to wait.
Park(why) ==
    /\ Yield(ready \ {current}, [waiting EXCEPT ![current] = why])
    /\ UNCHANGED sema

SemaphoreTake(s) ==
    \/ /\ sema[s] = 1
       /\ sema' = [sema EXCEPT ![s] = 0]
       /\ UNCHANGED <<current, ready, waiting, pend>>
    \/ sema[s] = 0 /\ Park(s)

SemaphoreGive(s) ==
    LET waiters == {t \in Tasks : waiting[t] = s}
        w == Top(waiters)
    IN \/ /\ sema[s] = 1
          /\ UNCHANGED <<kernel, pend>>
       \/ /\ sema[s] = 0
          /\ sema' = [sema EXCEPT ![s] = 1]
          /\ \/ waiters = {} /\ UNCHANGED <<current, ready, waiting, pend>>
             \/ /\ waiters # {}
                /\ LET r == ready \cup {w}
                       ww == [waiting EXCEPT ![w] = None]
                   IN IF Prio[w] > Prio[current]
                        THEN Yield(r, ww)
                        ELSE Continue(r, ww) /\ UNCHANGED pend

KernelCall ==
    CASE at.line = "take" -> SemaphoreTake(SemaphoreOf(at.task, "take"))
      [] at.line = "give" -> SemaphoreGive(SemaphoreOf(at.task, "give"))
      [] at.line = "delay" -> Park("delay")
      [] OTHER -> UNCHANGED <<kernel, pend>>

-----------------------------------------------------------------------------
\* A task's call of the kernel, a mask at a time.
InTask == at.task \in Tasks
Calls == {"take", "give", "delay", "look"}

\* with_kernel: interrupt::free reads PRIMASK, then masks.
WithKernel ==
    /\ InTask /\ at.phase = "out" /\ at.line \in Calls
    /\ at' = [at EXCEPT !.phase = "masked", !.was = primask]
    /\ primask' = TRUE
    /\ UNCHANGED <<nesting, saved, pend, stacks, kernel>>

\* CortexMPort::enter_critical: PRIMASK is kept for the outermost entry.
EnterCritical ==
    /\ InTask /\ at.phase = "masked"
    /\ nesting' = nesting + 1
    /\ saved' = IF nesting = 0 THEN primask ELSE saved
    /\ primask' = TRUE
    /\ at' = [at EXCEPT !.phase = "critical"]
    /\ UNCHANGED <<pend, stacks, kernel>>

\* Mutant: the outermost exit enables interrupts whatever they were.
Unmask_Enables(n, was, now) == IF n = 0 THEN FALSE ELSE now

\* exit_critical's last line: PRIMASK goes back to what it was, and no lower.
Unmask(n, was, now) == IF n = 0 /\ ~was THEN FALSE ELSE now

\* The kernel's work, ended by CortexMPort::exit_critical.
ExitCritical ==
    /\ InTask /\ at.phase = "critical"
    /\ KernelCall
    /\ nesting' = nesting - 1
    /\ primask' = Unmask(nesting - 1, saved, primask)
    /\ at' = [at EXCEPT !.phase = "closing"]
    /\ UNCHANGED <<saved, stacks>>

\* The end of interrupt::free, and the task goes on to its next line.
ReturnFromKernel ==
    /\ InTask /\ at.phase = "closing"
    /\ primask' = IF at.was THEN primask ELSE FALSE
    /\ at' = [at EXCEPT !.phase = "out", !.line = After(at.task, at.line),
                        !.was = FALSE]
    /\ UNCHANGED <<nesting, saved, pend, stacks, kernel>>

\* pend_switch, called by hand after a kernel call.
PendSwitch ==
    /\ InTask /\ at.phase = "out" /\ at.line = "pend"
    /\ pend' = TRUE
    /\ at' = [at EXCEPT !.line = After(at.task, at.line)]
    /\ UNCHANGED <<port, stacks, kernel>>

-----------------------------------------------------------------------------
\* Mutant: what the kernel says of the tick is dropped.
TickPends_Dropped(want) == pend

\* tick: a switch is pended when the kernel asks for one.
TickPends(want) == pend \/ want

\* SysTick: the kernel ends the waits that are due, without a mask, since no
\* task can be inside it.
SysTick ==
    /\ ~primask
    /\ \E due \in SUBSET {t \in Tasks : waiting[t] # None} :
         /\ ready' = ready \cup due
         /\ waiting' = [t \in Tasks |-> IF t \in due THEN None ELSE waiting[t]]
         /\ pend' = TickPends(\E t \in due : Prio[t] > Prio[current])
    /\ UNCHANGED <<port, at, stacks, current, sema>>

\* Mutant: the word written is the one the slot names after the choice.
Save_Late(words, s) == [words EXCEPT ![Top(ready)] = psp]

\* PendSV's first half: r4-r11 under the hardware's frame on the outgoing
\* task's stack, and the pointer to them into the word the slot names.
Save(words, s) == [words EXCEPT ![s] = psp]
HasOutgoing == slot # None /\ psp # None

\* pick_next: the kernel chooses and the slot names the choice.
Choice == Top(ready)

\* PendSV: save, choose, restore from the slot the choice left behind.
PendSV ==
    /\ pend /\ ~primask
    /\ pend' = FALSE
    /\ frame' = IF HasOutgoing THEN [frame EXCEPT ![psp] = at] ELSE frame
    /\ sp' = IF HasOutgoing THEN Save(sp, slot) ELSE sp
    /\ current' = Choice /\ slot' = Choice
    /\ \/ sp'[slot'] = None /\ UNCHANGED <<psp, at>>
       \/ sp'[slot'] # None /\ psp' = sp'[slot'] /\ at' = frame'[psp']
    /\ UNCHANGED <<port, ready, waiting, sema>>

Next ==
    \/ StartFirst \/ WithKernel \/ EnterCritical \/ ExitCritical
    \/ ReturnFromKernel \/ PendSwitch \/ SysTick \/ PendSV

Spec == Init /\ [][Next]_vars
-----------------------------------------------------------------------------
\* While a task is anywhere inside with_kernel, interrupts stay masked: no
\* handler meets the kernel half-changed, the critical section the kernel
\* itself enters and leaves in there notwithstanding (lib.rs:500-527).
KernelExclusive == at.phase # "out" => primask

\* Registers, stack pointer, saved-pointer slot and the kernel's current task
\* always name the same task: there is no window in which a call is made for
\* somebody else (the cell's WINDOW_OPENED, main.rs:163-171).
SwitchIsWhole ==
    InTask => /\ at.task = psp /\ psp = slot /\ slot = current

\* What a switched-out task will resume from is its own, at a point where it
\* holds neither mask.
FramesKept ==
    \A t \in Tasks : /\ sp[t] = t
                     /\ frame[t].task = t
                     /\ frame[t].phase = "out"

\* No PendSV is pending while main still runs: it would restore r4-r11 of a
\* task over main's own.
NoSwitchAtBoot == at.task = "main" => ~pend

\* With nothing masked and nothing pended, no ready task outranks the one
\* that runs.
MostUrgentRuns ==
    InTask /\ at.phase = "out" /\ ~pend =>
        current \in ready /\ current = Top(ready)
=============================================================================

------------------------------ MODULE MpuCell -------------------------------
(***************************************************************************)
(* The cell mps2-an505-qemu-mpu: two unprivileged tasks of equal priority, *)
(* each confined by MPU region 1 to its own memory and calling the kernel  *)
(* through svc, one of them reaching four times for what is not its own.   *)
(*                                                                         *)
(* PendSV sets the region and nPRIV of whoever the kernel chooses.  Stacks *)
(* are left to CortexSwitch; ticks are not counted, so a delay ends at any *)
(* tick, and the deadline the judge also ends on is left out.              *)
(***************************************************************************)
EXTENDS Naturals, Sequences

CONSTANT GoodLaps  \* GOOD_LAPS

Apps == {"good", "rogue"}
None == "none"
Threads == Apps \cup {"tmr", "judge", "idle"}
\* What an access can name: an application's TaskMem, and three privileged
\* words.
Words == Apps \cup {"canary", "kernel", "ctrl"}
Reach == <<"good", "canary", "kernel", "ctrl">>
RogueLaps == Len(Reach) + 1
Prio == [tmr |-> 3, good |-> 2, rogue |-> 2, judge |-> 1, idle |-> 0]
Tops(S) == {t \in S : \A u \in S : Prio[u] <= Prio[t]}
\* The code's fault kinds: the system control space refuses as a bus error.
Kind(w) == IF w = "ctrl" THEN "BusFault" ELSE "MemManage"

VARIABLES
    thread,   \* whose stack the process stack pointer is in
    line,     \* where each thread is
    primask, pend,
    region,   \* region 1: whose memory, or None
    npriv,    \* CONTROL.nPRIV
    mpu_on,   \* MPU_CTRL.ENABLE
    RUNNING_APP,
    current, ready,      \* the kernel; who is not ready is on the delayed list
    laps, done,          \* of each application's TaskMem
    lap,                 \* rogue's own count, a register
    landed,              \* the accesses that happened
    faults,              \* the fault log
    judged

boundary == <<region, npriv, mpu_on, RUNNING_APP>>
kernel == <<current, ready>>
memory == <<laps, done, lap, landed, faults, judged>>
vars == <<thread, line, primask, pend, boundary, kernel, memory>>

TypeOK ==
    /\ thread \in Threads /\ current \in Threads /\ ready \in SUBSET Threads
    /\ line \in [Threads -> {"run", "kernel", "svc", "pend", "look"}]
    /\ primask \in BOOLEAN /\ pend \in BOOLEAN
    /\ npriv \in BOOLEAN /\ mpu_on \in BOOLEAN
    /\ region \in Apps \cup {None} /\ RUNNING_APP \in Apps \cup {None}
    /\ laps \in [Apps -> 0..(GoodLaps + RogueLaps)] /\ done \in [Apps -> BOOLEAN]
    /\ lap \in 0..RogueLaps
    /\ landed \in SUBSET (Threads \X Words)
    /\ Len(faults) <= 8 /\ judged \in BOOLEAN

\* main: the MPU on, and the first task a privileged one, since no PendSV
\* has set a region for it.
Init ==
    /\ ready = Threads /\ current \in Tops(Threads) /\ thread = current
    /\ line = [t \in Threads |-> "run"]
    /\ primask = FALSE /\ pend = FALSE
    /\ region = None /\ npriv = FALSE /\ mpu_on = TRUE /\ RUNNING_APP = None
    /\ laps = [a \in Apps |-> 0] /\ done = [a \in Apps |-> FALSE] /\ lap = 0
    /\ landed = {} /\ faults = <<>> /\ judged = FALSE

Goto(l) == line' = [line EXCEPT ![thread] = l]
-----------------------------------------------------------------------------
\* What the MPU and the system control space let the running thread touch.
Permitted(w) ==
    \/ ~npriv
    \/ w # "ctrl" /\ (region = w \/ ~mpu_on)

\* refuse: logged under the application RUNNING_APP names, and stepped over.
Refuse(w) ==
    /\ faults' = Append(faults, <<Kind(w), w, RUNNING_APP>>)
    /\ UNCHANGED landed
Land(w) ==
    /\ landed' = landed \cup {<<thread, w>>}
    /\ UNCHANGED faults
Access(w) == IF Permitted(w) THEN Land(w) ELSE Refuse(w)
\* The lap count of a's memory, after a store of n to it.
Store(a, n) == IF Permitted(a) THEN [laps EXCEPT ![a] = n] ELSE laps

\* task_good: a lap in its own memory, up to GOOD_LAPS, and the done flag.
task_good ==
    /\ thread = "good" /\ line["good"] = "run"
    /\ Access("good")
    /\ IF laps["good"] >= GoodLaps
         THEN done' = [done EXCEPT !["good"] = TRUE] /\ UNCHANGED laps
         ELSE laps' = Store("good", laps["good"] + 1) /\ UNCHANGED done
    /\ Goto("svc")
    /\ UNCHANGED <<thread, primask, pend, boundary, kernel, lap, judged>>

\* task_rogue: its own memory first, then on some laps one bad access.
RogueCounts ==
    /\ thread = "rogue" /\ line["rogue"] = "run"
    /\ lap' = IF lap < RogueLaps THEN lap + 1 ELSE lap
    /\ Access("rogue")
    /\ laps' = Store("rogue", lap')
    /\ Goto("look")
    /\ UNCHANGED <<thread, primask, pend, boundary, kernel, done, judged>>

RogueReaches ==
    /\ thread = "rogue" /\ line["rogue"] = "look"
    /\ IF lap < RogueLaps
         THEN /\ Access(Reach[lap])
              /\ mpu_on' = (mpu_on /\ ~(Reach[lap] = "ctrl" /\ Permitted("ctrl")))
              /\ laps' = IF Reach[lap] = "good" THEN Store("good", GoodLaps + 1)
                                               ELSE laps
              /\ UNCHANGED done
         ELSE /\ done' = [done EXCEPT !["rogue"] = TRUE]
              /\ UNCHANGED <<mpu_on, laps, landed, faults>>
    /\ Goto("svc")
    /\ UNCHANGED <<thread, primask, pend, region, npriv, RUNNING_APP, kernel, lap,
                   judged>>

\* SVCall, SYS_DELAY: the kernel parks its current task, and a switch is
\* pended; the handler takes no mask.
SVCall ==
    /\ line[thread] = "svc"
    /\ ready' = ready \ {current} /\ pend' = TRUE
    /\ Goto("run")
    /\ UNCHANGED <<thread, primask, boundary, current, memory>>
-----------------------------------------------------------------------------
\* with_kernel of a privileged task: cpsid, which does nothing unprivileged.
with_kernel ==
    /\ thread \in {"tmr", "judge"} /\ line[thread] = "run"
    /\ primask' = (primask \/ ~npriv)
    /\ Goto("kernel")
    /\ UNCHANGED <<thread, pend, boundary, kernel, memory>>

\* The delay inside it, and cpsie.
Delay ==
    /\ line[thread] = "kernel"
    /\ ready' = ready \ {current} /\ pend' = TRUE
    /\ primask' = FALSE
    /\ Goto("pend")
    /\ UNCHANGED <<thread, boundary, current, memory>>

PendSwitch ==
    /\ line[thread] = "pend"
    /\ pend' = TRUE
    /\ Goto(IF thread = "judge" THEN "look" ELSE "run")
    /\ UNCHANGED <<thread, primask, boundary, kernel, memory>>

\* task_judge, back from its delay: done when both flags are up.
task_judge ==
    /\ thread = "judge" /\ line["judge"] = "look" /\ ~judged
    /\ judged' = (\A a \in Apps : done[a])
    /\ Goto(IF judged' THEN "look" ELSE "run")
    /\ UNCHANGED <<thread, primask, pend, boundary, kernel, laps, done, lap, landed,
                   faults>>

-----------------------------------------------------------------------------
\* SysTick: some delays end; a switch is wanted for a task that outranks the
\* current one, or shares its priority.  The daemon sleeps the run through.
SysTick ==
    /\ ~primask /\ ~judged
    /\ \E due \in SUBSET (Threads \ (ready \cup {"tmr"})) :
         /\ ready' = ready \cup due
         /\ pend' = (pend \/ \E t \in ready' \ {current} : Prio[t] >= Prio[current])
    /\ UNCHANGED <<thread, line, primask, boundary, current, memory>>

\* pick_next's region and privilege for the chosen task.
AppOf(t) == IF t \in Apps THEN t ELSE None

\* Mutant: the region is not reprogrammed between two applications.
Granted_Kept(t) == IF region = None \/ AppOf(t) = None THEN AppOf(t) ELSE region
Granted(t) == AppOf(t)

\* Mutant: nPRIV is set and never cleared.
Unprivileged_Sticky(t) == npriv \/ AppOf(t) # None
Unprivileged(t) == AppOf(t) # None

PendSV ==
    /\ pend /\ ~primask /\ ~judged
    /\ pend' = FALSE
    /\ \E t \in Tops(ready) :
         /\ current' = t /\ thread' = t
         /\ region' = Granted(t)
         /\ npriv' = Unprivileged(t)
         /\ RUNNING_APP' = AppOf(t)
    /\ UNCHANGED <<line, primask, mpu_on, ready, memory>>

Next ==
    \/ task_good \/ RogueCounts \/ RogueReaches \/ SVCall
    \/ with_kernel \/ Delay \/ PendSwitch \/ task_judge
    \/ SysTick \/ PendSV
Spec == Init /\ [][Next]_vars
-----------------------------------------------------------------------------
\* Every access that happened was an application's to its own memory: none
\* of rogue's four reaches landed, wherever the ticks fell (main.rs:17-24).
Confined == \A a \in landed : a[1] = a[2]

\* The refusals are rogue's, in the order it made them, each logged once and
\* under its name; at the end there are exactly four (main.rs:598-606).
RefusalsExact ==
    /\ \A i \in 1..Len(faults) : faults[i] = <<Kind(Reach[i]), Reach[i], "rogue">>
    /\ judged => Len(faults) = Len(Reach)

\* The boundary is the running thread's at every instruction it executes.
BoundaryFollows ==
    /\ current = thread
    /\ region = AppOf(thread) /\ RUNNING_APP = AppOf(thread)
    /\ npriv <=> thread \in Apps

\* Nobody else runs, and no handler, while a task is inside with_kernel: its
\* cpsid took effect, so the task was privileged.
KernelExclusive == \A t \in Threads : line[t] = "kernel" => thread = t /\ primask

\* Good ends with exactly its own count and the MPU is still on.
Judged == judged => laps["good"] = GoodLaps /\ laps["rogue"] = RogueLaps /\ mpu_on

Safe == Confined /\ RefusalsExact /\ BoundaryFollows /\ KernelExclusive /\ Judged
=============================================================================

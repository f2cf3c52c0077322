----------------------------- MODULE UnixFreeze -----------------------------
(***************************************************************************)
(* How the host port freezes a thread on Unix (backend in                  *)
(* crates/rusty_rtos_port-host/src/lib.rs): the tick thread marks the      *)
(* table entry ASKED and sends SIGUSR1; the handler, in the target, marks  *)
(* it PARKED and sleeps in sigsuspend until SIGUSR2.  One table entry is   *)
(* modelled, with the threads that occupy it one after another.  The       *)
(* caller is the port: it freezes the occupant, thaws it only when it is   *)
(* frozen, and releases the entry when the task is gone.                   *)
(***************************************************************************)
EXTENDS Naturals

CONSTANTS
    Thr,        \* the threads that may occupy the entry, in any order
    Nobody      \* tid = 0: the entry is free

ASSUME FreezeConstants == Nobody \notin Thr

VARIABLES
    tid, state,     \* the table entry
    usr1, usr2,     \* signals pending, per thread
    hpc,            \* where each thread is: its own code, or the handler
    ppc,            \* where the port is in freeze, thaw or release
    frozen,         \* the port's belief (slot.frozen)
    spawned,        \* the threads that have existed
    late            \* those a freeze has given up on (a history)

vars == <<tid, state, usr1, usr2, hpc, ppc, frozen, spawned, late>>

InHandler == {"scan", "swap", "loop", "suspend"}
Hpc == {"none", "app"} \cup InHandler
Ppc == {"idle", "asked", "looking", "thawing", "releasing"}

Init ==
    /\ tid = Nobody /\ state = "RUNNING"
    /\ usr1 = [t \in Thr |-> FALSE] /\ usr2 = [t \in Thr |-> FALSE]
    /\ hpc = [t \in Thr |-> "none"]
    /\ ppc = "idle" /\ frozen = FALSE
    /\ spawned = {} /\ late = {}

-----------------------------------------------------------------------------
(* The port's side.                                                        *)

\* thread_handle_of claims a free entry for a thread just spawned.
Register(t) ==
    /\ ppc = "idle" /\ tid = Nobody /\ t \notin spawned
    /\ tid' = t /\ state' = "RUNNING"
    /\ spawned' = spawned \cup {t}
    /\ hpc' = [hpc EXCEPT ![t] = "app"]
    /\ UNCHANGED <<usr1, usr2, ppc, frozen, late>>

\* freeze: claim the entry, or answer false if it is already asked or parked.
FreezeAsk ==
    /\ ppc = "idle" /\ tid # Nobody /\ ~frozen
    /\ state = "RUNNING"
    /\ state' = "ASKED" /\ ppc' = "asked"
    /\ UNCHANGED <<tid, usr1, usr2, hpc, frozen, spawned, late>>

FreezeKill ==
    /\ ppc = "asked"
    /\ usr1' = [usr1 EXCEPT ![tid] = TRUE]
    /\ ppc' = "looking"
    /\ UNCHANGED <<tid, state, usr2, hpc, frozen, spawned, late>>

\* pthread_kill refused: the state goes back and freeze answers false.
FreezeKillFails ==
    /\ ppc = "asked"
    /\ state' = "RUNNING" /\ ppc' = "idle"
    /\ UNCHANGED <<tid, usr1, usr2, hpc, frozen, spawned, late>>

\* Mutant: asking is taken for parking.
FreezeSeen_Asked ==
    /\ ppc = "looking"
    /\ frozen' = TRUE /\ ppc' = "idle"
    /\ UNCHANGED <<tid, state, usr1, usr2, hpc, spawned, late>>

\* One of the PARK_SPINS looks sees PARKED: freeze answers true.
FreezeSeen ==
    /\ ppc = "looking" /\ state = "PARKED"
    /\ frozen' = TRUE /\ ppc' = "idle"
    /\ UNCHANGED <<tid, state, usr1, usr2, hpc, spawned, late>>

\* The last look has failed: put the state back and answer false.
FreezeGivesUp ==
    /\ ppc = "looking"
    /\ state' = "RUNNING" /\ ppc' = "idle"
    /\ late' = late \cup {tid}
    /\ UNCHANGED <<tid, usr1, usr2, hpc, frozen, spawned>>

\* Mutant: the signal is sent and the state stays.
ThawSwap_NoState ==
    /\ ppc = "idle" /\ frozen
    /\ frozen' = FALSE
    /\ ppc' = IF state = "PARKED" THEN "thawing" ELSE "idle"
    /\ UNCHANGED <<tid, state, usr1, usr2, hpc, spawned, late>>

\* thaw: the state goes back first, the signal follows.
ThawSwap ==
    /\ ppc = "idle" /\ frozen
    /\ frozen' = FALSE
    /\ state' = "RUNNING"
    /\ ppc' = IF state = "PARKED" THEN "thawing" ELSE "idle"
    /\ UNCHANGED <<tid, usr1, usr2, hpc, spawned, late>>

ThawKill ==
    /\ ppc = "thawing"
    /\ usr2' = [usr2 EXCEPT ![tid] = TRUE]
    /\ ppc' = "idle"
    /\ UNCHANGED <<tid, state, usr1, hpc, frozen, spawned, late>>

\* release, when the task of the occupant is gone: state, then tid.  The slot
\* forgets its freeze before it (init_task).
ReleaseState ==
    /\ ppc = "idle" /\ tid # Nobody
    /\ state' = "RUNNING" /\ frozen' = FALSE /\ ppc' = "releasing"
    /\ UNCHANGED <<tid, usr1, usr2, hpc, spawned, late>>

ReleaseTid ==
    /\ ppc = "releasing"
    /\ tid' = Nobody /\ ppc' = "idle"
    /\ UNCHANGED <<state, usr1, usr2, hpc, frozen, spawned, late>>

-----------------------------------------------------------------------------
(* The target's side.                                                      *)

\* SIGUSR1 interrupts the thread's own code; SIGUSR2 is blocked from here on.
Suspended(t) ==
    /\ hpc[t] = "app" /\ usr1[t]
    /\ usr1' = [usr1 EXCEPT ![t] = FALSE]
    /\ hpc' = [hpc EXCEPT ![t] = "scan"]
    /\ UNCHANGED <<tid, state, usr2, ppc, frozen, spawned, late>>

\* entry_of(me): a thread with no entry returns at once.
HandlerScan(t) ==
    /\ hpc[t] = "scan"
    /\ hpc' = [hpc EXCEPT ![t] = IF tid = t THEN "swap" ELSE "app"]
    /\ UNCHANGED <<tid, state, usr1, usr2, ppc, frozen, spawned, late>>

\* The ASKED -> PARKED compare-exchange; refused, the handler returns.
HandlerSwap(t) ==
    /\ hpc[t] = "swap"
    /\ IF state = "ASKED"
         THEN state' = "PARKED" /\ hpc' = [hpc EXCEPT ![t] = "loop"]
         ELSE state' = state    /\ hpc' = [hpc EXCEPT ![t] = "app"]
    /\ UNCHANGED <<tid, usr1, usr2, ppc, frozen, spawned, late>>

HandlerLoop(t) ==
    /\ hpc[t] = "loop"
    /\ hpc' = [hpc EXCEPT ![t] = IF state = "PARKED" THEN "suspend" ELSE "app"]
    /\ UNCHANGED <<tid, state, usr1, usr2, ppc, frozen, spawned, late>>

\* sigsuspend unblocks SIGUSR2 atomically, and returns when it is delivered.
SigSuspend(t) ==
    /\ hpc[t] = "suspend" /\ usr2[t]
    /\ usr2' = [usr2 EXCEPT ![t] = FALSE]
    /\ hpc' = [hpc EXCEPT ![t] = "loop"]
    /\ UNCHANGED <<tid, state, usr1, ppc, frozen, spawned, late>>

\* Mutant: SIGUSR2 is not blocked while the handler is on its way to suspend.
OnResume_Unblocked(t) ==
    /\ hpc[t] \in {"app"} \cup InHandler /\ usr2[t]
    /\ usr2' = [usr2 EXCEPT ![t] = FALSE]
    /\ UNCHANGED <<tid, state, usr1, hpc, ppc, frozen, spawned, late>>

\* on_resume outside the handler does nothing.
OnResume(t) ==
    /\ hpc[t] = "app" /\ usr2[t]
    /\ usr2' = [usr2 EXCEPT ![t] = FALSE]
    /\ UNCHANGED <<tid, state, usr1, hpc, ppc, frozen, spawned, late>>

-----------------------------------------------------------------------------
PortStep ==
    \/ \E t \in Thr : Register(t)
    \/ FreezeAsk \/ FreezeKill \/ FreezeKillFails \/ FreezeSeen \/ FreezeGivesUp
    \/ ThawSwap \/ ThawKill \/ ReleaseState \/ ReleaseTid

HandlerStep(t) ==
    \/ Suspended(t) \/ HandlerScan(t) \/ HandlerSwap(t) \/ HandlerLoop(t)
    \/ SigSuspend(t) \/ OnResume(t)

Next == PortStep \/ \E t \in Thr : HandlerStep(t)

Spec == Init /\ [][Next]_vars

\* Signals are delivered, handlers run, and the port finishes what it began;
\* whether it freezes or thaws again is up to the schedule.
Fairness ==
    /\ \A t \in Thr : WF_vars(HandlerStep(t))
    /\ WF_vars(FreezeKill) /\ WF_vars(FreezeSeen) /\ WF_vars(FreezeSeen \/ FreezeGivesUp)
    /\ WF_vars(ThawKill)
    /\ WF_vars(ReleaseTid)

FairSpec == Spec /\ Fairness

-----------------------------------------------------------------------------
\* Every variable keeps its type.
TypeOK ==
    /\ tid \in Thr \cup {Nobody} /\ state \in {"RUNNING", "ASKED", "PARKED"}
    /\ usr1 \in [Thr -> BOOLEAN] /\ usr2 \in [Thr -> BOOLEAN]
    /\ hpc \in [Thr -> Hpc] /\ ppc \in Ppc
    /\ frozen \in BOOLEAN /\ spawned \subseteq Thr /\ late \subseteq Thr

Parked(t) == hpc[t] \in {"loop", "suspend"} /\ state = "PARKED"

\* Freezing is synchronous: once freeze has answered true the thread is in
\* its handler and executes nothing of its own until the port thaws or
\* releases it, whatever stray SIGUSR2 an earlier thaw left pending and
\* whatever an earlier freeze of it gave up.  The entry has no earlier
\* occupant that a freeze gave up on.
FrozenIsParked == frozen /\ late \subseteq {tid} => Parked(tid)

\* The same of every entry, whoever had it before: a late handler of the
\* earlier occupant parks the entry of the next (on_suspend).
FrozenIsAlwaysParked == frozen => Parked(tid)

\* The occupant is asleep in sigsuspend, and nobody holds it frozen.
Asleep == ppc = "idle" /\ ~frozen /\ tid # Nobody /\ hpc[tid] = "suspend"

\* While no freeze has given up, a thread that is not held frozen is not asleep
\* without a wake-up on its way: a thaw in the gap before sigsuspend, where
\* the handler has read the state and not yet unblocked SIGUSR2, is not lost.
ThawIsNotLost == Asleep /\ late = {} => usr2[tid]

\* freeze: "the handler, if it runs at all now, will find its `ASKED -> PARKED`
\* swap refused and return without parking".  So a freeze that gives up leaves
\* nobody parked either.
NobodyForgotten == Asleep => usr2[tid]

\* Every freeze is over some time: a thread in its handler leaves it, or is
\* one the port still holds frozen, or has lost its entry, or a freeze gave up.
ThawedReturns ==
    \A t \in Thr : (hpc[t] \in InHandler)
                     ~> (hpc[t] = "app" \/ (frozen /\ tid = t) \/ tid # t \/ late # {})

\* init_task: the outgoing thread "is parked inside the C function of a task
\* that no longer exists, and there is no safe way to bring it back to the
\* top".  So a thread frozen when its entry is released never leaves its handler.
ReleasedStaysParked ==
    [][\A t \in Thr : (hpc[t] \in {"loop", "suspend"} /\ (tid # t \/ ppc = "releasing"))
                        => hpc'[t] # "app"]_vars

=============================================================================

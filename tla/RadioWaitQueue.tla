--------------------------- MODULE RadioWaitQueue ---------------------------
(***************************************************************************)
(* A wait queue of the esp-radio port (adapter.rs): a counting semaphore   *)
(* and a number of waiters.  A step is one kernel call or one masked       *)
(* update; the interrupt's notify is one step.  The semaphore is the       *)
(* kernel's: a count, taken by any task that asks while it is positive.    *)
(***************************************************************************)
EXTENDS Naturals, FiniteSets

CONSTANTS
    Waiter,     \* the tasks that wait
    MaxCount,   \* the semaphore's maximum, 64 in the source
    Overlap     \* may a task begin to wait before all that a notify counted have
                \* their release?

\* What the modules that use this one assume of its constants.
WaitConstants ==
    /\ IsFiniteSet(Waiter)
    /\ MaxCount \in Nat \ {0}
    /\ Overlap \in BOOLEAN

VARIABLES
    waiters, sem,   \* WQ
    pc,             \* per task: not waiting, asking for the semaphore, leaving
    npc, left,      \* the notifying task: its remaining gives
    owed            \* history: who was waiting when a notify read `waiters`,
                    \* and has not returned since

vars == <<waiters, sem, pc, npc, left, owed>>

Init ==
    /\ waiters = 0 /\ sem = 0
    /\ pc = [w \in Waiter |-> "idle"]
    /\ npc = "idle" /\ left = 0
    /\ owed = {}

Goto(w, from, to) == pc[w] = from /\ pc' = [pc EXCEPT ![w] = to]

Asking == {w \in Waiter : pc[w] = "asking"}

\* How many of n gives the semaphore takes before it is at its maximum.
Given(n) == IF sem + n <= MaxCount THEN sem + n ELSE MaxCount

-----------------------------------------------------------------------------
(* wait_until.                                                             *)

Register(w) ==
    /\ Goto(w, "idle", "asking")
    /\ Overlap \/ (owed = {} /\ npc = "idle")
    /\ waiters' = waiters + 1
    /\ UNCHANGED <<sem, npc, left, owed>>

Take(w) ==
    /\ Goto(w, "asking", "leaving")
    /\ sem > 0
    /\ sem' = sem - 1
    /\ owed' = owed \ {w}
    /\ UNCHANGED <<waiters, npc, left>>

\* The deadline passes; whether the take succeeded is not looked at.
TimesOut(w) ==
    /\ Goto(w, "asking", "leaving")
    /\ sem = 0
    /\ owed' = owed \ {w}
    /\ UNCHANGED <<waiters, sem, npc, left>>

\* Mutant: a waiter that leaves behind others is not taken off the count.
Deregister_First(w) ==
    /\ Goto(w, "leaving", "idle")
    /\ waiters' = IF Asking = {} THEN waiters - 1 ELSE waiters
    /\ UNCHANGED <<sem, npc, left, owed>>

Deregister(w) ==
    /\ Goto(w, "leaving", "idle")
    /\ waiters' = IF waiters > 0 THEN waiters - 1 ELSE 0
    /\ UNCHANGED <<sem, npc, left, owed>>

-----------------------------------------------------------------------------
(* notify, by one task at a time (a second could only add gives), and      *)
(* notify_from_isr.                                                        *)

\* Mutant: one waiter is released, as a semaphore's signal would.
NotifyRead_One ==
    /\ npc = "idle"
    /\ left' = IF waiters > 0 THEN 1 ELSE 0
    /\ npc' = "giving"
    /\ owed' = owed \cup Asking
    /\ UNCHANGED <<waiters, sem, pc>>

NotifyRead ==
    /\ npc = "idle"
    /\ left' = waiters
    /\ npc' = "giving"
    /\ owed' = owed \cup Asking
    /\ UNCHANGED <<waiters, sem, pc>>

NotifyGive ==
    /\ npc = "giving" /\ left > 0
    /\ sem' = Given(1)
    /\ left' = left - 1
    /\ UNCHANGED <<waiters, pc, npc, owed>>

NotifyReturn ==
    /\ npc = "giving" /\ left = 0
    /\ npc' = "idle"
    /\ UNCHANGED <<waiters, sem, pc, left, owed>>

NotifyFromIsr ==
    /\ sem' = Given(waiters)
    /\ owed' = owed \cup Asking
    /\ UNCHANGED <<waiters, pc, npc, left>>

-----------------------------------------------------------------------------
TaskStep(w) == Register(w) \/ Take(w) \/ TimesOut(w) \/ Deregister(w)

Next ==
    \/ \E w \in Waiter : TaskStep(w)
    \/ NotifyRead \/ NotifyGive \/ NotifyReturn \/ NotifyFromIsr

Spec == Init /\ [][Next]_vars

\* The tasks run, and the kernel's semaphore serves its waiters in turn; that
\* a deadline passes, or that anybody notifies, is not assumed.
Fairness ==
    /\ \A w \in Waiter : SF_vars(Take(w)) /\ WF_vars(Deregister(w))
    /\ WF_vars(NotifyGive) /\ WF_vars(NotifyReturn)

FairSpec == Spec /\ Fairness

-----------------------------------------------------------------------------
\* Every variable keeps its type.
TypeOK ==
    /\ waiters \in 0..Cardinality(Waiter) /\ left \in 0..Cardinality(Waiter)
    /\ sem \in 0..MaxCount
    /\ pc \in [Waiter -> {"idle", "asking", "leaving"}]
    /\ npc \in {"idle", "giving"} /\ owed \subseteq Waiter

\* No registration is lost or left behind, by timeouts and takes in any order.
WaitersExact == waiters = Cardinality({w \in Waiter : pc[w] # "idle"})

\* "everyone waiting is released by one `notify`": once a notify has given all
\* it read, a task that was waiting then has returned, or finds the semaphore
\* positive.
EveryoneReleased == npc = "idle" /\ sem = 0 => owed = {}

\* A task that waits when a notify is made returns in the end.
NotifiedReturns == \A w \in Waiter : w \in owed ~> w \notin owed

=============================================================================

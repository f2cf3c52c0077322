---------------------------- MODULE RadioTimers -----------------------------
(***************************************************************************)
(* The timer table of the esp-radio port (timers.rs).  A step is one       *)
(* masked update of the table, one reading of the clock, or a point where  *)
(* service_timers holds no mask.  The tasks of the radio create, arm,      *)
(* disarm and delete timers between any two steps of the service, and a    *)
(* callback does the same from inside it.  The clock is the host's.        *)
(***************************************************************************)
EXTENDS Naturals, FiniteSets

CONSTANTS
    User,           \* tasks of the radio
    Service,        \* the task that calls service_timers, and the callbacks
    Timeout,        \* the timeouts that timers are armed with
    MAX_RADIO_TIMERS,
    MaxClock,       \* bound: the clock stops here, and no arm falls due later
    None

ASSUME TimerConstants ==
    /\ Service \notin User
    /\ Timeout \subseteq Nat
    /\ MAX_RADIO_TIMERS \in Nat \ {0} /\ MaxClock \in Nat

VARIABLES
    timers,             \* TIMERS
    clock,              \* what now_us answers
    arming,             \* per task: an arm that has read the clock, or None
    spc, now, at,       \* service_timers: where, its reading of the clock, the slot
    wants,              \* history: slots armed, and not since fired or disarmed
    fired, rearmed,     \* history: slots fired, and armed, during the scan
    last,               \* history: per periodic timer, when it was last fired
    deleted             \* history: the timer about to be called was deleted

svc     == <<spc, now, at>>
history == <<wants, fired, rearmed, last, deleted>>
vars    == <<timers, clock, arming, svc, history>>

Slot == 0..(MAX_RADIO_TIMERS - 1)
Task == User \cup {Service}

RadioTimer == [used : BOOLEAN, active : BOOLEAN, periodic : BOOLEAN,
               period_us : Timeout \cup {0}, due_us : Nat]

EMPTY == [used |-> FALSE, active |-> FALSE, periodic |-> FALSE,
          period_us |-> 0, due_us |-> 0]

Init ==
    /\ timers = [i \in Slot |-> EMPTY]
    /\ clock = 0
    /\ arming = [a \in Task |-> None]
    /\ spc = "idle" /\ now = 0 /\ at = 0
    /\ wants = {} /\ fired = {} /\ rearmed = {}
    /\ last = [i \in Slot |-> None] /\ deleted = FALSE

\* The bound of the clock.
Tick ==
    /\ clock < MaxClock
    /\ clock' = clock + 1
    /\ UNCHANGED <<timers, arming, svc, history>>

-----------------------------------------------------------------------------
(* The radio's calls, by its tasks and by a callback that is running.      *)

MayCall(a) == arming[a] = None /\ (a = Service => spc = "calling")

\* With the table full the adapter halts: not a step.
Remember(a, i) ==
    /\ MayCall(a)
    /\ ~timers[i].used /\ \A j \in Slot : j < i => timers[j].used
    /\ timers' = [timers EXCEPT ![i] = [EMPTY EXCEPT !.used = TRUE]]
    /\ last' = [last EXCEPT ![i] = None]
    /\ UNCHANGED <<clock, arming, svc, wants, fired, rearmed, deleted>>

\* Mutant: the slot is released and stays armed.
Forget_StaysArmed(a, i) ==
    /\ MayCall(a)
    /\ timers[i].used
    /\ \A b \in Task : arming[b] # None => arming[b].slot # i
    /\ timers' = [timers EXCEPT ![i].used = FALSE]
    /\ wants' = wants \ {i}
    /\ deleted' = (deleted \/ (spc = "fetched" /\ at = i))
    /\ UNCHANGED <<clock, arming, svc, fired, rearmed, last>>

\* A timer is deleted by one task, and not while another arms it.
Forget(a, i) ==
    /\ MayCall(a)
    /\ timers[i].used
    /\ \A b \in Task : arming[b] # None => arming[b].slot # i
    /\ timers' = [timers EXCEPT ![i].used = FALSE, ![i].active = FALSE]
    /\ wants' = wants \ {i}
    /\ deleted' = (deleted \/ (spc = "fetched" /\ at = i))
    /\ UNCHANGED <<clock, arming, svc, fired, rearmed, last>>

\* arm reads the clock before it masks.
ArmRead(a, i, t, p) ==
    /\ MayCall(a)
    /\ timers[i].used
    /\ clock + t <= MaxClock
    /\ arming' = [arming EXCEPT ![a] =
                    [slot |-> i, timeout |-> t, periodic |-> p, due |-> clock + t]]
    /\ UNCHANGED <<timers, clock, svc, history>>

ArmStore(a) ==
    /\ arming[a] # None
    /\ LET r == arming[a]
           i == r.slot
       IN  /\ timers' = [timers EXCEPT
                ![i] = [used |-> timers[i].used, active |-> TRUE, periodic |-> r.periodic,
                        period_us |-> r.timeout, due_us |-> r.due]]
           /\ wants' = wants \cup {i}
           /\ rearmed' = IF spc = "idle" THEN rearmed ELSE rearmed \cup {i}
           /\ last' = [last EXCEPT ![i] = None]
    /\ arming' = [arming EXCEPT ![a] = None]
    /\ UNCHANGED <<clock, svc, fired, deleted>>

Disarm(a, i) ==
    /\ MayCall(a)
    /\ timers[i].used
    /\ timers' = [timers EXCEPT ![i].active = FALSE]
    /\ wants' = wants \ {i}
    /\ UNCHANGED <<clock, arming, svc, fired, rearmed, last, deleted>>

-----------------------------------------------------------------------------
(* service_timers.                                                         *)

ScanStart ==
    /\ spc = "idle"
    /\ spc' = "scan" /\ now' = clock /\ at' = 0
    /\ fired' = {} /\ rearmed' = {}
    /\ UNCHANGED <<timers, clock, arming, wants, last, deleted>>

Due(i) == timers[i].used /\ timers[i].active /\ now >= timers[i].due_us

Skip ==
    /\ spc = "scan" /\ at \in Slot
    /\ ~Due(at)
    /\ at' = at + 1
    /\ UNCHANGED <<timers, clock, arming, spc, now, history>>

\* Mutant: the next due time is counted from the one before.
Rescheduled_FromDue(t) ==
    IF t.periodic THEN [t EXCEPT !.due_us = t.due_us + t.period_us]
                  ELSE [t EXCEPT !.active = FALSE]

Rescheduled(t) ==
    IF t.periodic THEN [t EXCEPT !.due_us = now + t.period_us]
                  ELSE [t EXCEPT !.active = FALSE]

Fetch ==
    /\ spc = "scan" /\ at \in Slot
    /\ Due(at)
    /\ timers' = [timers EXCEPT ![at] = Rescheduled(timers[at])]
    /\ spc' = "fetched"
    /\ fired' = fired \cup {at}
    /\ IF timers[at].periodic
         THEN wants' = wants /\ last' = [last EXCEPT ![at] = [scan |-> now, clock |-> clock]]
         ELSE wants' = wants \ {at} /\ last' = last
    /\ UNCHANGED <<clock, arming, now, at, rearmed, deleted>>

CallBegin ==
    /\ spc = "fetched"
    /\ spc' = "calling"
    /\ UNCHANGED <<timers, clock, arming, now, at, history>>

\* Mutant: the slot after a fired one is passed over.
CallEnd_Skips ==
    /\ spc = "calling" /\ arming[Service] = None
    /\ spc' = "scan" /\ deleted' = FALSE
    /\ at' = IF at + 2 \in Slot \cup {MAX_RADIO_TIMERS} THEN at + 2 ELSE MAX_RADIO_TIMERS
    /\ UNCHANGED <<timers, clock, arming, now, wants, fired, rearmed, last>>

\* Mutant: a one-shot timer is put down after its callback.
CallEnd_PutsDown ==
    /\ spc = "calling" /\ arming[Service] = None
    /\ spc' = "scan" /\ at' = at + 1 /\ deleted' = FALSE
    /\ timers' = [timers EXCEPT ![at].active = @ /\ timers[at].periodic]
    /\ UNCHANGED <<clock, arming, now, wants, fired, rearmed, last>>

CallEnd ==
    /\ spc = "calling" /\ arming[Service] = None
    /\ spc' = "scan" /\ at' = at + 1 /\ deleted' = FALSE
    /\ UNCHANGED <<timers, clock, arming, now, wants, fired, rearmed, last>>

ScanEnd ==
    /\ spc = "scan" /\ at \notin Slot
    /\ spc' = "idle" /\ now' = 0 /\ at' = 0
    /\ fired' = {} /\ rearmed' = {}
    /\ UNCHANGED <<timers, clock, arming, wants, last, deleted>>

-----------------------------------------------------------------------------
CallStep(a) ==
    \/ \E i \in Slot :
        \/ Remember(a, i) \/ Forget(a, i) \/ Disarm(a, i)
        \/ \E t \in Timeout, p \in BOOLEAN : ArmRead(a, i, t, p)
    \/ ArmStore(a)

ServiceStep == ScanStart \/ Skip \/ Fetch \/ CallBegin \/ CallEnd \/ ScanEnd

Next == Tick \/ (\E a \in Task : CallStep(a)) \/ ServiceStep

Spec == Init /\ [][Next]_vars

\* The clock goes on, the service task loops, and a callback returns, though
\* it may make any number of calls first.  The radio is under no obligation.
Fairness ==
    /\ WF_vars(Tick)
    /\ WF_vars(ScanStart) /\ WF_vars(Skip) /\ WF_vars(Fetch) /\ WF_vars(CallBegin)
    /\ WF_vars(ScanEnd)
    /\ WF_vars(ArmStore(Service)) /\ SF_vars(CallEnd)

FairSpec == Spec /\ Fairness

-----------------------------------------------------------------------------
\* Every variable keeps its type, and only a timer in use is active.
TypeOK ==
    /\ timers \in [Slot -> RadioTimer]
    /\ \A i \in Slot : timers[i].active => timers[i].used
    /\ clock \in 0..MaxClock /\ now \in 0..clock
    /\ spc \in {"idle", "scan", "fetched", "calling"} /\ at \in Slot \cup {MAX_RADIO_TIMERS}
    /\ wants \cup fired \cup rearmed \subseteq Slot

\* "Fire every timer that is due": a slot the scan has passed was fired, or
\* armed since the scan began, or is not due, whatever tasks and callbacks
\* arm, disarm, delete and create meanwhile.
DueIsFired ==
    \A i \in Slot :
        spc # "idle" /\ i < at /\ Due(i) => i \in fired \cup rearmed

\* Slot `at` is fired, having been fired before and not armed since.
FiredAgain == spc = "scan" /\ spc' = "fetched" /\ last[at] # None

\* No burst: a periodic timer that is fired again, and was not armed in
\* between, is fired by a scan that began a period later than the one before.
ScansAPeriodApart ==
    [][FiredAgain => now >= last[at].scan + timers[at].period_us]_vars

\* The same of the clock itself: "so a late service does not then fire a
\* burst catching up".
FiredAPeriodApart ==
    [][FiredAgain => clock >= last[at].clock + timers[at].period_us]_vars

\* "the radio keeps both valid until it deletes the timer -- which clears
\* used under the same mask that read them": no callback is begun of a timer
\* that was deleted.
CalledTimerExists == spc = "calling" => ~deleted

\* A timer that is armed fires, unless it is disarmed, deleted or armed anew:
\* also one that its own callback arms, or a task while the callback runs.
ArmedFires ==
    \A i \in Slot, d \in 0..MaxClock :
        (i \in wants /\ timers[i].due_us = d) ~> ~(i \in wants /\ timers[i].due_us = d)

=============================================================================

------------------------- MODULE RadioTimers_proofs -------------------------
(***************************************************************************)
(* Theorems about RadioTimers, for any number of timers and tasks, any     *)
(* timeouts and any clock: a scan fires what is due, and a periodic timer  *)
(* is not fired by two scans that began less than its period apart.        *)
(***************************************************************************)
EXTENDS RadioTimers, TLAPS

ArmCall == [slot : Slot, timeout : Timeout, periodic : BOOLEAN, due : Nat]

\* An arm that has read the clock will store it in a timer in use: its timer is
\* not deleted meanwhile.
ArmsInUse ==
    /\ arming \in [Task -> ArmCall \cup {None}]
    /\ \A a \in Task : arming[a] # None => timers[arming[a].slot].used

\* The timer whose callback is being called is one the scan has fired.
CallsFired == spc \in {"fetched", "calling"} => at \in Slot /\ at \in fired

\* A timer that was fired, and not armed since, is due a period after the scan
\* that fired it.
DueAfterScan ==
    \A i \in Slot : last[i] # None =>
        /\ last[i].scan \in Nat
        /\ timers[i].due_us = last[i].scan + timers[i].period_us

IInv ==
    /\ TypeOK /\ ArmsInUse /\ CallsFired /\ DueIsFired
    /\ DOMAIN last = Slot /\ DueAfterScan

\* The slots are numbers below the last one.
LEMMA SlotsAreNumbers ==
    /\ MAX_RADIO_TIMERS \in Nat \ {0}
    /\ \A i : i \in Slot <=> i \in Nat /\ i < MAX_RADIO_TIMERS
BY TimerConstants DEF Slot

\* An empty slot is a timer: unused, inactive and due at once.
LEMMA EmptyIsTimer ==
    /\ EMPTY \in RadioTimer /\ [EMPTY EXCEPT !.used = TRUE] \in RadioTimer
    /\ ~EMPTY.active /\ ~EMPTY.used /\ ~[EMPTY EXCEPT !.used = TRUE].active
BY DEF EMPTY, RadioTimer

\* The durations in a timer are numbers.
LEMMA TimerNumbers ==
    ASSUME NEW t \in RadioTimer
    PROVE  t.period_us \in Nat /\ t.due_us \in Nat
<1>1. t.period_us \in Timeout \cup {0} /\ t.due_us \in Nat BY DEF RadioTimer
<1>2. \A p \in Timeout \cup {0} : p \in Nat BY TimerConstants
<1>3. QED BY <1>1, <1>2

\* A timer with a new due time is a timer, and so is one put down.
LEMMA TimerUpdates ==
    ASSUME NEW t \in RadioTimer, NEW d \in Nat
    PROVE  [t EXCEPT !.active = FALSE] \in RadioTimer /\ [t EXCEPT !.due_us = d] \in RadioTimer
BY DEF RadioTimer

\* A new table is empty and the service idle.
LEMMA InitHolds == Init => IInv
<1> SUFFICES ASSUME Init PROVE IInv OBVIOUS
<1>1. TypeOK
  BY TimerConstants, SlotsAreNumbers, EmptyIsTimer DEF Init, TypeOK
<1>2. ArmsInUse BY DEF Init, ArmsInUse
<1>3. CallsFired /\ DueIsFired BY DEF Init, CallsFired, DueIsFired
<1>4. DOMAIN last = Slot /\ DueAfterScan BY DEF Init, DueAfterScan
<1>5. QED BY <1>1, <1>2, <1>3, <1>4 DEF IInv

\* A call of the radio keeps a scan's promise when the timer it leaves is not
\* due, or is one that it marks as armed during the scan.
LEMMA CallKeeps ==
    ASSUME IInv, NEW i \in Slot, NEW t \in RadioTimer,
           timers' = [timers EXCEPT ![i] = t],
           ~t.active \/ rearmed' = rearmed \cup {i} \/ spc = "idle",
           rearmed \subseteq rearmed', UNCHANGED <<svc, fired>>
    PROVE  DueIsFired' /\ CallsFired'
<1>1. timers \in [Slot -> RadioTimer] BY DEF IInv, TypeOK
<1>2. CallsFired' BY DEF IInv, CallsFired, svc
<1>3. ASSUME NEW j \in Slot, spc # "idle", j < at, Due(j)'
      PROVE  j \in fired' \cup rearmed'
  <2>1. CASE j = i BY <1>1, <1>3, <2>1 DEF Due
  <2>2. CASE j # i BY <1>1, <1>3, <2>2 DEF Due, IInv, DueIsFired, svc
  <2>3. QED BY <2>1, <2>2
<1>4. QED BY <1>2, <1>3 DEF DueIsFired, svc

\* The radio's calls keep the invariant.
LEMMA CallSteps ==
    ASSUME IInv, NEW a \in Task, CallStep(a)
    PROVE  IInv'
<1>1. /\ timers \in [Slot -> RadioTimer]
      /\ \A i \in Slot : timers[i].active => timers[i].used
      /\ wants \cup fired \cup rearmed \subseteq Slot
      /\ arming \in [Task -> ArmCall \cup {None}]
      /\ \A b \in Task : arming[b] # None => timers[arming[b].slot].used
      /\ DOMAIN last = Slot
  BY DEF IInv, TypeOK, ArmsInUse
<1>2. ASSUME NEW i \in Slot, Remember(a, i) PROVE IInv'
  <2>1. TypeOK' BY <1>1, <1>2, EmptyIsTimer DEF IInv, TypeOK, Remember, svc
  <2>2. ArmsInUse' BY <1>1, <1>2, EmptyIsTimer DEF Remember, ArmsInUse, ArmCall
  <2>3. DueIsFired' /\ CallsFired' BY <1>2, EmptyIsTimer, CallKeeps DEF Remember
  <2>4. DOMAIN last' = Slot /\ DueAfterScan'
    BY <1>1, <1>2 DEF IInv, DueAfterScan, Remember
  <2>5. QED BY <2>1, <2>2, <2>3, <2>4 DEF IInv
<1>3. ASSUME NEW i \in Slot, Forget(a, i) \/ Disarm(a, i) PROVE IInv'
  <2>1. PICK t \in RadioTimer :
          /\ timers' = [timers EXCEPT ![i] = t]
          /\ ~t.active /\ t.due_us = timers[i].due_us /\ t.period_us = timers[i].period_us
          /\ \/ t.used
             \/ \A b \in Task : arming[b] # None => arming[b].slot # i
    <3>1. CASE Forget(a, i)
      <4> DEFINE t == [timers[i] EXCEPT !.used = FALSE, !.active = FALSE]
      <4>1. timers[i] \in RadioTimer BY <1>1
      <4>2. t \in RadioTimer /\ ~t.active /\ ~t.used /\ t.due_us = timers[i].due_us
            /\ t.period_us = timers[i].period_us
        BY <4>1 DEF RadioTimer
      <4>3. timers' = [timers EXCEPT ![i] = t] BY <3>1, <4>1, <1>1 DEF Forget
      <4>4. \A b \in Task : arming[b] # None => arming[b].slot # i BY <3>1 DEF Forget
      <4> HIDE DEF t
      <4>5. QED BY <4>2, <4>3, <4>4
    <3>2. CASE Disarm(a, i)
      <4> DEFINE t == [timers[i] EXCEPT !.active = FALSE]
      <4>1. timers[i] \in RadioTimer /\ timers[i].used BY <1>1, <3>2 DEF Disarm
      <4>2. t \in RadioTimer /\ ~t.active /\ t.used /\ t.due_us = timers[i].due_us
            /\ t.period_us = timers[i].period_us
        BY <4>1 DEF RadioTimer
      <4>3. timers' = [timers EXCEPT ![i] = t] BY <3>2, <1>1 DEF Disarm
      <4> HIDE DEF t
      <4>4. QED BY <4>2, <4>3
    <3>3. QED BY <1>3, <3>1, <3>2
  <2>2. /\ wants' = wants \ {i}
        /\ UNCHANGED <<clock, arming, svc, fired, rearmed, last>>
    BY <1>3 DEF Forget, Disarm
  <2>3. TypeOK' BY <1>1, <2>1, <2>2 DEF IInv, TypeOK, svc
  <2>4. ArmsInUse' BY <1>1, <2>1, <2>2 DEF ArmsInUse, ArmCall
  <2>5. DueIsFired' /\ CallsFired' BY <2>1, <2>2, CallKeeps
  <2>6. DOMAIN last' = Slot /\ DueAfterScan' BY <1>1, <2>1, <2>2 DEF IInv, DueAfterScan
  <2>7. QED BY <2>3, <2>4, <2>5, <2>6 DEF IInv
<1>4. ASSUME NEW i \in Slot, NEW t \in Timeout, NEW p \in BOOLEAN, ArmRead(a, i, t, p)
      PROVE IInv'
  <2>1. clock \in Nat /\ t \in Nat BY TimerConstants DEF IInv, TypeOK
  <2>2. [slot |-> i, timeout |-> t, periodic |-> p, due |-> clock + t] \in ArmCall
    BY <2>1 DEF ArmCall
  <2>3. ArmsInUse' BY <1>1, <1>4, <2>2 DEF ArmRead, ArmsInUse
  <2>4. UNCHANGED <<timers, clock, svc, history>> BY <1>4 DEF ArmRead
  <2>5. QED
    BY <2>3, <2>4 DEF IInv, TypeOK, CallsFired, DueIsFired, Due, DueAfterScan, svc, history
<1>5. CASE ArmStore(a)
  <2>1. PICK r \in ArmCall : arming[a] = r /\ r # None BY <1>1, <1>5 DEF ArmStore
  <2> DEFINE i == r.slot
             t == [used |-> timers[i].used, active |-> TRUE, periodic |-> r.periodic,
                   period_us |-> r.timeout, due_us |-> r.due]
  <2>2. i \in Slot /\ t \in RadioTimer /\ t.used = TRUE /\ t.active
    BY <1>1, <2>1 DEF ArmCall, RadioTimer
  <2>3. /\ timers' = [timers EXCEPT ![i] = t]
        /\ wants' = wants \cup {i}
        /\ rearmed' = IF spc = "idle" THEN rearmed ELSE rearmed \cup {i}
        /\ last' = [last EXCEPT ![i] = None]
        /\ arming' = [arming EXCEPT ![a] = None]
        /\ UNCHANGED <<clock, svc, fired, deleted>>
    BY <1>5, <2>1 DEF ArmStore
  <2> HIDE DEF i, t
  <2>4. TypeOK' BY <1>1, <2>2, <2>3 DEF IInv, TypeOK, svc
  <2>5. ArmsInUse' BY <1>1, <2>2, <2>3 DEF ArmsInUse, ArmCall
  <2>6. DueIsFired' /\ CallsFired' BY <2>2, <2>3, CallKeeps
  <2>7. DOMAIN last' = Slot /\ DueAfterScan' BY <1>1, <2>2, <2>3 DEF IInv, DueAfterScan
  <2>8. QED BY <2>4, <2>5, <2>6, <2>7 DEF IInv
<1>6. QED BY <1>2, <1>3, <1>4, <1>5 DEF CallStep

\* The clock and the service keep it.
LEMMA ServiceSteps ==
    ASSUME IInv, Tick \/ ServiceStep
    PROVE  IInv'
<1> USE SlotsAreNumbers
<1>1. /\ timers \in [Slot -> RadioTimer]
      /\ \A i \in Slot : timers[i].active => timers[i].used
      /\ wants \cup fired \cup rearmed \subseteq Slot
      /\ clock \in Nat /\ now \in Nat /\ now <= clock /\ clock <= MaxClock
      /\ at \in Nat /\ at <= MAX_RADIO_TIMERS
      /\ MaxClock \in Nat /\ DOMAIN last = Slot
  BY TimerConstants DEF IInv, TypeOK
<1>2. CASE Tick
  <2>1. TypeOK' BY <1>1, <1>2 DEF IInv, TypeOK, Tick, svc, history
  <2>2. QED
    BY <1>2, <2>1 DEF IInv, Tick, ArmsInUse, CallsFired, DueIsFired, Due, DueAfterScan,
       svc, history
<1>3. CASE ScanStart \/ ScanEnd
  <2>1. TypeOK' BY <1>1, <1>3 DEF IInv, TypeOK, ScanStart, ScanEnd
  <2>2. DueIsFired' /\ CallsFired' BY <1>3 DEF ScanStart, ScanEnd, DueIsFired, CallsFired
  <2>3. QED BY <1>3, <2>1, <2>2 DEF IInv, ScanStart, ScanEnd, ArmsInUse, DueAfterScan
<1>4. CASE Skip
  <2>1. TypeOK' BY <1>1, <1>4 DEF IInv, TypeOK, Skip, history
  <2>2. DueIsFired' BY <1>1, <1>4 DEF IInv, Skip, DueIsFired, Due, history
  <2>3. CallsFired' BY <1>4 DEF Skip, CallsFired
  <2>4. QED BY <1>4, <2>1, <2>2, <2>3 DEF IInv, Skip, ArmsInUse, DueAfterScan, history
<1>5. CASE Fetch
  <2>1. at \in Slot /\ timers[at] \in RadioTimer /\ timers[at].used
    BY <1>1, <1>5 DEF Fetch, Due
  <2>2. PICK t \in RadioTimer :
          /\ timers' = [timers EXCEPT ![at] = t]
          /\ t.used = timers[at].used /\ (t.active => timers[at].active)
          /\ t.period_us = timers[at].period_us
          /\ IF timers[at].periodic THEN t.due_us = now + t.period_us
                                    ELSE t.due_us = timers[at].due_us
    <3> DEFINE t == Rescheduled(timers[at])
    <3>1. timers[at].period_us \in Nat BY <2>1, TimerNumbers
    <3>2. t \in RadioTimer
      <4>1. now + timers[at].period_us \in Nat BY <1>1, <3>1
      <4>2. QED BY <2>1, <4>1, TimerUpdates DEF Rescheduled
    <3>3. /\ t.used = timers[at].used /\ (t.active => timers[at].active)
          /\ t.period_us = timers[at].period_us
          /\ IF timers[at].periodic THEN t.due_us = now + t.period_us
                                    ELSE t.due_us = timers[at].due_us
      BY <2>1 DEF Rescheduled, RadioTimer
    <3>4. timers' = [timers EXCEPT ![at] = t] BY <1>5 DEF Fetch
    <3> HIDE DEF t
    <3>5. QED BY <3>2, <3>3, <3>4
  <2>3. /\ spc = "scan" /\ spc' = "fetched" /\ fired' = fired \cup {at}
        /\ UNCHANGED <<clock, arming, now, at, rearmed, deleted>>
        /\ wants' \subseteq wants
        /\ IF timers[at].periodic
             THEN last' = [last EXCEPT ![at] = [scan |-> now, clock |-> clock]]
             ELSE last' = last
    BY <1>5 DEF Fetch
  <2>4. TypeOK'
    <3>1. timers' \in [Slot -> RadioTimer] BY <1>1, <2>2
    <3>2. \A i \in Slot : timers'[i].active => timers'[i].used
      BY <1>1, <1>5, <2>1, <2>2 DEF Fetch, Due
    <3>3. QED BY <1>1, <2>1, <2>3, <3>1, <3>2 DEF IInv, TypeOK
  <2>5. ArmsInUse' BY <1>1, <2>1, <2>2, <2>3 DEF IInv, ArmsInUse, ArmCall
  <2>6. CallsFired' BY <2>1, <2>3 DEF CallsFired
  <2>7. DueIsFired' BY <1>1, <2>1, <2>2, <2>3 DEF IInv, DueIsFired, Due
  <2>8. DOMAIN last' = Slot /\ DueAfterScan'
    BY <1>1, <2>1, <2>2, <2>3 DEF IInv, DueAfterScan
  <2>9. QED BY <2>4, <2>5, <2>6, <2>7, <2>8 DEF IInv
<1>6. CASE CallBegin
  <2>1. TypeOK' BY <1>1, <1>6 DEF IInv, TypeOK, CallBegin, history
  <2>2. QED
    BY <1>6, <2>1 DEF IInv, CallBegin, ArmsInUse, CallsFired, DueIsFired, Due, DueAfterScan,
       history
<1>7. CASE CallEnd
  <2>1. at \in Slot /\ at \in fired BY <1>7 DEF IInv, CallEnd, CallsFired
  <2>2. TypeOK' BY <1>1, <1>7, <2>1 DEF IInv, TypeOK, CallEnd
  <2>3. DueIsFired' BY <1>1, <1>7, <2>1 DEF IInv, CallEnd, DueIsFired, Due
  <2>4. CallsFired' BY <1>7 DEF CallEnd, CallsFired
  <2>5. QED BY <1>7, <2>2, <2>3, <2>4 DEF IInv, CallEnd, ArmsInUse, DueAfterScan
<1>8. QED BY <1>2, <1>3, <1>4, <1>5, <1>6, <1>7 DEF ServiceStep

\* Every step keeps the invariant.
LEMMA NextHolds == IInv /\ [Next]_vars => IInv'
<1> SUFFICES ASSUME IInv, [Next]_vars PROVE IInv' OBVIOUS
<1>1. CASE Next BY <1>1, CallSteps, ServiceSteps DEF Next
<1>2. CASE UNCHANGED vars
  BY <1>2 DEF vars, svc, history, IInv, TypeOK, ArmsInUse, CallsFired, DueIsFired, Due,
     DueAfterScan
<1>3. QED BY <1>1, <1>2

\* The inductive invariant holds in every behaviour of the table.
LEMMA InvariantHolds == Spec => []IInv
<1> QED BY InitHolds, NextHolds, PTL DEF Spec

\* The table keeps its types, and only a timer in use is ever active, also when
\* an arm reads the clock, is preempted, and stores its due time later.
THEOREM TypeCorrect == Spec => []TypeOK
<1>1. IInv => TypeOK BY DEF IInv
<1>2. QED BY <1>1, InvariantHolds, PTL

\* A scan leaves no due timer behind: each slot it has passed was fired, or
\* armed since it began, or is not due, whatever tasks and callbacks do to the
\* table between two of its steps.
THEOREM ScanFiresWhatIsDue == Spec => []DueIsFired
<1>1. IInv => DueIsFired BY DEF IInv
<1>2. QED BY <1>1, InvariantHolds, PTL

\* No burst: two scans that fire one periodic timer, with no arm in between,
\* began at least its period apart.
THEOREM NoBurst == Spec => ScansAPeriodApart
<1>1. ASSUME IInv, IInv', [Next]_vars, FiredAgain
      PROVE  now >= last[at].scan + timers[at].period_us
  <2>1. Fetch
    BY <1>1 DEF FiredAgain, Next, CallStep, ServiceStep, Tick, Remember, Forget, Disarm,
       ArmRead, ArmStore, ScanStart, Skip, CallBegin, CallEnd, ScanEnd, vars, svc, history
  <2>2. at \in Slot /\ now >= timers[at].due_us BY <2>1 DEF Fetch, Due
  <2>3. timers[at].due_us = last[at].scan + timers[at].period_us
    BY <1>1, <2>2 DEF FiredAgain, IInv, DueAfterScan
  <2>4. QED BY <2>2, <2>3
<1>2. IInv /\ IInv' /\ [Next]_vars
        => [FiredAgain => now >= last[at].scan + timers[at].period_us]_vars
  BY <1>1
<1>3. QED BY <1>2, InvariantHolds, PTL DEF Spec, ScansAPeriodApart

=============================================================================

------------------------- MODULE UnixFreeze_proofs --------------------------
(***************************************************************************)
(* The freeze of UnixFreeze is synchronous, and no thaw of it is lost, for *)
(* any number of threads that occupy the entry one after another.          *)
(*                                                                         *)
(* The argument: an entry without an earlier occupant that a freeze gave up*)
(* on (Clean) has one handler at most that can still mark it PARKED, the   *)
(* occupant's own, because a freeze that has not given up ends only when   *)
(* the handler it started has parked.                                      *)
(***************************************************************************)
EXTENDS UnixFreeze, TLAPS

\* The entry and the port's belief fit together, whatever happened before.
Shape ==
    /\ \A t \in Thr : t \in spawned <=> hpc[t] # "none"
    /\ late \subseteq spawned /\ tid \in spawned \cup {Nobody}
    /\ frozen => ppc = "idle" /\ state = "PARKED"
    /\ ppc # "idle" \/ state # "RUNNING" => tid # Nobody
    /\ ppc = "releasing" => state = "RUNNING"

\* No earlier occupant of the entry has been given up on.
Clean == late \subseteq {tid}

\* The thread is on its way into the handler's park.
Coming(t) == usr1[t] \/ hpc[t] \in {"scan", "swap"}

\* Only the freeze that is looking has a handler on its way, and only once.
OneComing ==
    \A t \in Thr \ late :
        /\ Coming(t) => tid = t /\ ppc = "looking"
        /\ hpc[t] \in {"scan", "swap"} => ~usr1[t]

\* PARKED is what the occupant said, and it has answered its signal.
ParkedByOccupant ==
    /\ state = "PARKED" => hpc[tid] \in {"loop", "suspend"}
    /\ state = "PARKED" /\ tid \notin late => ~usr1[tid]
    /\ ppc = "asked" /\ tid \notin late => state = "ASKED"

\* A thread asleep that is not parked has its wake-up, and PARKED has its owner.
WakeOnItsWay ==
    /\ tid \in Thr /\ hpc[tid] = "suspend" /\ state # "PARKED"
         => usr2[tid] \/ ppc \in {"thawing", "releasing"}
    /\ state = "PARKED" => frozen \/ ppc = "looking"

IInv ==
    /\ TypeOK /\ Shape
    /\ Clean => OneComing /\ ParkedByOccupant
    /\ late = {} => WakeOnItsWay

-----------------------------------------------------------------------------
\* The inductive invariant holds at the start.
LEMMA InitInv == Init => IInv
BY FreezeConstants
   DEF Init, IInv, TypeOK, Shape, Clean, OneComing, Coming, ParkedByOccupant,
       WakeOnItsWay, Hpc, Ppc, InHandler

\* Only the giving up of a freeze can spoil an entry, and no step mends one.
LEMMA StaysUnclean == ASSUME IInv, [Next]_vars, Clean' PROVE Clean
BY FreezeConstants
   DEF IInv, TypeOK, Shape, Clean, Next, PortStep, HandlerStep, vars,
       Register, FreezeAsk, FreezeKill, FreezeKillFails, FreezeSeen, FreezeGivesUp,
       ThawSwap, ThawKill, ReleaseState, ReleaseTid,
       Suspended, HandlerScan, HandlerSwap, HandlerLoop, SigSuspend, OnResume

\* Every step keeps the inductive invariant.
LEMMA StepInv == IInv /\ [Next]_vars => IInv'
<1> SUFFICES ASSUME IInv, [Next]_vars PROVE IInv'
    OBVIOUS
<1> USE FreezeConstants
<1>c. Clean' => Clean /\ OneComing /\ ParkedByOccupant
    BY StaysUnclean DEF IInv
<1>l. late' = {} => late = {}
    BY DEF IInv, TypeOK, Next, PortStep, HandlerStep, vars,
       Register, FreezeAsk, FreezeKill, FreezeKillFails, FreezeSeen, FreezeGivesUp,
       ThawSwap, ThawKill, ReleaseState, ReleaseTid,
       Suspended, HandlerScan, HandlerSwap, HandlerLoop, SigSuspend, OnResume
<1>n. late = {} => Clean
    BY DEF Clean
<1>1. ASSUME NEW t \in Thr, Register(t) PROVE IInv'
  <2>1. TypeOK'
    BY <1>1 DEF IInv, TypeOK, Shape, Register, Hpc, Ppc, InHandler
  <2>2. Shape'
    BY <1>1 DEF IInv, TypeOK, Shape, Register, Hpc, Ppc, InHandler
  <2>3. Clean' => OneComing'
    BY <1>1, <1>c DEF IInv, TypeOK, Shape, Clean, OneComing, Coming, ParkedByOccupant,
       Register, Hpc, Ppc, InHandler
  <2>4. Clean' => ParkedByOccupant'
    BY <1>1, <1>c DEF IInv, TypeOK, Shape, Clean, OneComing, Coming, ParkedByOccupant,
       Register, Hpc, Ppc, InHandler
  <2>5. late' = {} => WakeOnItsWay'
    BY <1>1, <1>c, <1>l, <1>n DEF IInv, TypeOK, Shape, Clean, OneComing, Coming,
       ParkedByOccupant, WakeOnItsWay, Register, Hpc, Ppc, InHandler
  <2> QED
    BY <2>1, <2>2, <2>3, <2>4, <2>5 DEF IInv
<1>2. ASSUME FreezeAsk PROVE IInv'
  <2>1. TypeOK'
    BY <1>2 DEF IInv, TypeOK, Shape, FreezeAsk, Hpc, Ppc, InHandler
  <2>2. Shape'
    BY <1>2 DEF IInv, TypeOK, Shape, FreezeAsk, Hpc, Ppc, InHandler
  <2>3. Clean' => OneComing'
    BY <1>2, <1>c DEF IInv, TypeOK, Shape, Clean, OneComing, Coming, ParkedByOccupant,
       FreezeAsk, Hpc, Ppc, InHandler
  <2>4. Clean' => ParkedByOccupant'
    BY <1>2, <1>c DEF IInv, TypeOK, Shape, Clean, OneComing, Coming, ParkedByOccupant,
       FreezeAsk, Hpc, Ppc, InHandler
  <2>5. late' = {} => WakeOnItsWay'
    BY <1>2, <1>c, <1>l, <1>n DEF IInv, TypeOK, Shape, Clean, OneComing, Coming,
       ParkedByOccupant, WakeOnItsWay, FreezeAsk, Hpc, Ppc, InHandler
  <2> QED
    BY <2>1, <2>2, <2>3, <2>4, <2>5 DEF IInv
<1>3. ASSUME FreezeKill PROVE IInv'
  <2>1. TypeOK'
    BY <1>3 DEF IInv, TypeOK, Shape, FreezeKill, Hpc, Ppc, InHandler
  <2>2. Shape'
    BY <1>3 DEF IInv, TypeOK, Shape, FreezeKill, Hpc, Ppc, InHandler
  <2>3. Clean' => OneComing'
    BY <1>3, <1>c DEF IInv, TypeOK, Shape, Clean, OneComing, Coming, ParkedByOccupant,
       FreezeKill, Hpc, Ppc, InHandler
  <2>4. Clean' => ParkedByOccupant'
    BY <1>3, <1>c DEF IInv, TypeOK, Shape, Clean, OneComing, Coming, ParkedByOccupant,
       FreezeKill, Hpc, Ppc, InHandler
  <2>5. late' = {} => WakeOnItsWay'
    BY <1>3, <1>c, <1>l, <1>n DEF IInv, TypeOK, Shape, Clean, OneComing, Coming,
       ParkedByOccupant, WakeOnItsWay, FreezeKill, Hpc, Ppc, InHandler
  <2> QED
    BY <2>1, <2>2, <2>3, <2>4, <2>5 DEF IInv
<1>4. ASSUME FreezeKillFails PROVE IInv'
  <2>1. TypeOK'
    BY <1>4 DEF IInv, TypeOK, Shape, FreezeKillFails, Hpc, Ppc, InHandler
  <2>2. Shape'
    BY <1>4 DEF IInv, TypeOK, Shape, FreezeKillFails, Hpc, Ppc, InHandler
  <2>3. Clean' => OneComing'
    BY <1>4, <1>c DEF IInv, TypeOK, Shape, Clean, OneComing, Coming, ParkedByOccupant,
       FreezeKillFails, Hpc, Ppc, InHandler
  <2>4. Clean' => ParkedByOccupant'
    BY <1>4, <1>c DEF IInv, TypeOK, Shape, Clean, OneComing, Coming, ParkedByOccupant,
       FreezeKillFails, Hpc, Ppc, InHandler
  <2>5. late' = {} => WakeOnItsWay'
    BY <1>4, <1>c, <1>l, <1>n DEF IInv, TypeOK, Shape, Clean, OneComing, Coming,
       ParkedByOccupant, WakeOnItsWay, FreezeKillFails, Hpc, Ppc, InHandler
  <2> QED
    BY <2>1, <2>2, <2>3, <2>4, <2>5 DEF IInv
<1>5. ASSUME FreezeSeen PROVE IInv'
  <2>1. TypeOK'
    BY <1>5 DEF IInv, TypeOK, Shape, FreezeSeen, Hpc, Ppc, InHandler
  <2>2. Shape'
    BY <1>5 DEF IInv, TypeOK, Shape, FreezeSeen, Hpc, Ppc, InHandler
  <2>3. Clean' => OneComing'
    BY <1>5, <1>c DEF IInv, TypeOK, Shape, Clean, OneComing, Coming, ParkedByOccupant,
       FreezeSeen, Hpc, Ppc, InHandler
  <2>4. Clean' => ParkedByOccupant'
    BY <1>5, <1>c DEF IInv, TypeOK, Shape, Clean, OneComing, Coming, ParkedByOccupant,
       FreezeSeen, Hpc, Ppc, InHandler
  <2>5. late' = {} => WakeOnItsWay'
    BY <1>5, <1>c, <1>l, <1>n DEF IInv, TypeOK, Shape, Clean, OneComing, Coming,
       ParkedByOccupant, WakeOnItsWay, FreezeSeen, Hpc, Ppc, InHandler
  <2> QED
    BY <2>1, <2>2, <2>3, <2>4, <2>5 DEF IInv
<1>6. ASSUME FreezeGivesUp PROVE IInv'
  <2>1. TypeOK'
    BY <1>6 DEF IInv, TypeOK, Shape, FreezeGivesUp, Hpc, Ppc, InHandler
  <2>2. Shape'
    BY <1>6 DEF IInv, TypeOK, Shape, FreezeGivesUp, Hpc, Ppc, InHandler
  <2>3. Clean' => OneComing'
    BY <1>6, <1>c DEF IInv, TypeOK, Shape, Clean, OneComing, Coming, ParkedByOccupant,
       FreezeGivesUp, Hpc, Ppc, InHandler
  <2>4. Clean' => ParkedByOccupant'
    BY <1>6, <1>c DEF IInv, TypeOK, Shape, Clean, OneComing, Coming, ParkedByOccupant,
       FreezeGivesUp, Hpc, Ppc, InHandler
  <2>5. late' = {} => WakeOnItsWay'
    BY <1>6, <1>c, <1>l, <1>n DEF IInv, TypeOK, Shape, Clean, OneComing, Coming,
       ParkedByOccupant, WakeOnItsWay, FreezeGivesUp, Hpc, Ppc, InHandler
  <2> QED
    BY <2>1, <2>2, <2>3, <2>4, <2>5 DEF IInv
<1>7. ASSUME ThawSwap PROVE IInv'
  <2>1. TypeOK'
    BY <1>7 DEF IInv, TypeOK, Shape, ThawSwap, Hpc, Ppc, InHandler
  <2>2. Shape'
    BY <1>7 DEF IInv, TypeOK, Shape, ThawSwap, Hpc, Ppc, InHandler
  <2>3. Clean' => OneComing'
    BY <1>7, <1>c DEF IInv, TypeOK, Shape, Clean, OneComing, Coming, ParkedByOccupant,
       ThawSwap, Hpc, Ppc, InHandler
  <2>4. Clean' => ParkedByOccupant'
    BY <1>7, <1>c DEF IInv, TypeOK, Shape, Clean, OneComing, Coming, ParkedByOccupant,
       ThawSwap, Hpc, Ppc, InHandler
  <2>5. late' = {} => WakeOnItsWay'
    BY <1>7, <1>c, <1>l, <1>n DEF IInv, TypeOK, Shape, Clean, OneComing, Coming,
       ParkedByOccupant, WakeOnItsWay, ThawSwap, Hpc, Ppc, InHandler
  <2> QED
    BY <2>1, <2>2, <2>3, <2>4, <2>5 DEF IInv
<1>8. ASSUME ThawKill PROVE IInv'
  <2>1. TypeOK'
    BY <1>8 DEF IInv, TypeOK, Shape, ThawKill, Hpc, Ppc, InHandler
  <2>2. Shape'
    BY <1>8 DEF IInv, TypeOK, Shape, ThawKill, Hpc, Ppc, InHandler
  <2>3. Clean' => OneComing'
    BY <1>8, <1>c DEF IInv, TypeOK, Shape, Clean, OneComing, Coming, ParkedByOccupant,
       ThawKill, Hpc, Ppc, InHandler
  <2>4. Clean' => ParkedByOccupant'
    BY <1>8, <1>c DEF IInv, TypeOK, Shape, Clean, OneComing, Coming, ParkedByOccupant,
       ThawKill, Hpc, Ppc, InHandler
  <2>5. late' = {} => WakeOnItsWay'
    BY <1>8, <1>c, <1>l, <1>n DEF IInv, TypeOK, Shape, Clean, OneComing, Coming,
       ParkedByOccupant, WakeOnItsWay, ThawKill, Hpc, Ppc, InHandler
  <2> QED
    BY <2>1, <2>2, <2>3, <2>4, <2>5 DEF IInv
<1>9. ASSUME ReleaseState PROVE IInv'
  <2>1. TypeOK'
    BY <1>9 DEF IInv, TypeOK, Shape, ReleaseState, Hpc, Ppc, InHandler
  <2>2. Shape'
    BY <1>9 DEF IInv, TypeOK, Shape, ReleaseState, Hpc, Ppc, InHandler
  <2>3. Clean' => OneComing'
    BY <1>9, <1>c DEF IInv, TypeOK, Shape, Clean, OneComing, Coming, ParkedByOccupant,
       ReleaseState, Hpc, Ppc, InHandler
  <2>4. Clean' => ParkedByOccupant'
    BY <1>9, <1>c DEF IInv, TypeOK, Shape, Clean, OneComing, Coming, ParkedByOccupant,
       ReleaseState, Hpc, Ppc, InHandler
  <2>5. late' = {} => WakeOnItsWay'
    BY <1>9, <1>c, <1>l, <1>n DEF IInv, TypeOK, Shape, Clean, OneComing, Coming,
       ParkedByOccupant, WakeOnItsWay, ReleaseState, Hpc, Ppc, InHandler
  <2> QED
    BY <2>1, <2>2, <2>3, <2>4, <2>5 DEF IInv
<1>10. ASSUME ReleaseTid PROVE IInv'
  <2>1. TypeOK'
    BY <1>10 DEF IInv, TypeOK, Shape, ReleaseTid, Hpc, Ppc, InHandler
  <2>2. Shape'
    BY <1>10 DEF IInv, TypeOK, Shape, ReleaseTid, Hpc, Ppc, InHandler
  <2>3. Clean' => OneComing'
    BY <1>10, <1>c DEF IInv, TypeOK, Shape, Clean, OneComing, Coming, ParkedByOccupant,
       ReleaseTid, Hpc, Ppc, InHandler
  <2>4. Clean' => ParkedByOccupant'
    BY <1>10, <1>c DEF IInv, TypeOK, Shape, Clean, OneComing, Coming, ParkedByOccupant,
       ReleaseTid, Hpc, Ppc, InHandler
  <2>5. late' = {} => WakeOnItsWay'
    BY <1>10, <1>c, <1>l, <1>n DEF IInv, TypeOK, Shape, Clean, OneComing, Coming,
       ParkedByOccupant, WakeOnItsWay, ReleaseTid, Hpc, Ppc, InHandler
  <2> QED
    BY <2>1, <2>2, <2>3, <2>4, <2>5 DEF IInv
<1>11. ASSUME NEW t \in Thr, Suspended(t) PROVE IInv'
  <2>1. TypeOK'
    BY <1>11 DEF IInv, TypeOK, Shape, Suspended, Hpc, Ppc, InHandler
  <2>2. Shape'
    BY <1>11 DEF IInv, TypeOK, Shape, Suspended, Hpc, Ppc, InHandler
  <2>3. Clean' => OneComing'
    BY <1>11, <1>c DEF IInv, TypeOK, Shape, Clean, OneComing, Coming, ParkedByOccupant,
       Suspended, Hpc, Ppc, InHandler
  <2>4. Clean' => ParkedByOccupant'
    BY <1>11, <1>c DEF IInv, TypeOK, Shape, Clean, OneComing, Coming, ParkedByOccupant,
       Suspended, Hpc, Ppc, InHandler
  <2>5. late' = {} => WakeOnItsWay'
    BY <1>11, <1>c, <1>l, <1>n DEF IInv, TypeOK, Shape, Clean, OneComing, Coming,
       ParkedByOccupant, WakeOnItsWay, Suspended, Hpc, Ppc, InHandler
  <2> QED
    BY <2>1, <2>2, <2>3, <2>4, <2>5 DEF IInv
<1>12. ASSUME NEW t \in Thr, HandlerScan(t) PROVE IInv'
  <2>1. TypeOK'
    BY <1>12 DEF IInv, TypeOK, Shape, HandlerScan, Hpc, Ppc, InHandler
  <2>2. Shape'
    BY <1>12 DEF IInv, TypeOK, Shape, HandlerScan, Hpc, Ppc, InHandler
  <2>3. Clean' => OneComing'
    BY <1>12, <1>c DEF IInv, TypeOK, Shape, Clean, OneComing, Coming, ParkedByOccupant,
       HandlerScan, Hpc, Ppc, InHandler
  <2>4. Clean' => ParkedByOccupant'
    BY <1>12, <1>c DEF IInv, TypeOK, Shape, Clean, OneComing, Coming, ParkedByOccupant,
       HandlerScan, Hpc, Ppc, InHandler
  <2>5. late' = {} => WakeOnItsWay'
    BY <1>12, <1>c, <1>l, <1>n DEF IInv, TypeOK, Shape, Clean, OneComing, Coming,
       ParkedByOccupant, WakeOnItsWay, HandlerScan, Hpc, Ppc, InHandler
  <2> QED
    BY <2>1, <2>2, <2>3, <2>4, <2>5 DEF IInv
<1>13. ASSUME NEW t \in Thr, HandlerSwap(t) PROVE IInv'
  <2>1. TypeOK'
    BY <1>13 DEF IInv, TypeOK, Shape, HandlerSwap, Hpc, Ppc, InHandler
  <2>2. Shape'
    BY <1>13 DEF IInv, TypeOK, Shape, HandlerSwap, Hpc, Ppc, InHandler
  <2>3. Clean' => OneComing'
    BY <1>13, <1>c DEF IInv, TypeOK, Shape, Clean, OneComing, Coming, ParkedByOccupant,
       HandlerSwap, Hpc, Ppc, InHandler
  <2>4. Clean' => ParkedByOccupant'
    BY <1>13, <1>c DEF IInv, TypeOK, Shape, Clean, OneComing, Coming, ParkedByOccupant,
       HandlerSwap, Hpc, Ppc, InHandler
  <2>5. late' = {} => WakeOnItsWay'
    BY <1>13, <1>c, <1>l, <1>n DEF IInv, TypeOK, Shape, Clean, OneComing, Coming,
       ParkedByOccupant, WakeOnItsWay, HandlerSwap, Hpc, Ppc, InHandler
  <2> QED
    BY <2>1, <2>2, <2>3, <2>4, <2>5 DEF IInv
<1>14. ASSUME NEW t \in Thr, HandlerLoop(t) PROVE IInv'
  <2>1. TypeOK'
    BY <1>14 DEF IInv, TypeOK, Shape, HandlerLoop, Hpc, Ppc, InHandler
  <2>2. Shape'
    BY <1>14 DEF IInv, TypeOK, Shape, HandlerLoop, Hpc, Ppc, InHandler
  <2>3. Clean' => OneComing'
    BY <1>14, <1>c DEF IInv, TypeOK, Shape, Clean, OneComing, Coming, ParkedByOccupant,
       HandlerLoop, Hpc, Ppc, InHandler
  <2>4. Clean' => ParkedByOccupant'
    BY <1>14, <1>c DEF IInv, TypeOK, Shape, Clean, OneComing, Coming, ParkedByOccupant,
       HandlerLoop, Hpc, Ppc, InHandler
  <2>5. late' = {} => WakeOnItsWay'
    BY <1>14, <1>c, <1>l, <1>n DEF IInv, TypeOK, Shape, Clean, OneComing, Coming,
       ParkedByOccupant, WakeOnItsWay, HandlerLoop, Hpc, Ppc, InHandler
  <2> QED
    BY <2>1, <2>2, <2>3, <2>4, <2>5 DEF IInv
<1>15. ASSUME NEW t \in Thr, SigSuspend(t) PROVE IInv'
  <2>1. TypeOK'
    BY <1>15 DEF IInv, TypeOK, Shape, SigSuspend, Hpc, Ppc, InHandler
  <2>2. Shape'
    BY <1>15 DEF IInv, TypeOK, Shape, SigSuspend, Hpc, Ppc, InHandler
  <2>3. Clean' => OneComing'
    BY <1>15, <1>c DEF IInv, TypeOK, Shape, Clean, OneComing, Coming, ParkedByOccupant,
       SigSuspend, Hpc, Ppc, InHandler
  <2>4. Clean' => ParkedByOccupant'
    BY <1>15, <1>c DEF IInv, TypeOK, Shape, Clean, OneComing, Coming, ParkedByOccupant,
       SigSuspend, Hpc, Ppc, InHandler
  <2>5. late' = {} => WakeOnItsWay'
    BY <1>15, <1>c, <1>l, <1>n DEF IInv, TypeOK, Shape, Clean, OneComing, Coming,
       ParkedByOccupant, WakeOnItsWay, SigSuspend, Hpc, Ppc, InHandler
  <2> QED
    BY <2>1, <2>2, <2>3, <2>4, <2>5 DEF IInv
<1>16. ASSUME NEW t \in Thr, OnResume(t) PROVE IInv'
  <2>1. TypeOK'
    BY <1>16 DEF IInv, TypeOK, Shape, OnResume, Hpc, Ppc, InHandler
  <2>2. Shape'
    BY <1>16 DEF IInv, TypeOK, Shape, OnResume, Hpc, Ppc, InHandler
  <2>3. Clean' => OneComing'
    BY <1>16, <1>c DEF IInv, TypeOK, Shape, Clean, OneComing, Coming, ParkedByOccupant,
       OnResume, Hpc, Ppc, InHandler
  <2>4. Clean' => ParkedByOccupant'
    BY <1>16, <1>c DEF IInv, TypeOK, Shape, Clean, OneComing, Coming, ParkedByOccupant,
       OnResume, Hpc, Ppc, InHandler
  <2>5. late' = {} => WakeOnItsWay'
    BY <1>16, <1>c, <1>l, <1>n DEF IInv, TypeOK, Shape, Clean, OneComing, Coming,
       ParkedByOccupant, WakeOnItsWay, OnResume, Hpc, Ppc, InHandler
  <2> QED
    BY <2>1, <2>2, <2>3, <2>4, <2>5 DEF IInv
<1>17. ASSUME UNCHANGED vars PROVE IInv'
    BY <1>17 DEF IInv, TypeOK, Shape, Clean, OneComing, Coming, ParkedByOccupant,
       WakeOnItsWay, vars
<1> QED
    BY <1>1, <1>2, <1>3, <1>4, <1>5, <1>6, <1>7, <1>8, <1>9, <1>10, <1>11, <1>12,
       <1>13, <1>14, <1>15, <1>16, <1>17 DEF Next, PortStep, HandlerStep

\* IInv holds in every reachable state.
LEMMA Invariance == Spec => []IInv
<1>1. Init => IInv
    BY InitInv
<1>2. IInv /\ [Next]_vars => IInv'
    BY StepInv
<1> QED
    BY <1>1, <1>2, PTL DEF Spec

-----------------------------------------------------------------------------
\* The table entry, the signals and the handlers keep their types, whatever
\* threads occupy the entry one after another.
THEOREM TypeCorrect == Spec => []TypeOK
<1>1. IInv => TypeOK
    BY DEF IInv
<1> QED
    BY Invariance, <1>1, PTL

\* freeze: once it has answered true the occupant is parked in its handler,
\* and stays so until it is thawed or released, whatever signals earlier
\* freezes and thaws left pending.
THEOREM FreezeIsSynchronous == Spec => []FrozenIsParked
<1>1. IInv => FrozenIsParked
    BY DEF IInv, Shape, Clean, ParkedByOccupant, FrozenIsParked, Parked
<1> QED
    BY Invariance, <1>1, PTL

\* thaw: a thread that nobody holds frozen is not left asleep in sigsuspend
\* without the SIGUSR2 that wakes it, while no freeze has given up.
THEOREM ThawArrives == Spec => []ThawIsNotLost
<1>1. IInv => ThawIsNotLost
    BY DEF IInv, TypeOK, WakeOnItsWay, ThawIsNotLost, Asleep
<1> QED
    BY Invariance, <1>1, PTL

=============================================================================

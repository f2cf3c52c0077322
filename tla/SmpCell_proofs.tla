--------------------------- MODULE SmpCell_proofs ---------------------------
(***************************************************************************)
(* One core at a time is in the kernel of SmpCell, a task is on one core at*)
(* most, and no yield across cores is lost, for any number of cores and    *)
(* tasks.                                                                  *)
(*                                                                         *)
(* The argument: the mask keeps a core's own handlers out of its sections, *)
(* so a frame that is inside is on a core and not interrupted (Inside); the*)
(* cores select different tasks, and the one a core still has while it     *)
(* switches is nobody's choice until the lock is released (OwnFrames); a   *)
(* yield is kept in one place after another (YieldKept).                   *)
(***************************************************************************)
EXTENDS SmpCell, TLAPS

\* A frame inside the mask is on a core that is in no handler.
Inside ==
    /\ \A t \in Frame : Masked(t) => \E c \in Core : running[c] = t /\ handler[c] = "none"
    /\ \A c \in Core : InKernel(c) => lock = c

\* Only the workers call the kernel.
WorkersCall == \A t \in Frame \ Worker : tpc[t] = "run"

\* What a core runs is its own, and while it switches too.
OwnFrames ==
    /\ \A c, d \in Core : c # d => selected[c] # selected[d]
    /\ \A c \in Core :
        \/ running[c] \in {selected[c], BootOf[c]}
        \/ handler[c] = "copy" /\ \A d \in Core \ {c} : running[c] # selected[d]
    /\ \A c, d \in Core : c # d => running[c] # running[d] /\ running[c] # BootOf[d]

\* Yields are owed where they will be raised, and a core that was told to
\* yield has its request somewhere.
YieldKept ==
    /\ \A t \in Frame : owed[t] # {} => tpc[t] = "out"
    /\ \A c \in Core : owed[c] # {} => handler[c] = "raise"
    /\ \A c \in asked :
        \/ pend[c] \/ ipi[c] \/ handler[c] \in {"switch", "switching"}
        \/ \E f \in Frame \cup Core : c \in owed[f]

IInv == TypeOK /\ Inside /\ WorkersCall /\ OwnFrames /\ YieldKept

-----------------------------------------------------------------------------
\* The workers, the idle frames and the boot frames are kept apart.
LEMMA FramesApart ==
    /\ Worker \subseteq Task /\ Task \subseteq Frame
    /\ IdleOf \in [Core -> Task] /\ BootOf \in [Core -> Frame]
    /\ \A c \in Core : BootOf[c] \notin Task /\ IdleOf[c] \notin Worker
    /\ \A c, d \in Core : c # d => BootOf[c] # BootOf[d] /\ IdleOf[c] # IdleOf[d]
BY SmpConstants DEF Task, Frame, Idler, IdleOf, BootOf

\* What readying a task asks for: the core told to yield is told at once if it
\* is the caller's own, or else the caller owes it; no request is withdrawn.
LEMMA WakesEffect ==
    ASSUME TypeOK, NEW c \in Core, NEW f \in Frame \cup Core, NEW t \in Worker,
           owed[f] = {}, Wakes(c, f, t)
    PROVE  /\ asked' \in SUBSET Core /\ asked \subseteq asked'
           /\ pend' \in [Core -> BOOLEAN] /\ \A d \in Core : pend[d] => pend'[d]
           /\ owed' \in [Frame \cup Core -> SUBSET Core]
           /\ \A g \in Frame \cup Core : g # f => owed'[g] = owed[g]
           /\ \A d \in asked' : d \in asked \/ pend'[d] \/ d \in owed'[f]
<1>1. CASE Below(t) = {}
    BY <1>1 DEF Wakes, TypeOK
<1>2. CASE Below(t) # {}
  <2>1. PICK d \in Below(t) :
            /\ asked' = asked \cup {d}
            /\ pend' = IF d = c THEN [pend EXCEPT ![c] = TRUE] ELSE pend
            /\ owed' = [owed EXCEPT ![f] = IF d = c THEN {} ELSE {d}]
    BY <1>2 DEF Wakes
  <2>2. d \in Core
    BY DEF Below
  <2>3. CASE d = c
    BY <2>1, <2>2, <2>3 DEF TypeOK
  <2>4. CASE d # c
    BY <2>1, <2>2, <2>4 DEF TypeOK
  <2> QED
    BY <2>3, <2>4
<1> QED
    BY <1>1, <1>2

\* The inductive invariant holds at the start.
LEMMA InitInv == Init => IInv
BY SmpConstants, FramesApart
   DEF Init, IInv, TypeOK, Inside, WorkersCall, OwnFrames, YieldKept, Masked, InKernel

\* Every step keeps the inductive invariant.
LEMMA StepInv == IInv /\ [Next]_vars => IInv'
<1> SUFFICES ASSUME IInv, [Next]_vars PROVE IInv'
    OBVIOUS
<1> USE SmpConstants, FramesApart DEF kernel, machine, frames
<1>1. ASSUME NEW c \in Core, NEW t \in Frame, Call(c, t) PROVE IInv'
  <2>1. TypeOK'
    BY <1>1 DEF IInv, TypeOK, WorkersCall, Call, May, Executes, To, LockFree
  <2>2. Inside'
    BY <1>1 DEF IInv, TypeOK, WorkersCall, Inside, OwnFrames, InKernel, Masked,
       LockFree, Call, May, Executes, To, LockFree
  <2>3. WorkersCall'
    BY <1>1 DEF IInv, TypeOK, WorkersCall, Call, May, Executes, To, LockFree
  <2>4. OwnFrames'
    BY <1>1 DEF IInv, TypeOK, Inside, InKernel, OwnFrames, Call, May, Executes, To,
       LockFree
  <2>5. YieldKept'
    BY <1>1 DEF IInv, TypeOK, YieldKept, Call, May, Executes, To, LockFree
  <2> QED
    BY <2>1, <2>2, <2>3, <2>4, <2>5 DEF IInv
<1>2. ASSUME NEW c \in Core, NEW t \in Frame, Spin(c, t) PROVE IInv'
  <2>1. TypeOK'
    BY <1>2 DEF IInv, TypeOK, WorkersCall, Spin, Executes, To
  <2>2. Inside'
    BY <1>2 DEF IInv, TypeOK, WorkersCall, Inside, OwnFrames, InKernel, Masked,
       LockFree, Spin, Executes, To
  <2>3. WorkersCall'
    BY <1>2 DEF IInv, TypeOK, WorkersCall, Spin, Executes, To
  <2>4. OwnFrames'
    BY <1>2 DEF IInv, TypeOK, Inside, InKernel, OwnFrames, Spin, Executes, To
  <2>5. YieldKept'
    BY <1>2 DEF IInv, TypeOK, YieldKept, Spin, Executes, To
  <2> QED
    BY <2>1, <2>2, <2>3, <2>4, <2>5 DEF IInv
<1>3. ASSUME NEW c \in Core, NEW t \in Frame, Body(c, t) PROVE IInv'
  <2> DEFINE f == t
  <2>0. c \in Core /\ f \in Frame \cup Core /\ owed[f] = {} /\ f \in Worker
    BY <1>3 DEF IInv, YieldKept, WorkersCall, Body, Executes
  <2> DEFINE Effect ==
               /\ parked' \subseteq Worker /\ again' \subseteq Worker
               /\ asked' \in SUBSET Core /\ asked \subseteq asked'
               /\ pend' \in [Core -> BOOLEAN] /\ \A d \in Core : pend[d] => pend'[d]
               /\ owed' \in [Frame \cup Core -> SUBSET Core]
               /\ \A g \in Frame \cup Core : g # f => owed'[g] = owed[g]
               /\ \A d \in asked' : d \in asked \/ pend'[d] \/ d \in owed'[f]
  <2>1. Effect
    <3>1. CASE Park(c, t)
      BY <2>0, <3>1 DEF IInv, TypeOK, Park
    <3>2. CASE Give(c, t)
      <4>1. PICK w \in parked : parked' = parked \ {w} /\ Wakes(c, t, w)
        BY <3>2 DEF Give
      <4>2. w \in Worker /\ UNCHANGED again
        BY <3>2, <4>1 DEF Give, IInv, TypeOK
      <4>3. TypeOK /\ parked' \subseteq Worker /\ again' \subseteq Worker
        BY <4>1, <4>2 DEF IInv, TypeOK
      <4> QED
        BY <2>0, <4>1, <4>2, <4>3, WakesEffect
    <3>3. CASE Plain
      BY <2>0, <3>3 DEF IInv, TypeOK, Plain
    <3> QED
      BY <1>3, <3>1, <3>2, <3>3 DEF Body
  <2> HIDE DEF Effect
  <2>2. TypeOK'
    BY <1>3, <2>0, <2>1 DEF IInv, TypeOK, Effect, Body, Executes, To
  <2>3. Inside'
    BY <1>3, <2>0 DEF IInv, TypeOK, WorkersCall, Inside, OwnFrames, InKernel, Masked,
       LockFree, Body, Executes, To
  <2>4. WorkersCall'
    BY <1>3, <2>0 DEF IInv, TypeOK, WorkersCall, Body, Executes, To
  <2>5. OwnFrames'
    BY <1>3 DEF IInv, TypeOK, Inside, InKernel, OwnFrames, Body, Executes, To
  <2>6. YieldKept'
    <3>1. \A g \in Frame : owed'[g] # {} => tpc'[g] = "out"
      BY <1>3, <2>0, <2>1 DEF IInv, TypeOK, YieldKept, Effect, Body, Executes, To
    <3>2. \A d \in Core : owed'[d] # {} => handler'[d] = "raise"
      <4>1. \A d \in Core : owed'[d] = owed[d]
        BY <2>0, <2>1 DEF Effect
      <4>2. UNCHANGED handler
        BY <1>3 DEF Body
      <4> QED
        BY <4>1, <4>2 DEF IInv, YieldKept
    <3>3. \A d \in Core : handler[d] \in {"switch", "switching"} => handler'[d] = handler[d]
      BY <1>3 DEF IInv, TypeOK, Body, Executes, To
    <3>4. UNCHANGED ipi /\ asked' \subseteq Core
      BY <1>3, <2>1 DEF Effect, Body, Executes, To
    <3>5. ASSUME NEW d \in asked'
          PROVE  \/ pend'[d] \/ ipi'[d] \/ handler'[d] \in {"switch", "switching"}
                 \/ \E g \in Frame \cup Core : d \in owed'[g]
      <4>1. CASE d \in asked
        <5>1. CASE pend[d] \/ ipi[d] \/ handler[d] \in {"switch", "switching"}
          BY <5>1, <2>1, <3>3, <3>4 DEF Effect
        <5>2. ASSUME NEW g \in Frame \cup Core, d \in owed[g] PROVE d \in owed'[g]
          BY <5>2, <2>0, <2>1 DEF Effect
        <5> QED
          BY <4>1, <5>1, <5>2 DEF IInv, YieldKept
      <4>2. CASE d \notin asked
        BY <4>2, <2>0, <2>1 DEF Effect
      <4> QED
        BY <4>1, <4>2
    <3> QED
      BY <3>1, <3>2, <3>5 DEF YieldKept
  <2> QED
    BY <2>2, <2>3, <2>4, <2>5, <2>6 DEF IInv
<1>4. ASSUME NEW c \in Core, NEW t \in Frame, RaiseYields(c, t) PROVE IInv'
  <2>1. TypeOK'
    BY <1>4 DEF IInv, TypeOK, WorkersCall, RaiseYields, Executes, To
  <2>2. Inside'
    BY <1>4 DEF IInv, TypeOK, WorkersCall, Inside, OwnFrames, InKernel, Masked,
       LockFree, RaiseYields, Executes, To
  <2>3. WorkersCall'
    BY <1>4 DEF IInv, TypeOK, WorkersCall, RaiseYields, Executes, To
  <2>4. OwnFrames'
    BY <1>4 DEF IInv, TypeOK, Inside, InKernel, OwnFrames, RaiseYields, Executes, To
  <2>5. YieldKept'
    <3>1. \A g \in Frame \cup Core : owed'[g] = IF g = t THEN {} ELSE owed[g]
      BY <1>4 DEF IInv, TypeOK, RaiseYields, Executes, To
    <3>2. \A d \in Core : ipi'[d] = (ipi[d] \/ d \in owed[t])
      BY <1>4 DEF IInv, TypeOK, RaiseYields, Executes, To
    <3>3. \A g \in Frame : owed'[g] # {} => tpc'[g] = "out"
      BY <1>4, <3>1 DEF IInv, TypeOK, YieldKept, RaiseYields, Executes, To
    <3>4. \A d \in Core : owed'[d] # {} => handler'[d] = "raise"
      BY <1>4, <3>1 DEF IInv, TypeOK, YieldKept, RaiseYields, Executes, To
    <3>5. \A d \in Core : handler[d] \in {"switch", "switching"} => handler'[d] = handler[d]
      BY <1>4 DEF IInv, TypeOK, RaiseYields, Executes, To
    <3>6. asked' = asked /\ asked \subseteq Core /\ pend' = pend
      BY <1>4 DEF IInv, TypeOK, RaiseYields, Executes, To
    <3>7. ASSUME NEW d \in asked
          PROVE  \/ pend'[d] \/ ipi'[d] \/ handler'[d] \in {"switch", "switching"}
                 \/ \E g \in Frame \cup Core : d \in owed'[g]
      <4>1. CASE pend[d] \/ ipi[d] \/ handler[d] \in {"switch", "switching"}
        BY <4>1, <3>2, <3>5, <3>6
      <4>2. ASSUME NEW g \in Frame \cup Core, d \in owed[g]
            PROVE  ipi'[d] \/ d \in owed'[g]
        BY <4>2, <3>1, <3>2, <3>6
      <4> QED
        BY <4>1, <4>2 DEF IInv, YieldKept
    <3> QED
      BY <3>3, <3>4, <3>6, <3>7 DEF YieldKept
  <2> QED
    BY <2>1, <2>2, <2>3, <2>4, <2>5 DEF IInv
<1>5. ASSUME NEW c \in Core, NEW t \in Frame, YieldNow(c, t) PROVE IInv'
  <2>1. TypeOK'
    BY <1>5 DEF IInv, TypeOK, WorkersCall, YieldNow, Executes
  <2>2. Inside'
    BY <1>5 DEF IInv, TypeOK, WorkersCall, Inside, OwnFrames, InKernel, Masked,
       LockFree, YieldNow, Executes
  <2>3. WorkersCall'
    BY <1>5 DEF IInv, TypeOK, WorkersCall, YieldNow, Executes
  <2>4. OwnFrames'
    BY <1>5 DEF IInv, TypeOK, Inside, InKernel, OwnFrames, YieldNow, Executes
  <2>5. YieldKept'
    BY <1>5 DEF IInv, TypeOK, YieldKept, YieldNow, Executes
  <2> QED
    BY <2>1, <2>2, <2>3, <2>4, <2>5 DEF IInv
<1>6. ASSUME NEW c \in Core, Ipi(c) PROVE IInv'
  <2>1. TypeOK'
    BY <1>6 DEF IInv, TypeOK, WorkersCall, Ipi, Interruptible, Handle
  <2>2. Inside'
    BY <1>6 DEF IInv, TypeOK, WorkersCall, Inside, OwnFrames, InKernel, Masked,
       LockFree, Ipi, Interruptible, Handle
  <2>3. WorkersCall'
    BY <1>6 DEF IInv, TypeOK, WorkersCall, Ipi, Interruptible, Handle
  <2>4. OwnFrames'
    BY <1>6 DEF IInv, TypeOK, Inside, InKernel, OwnFrames, Ipi, Interruptible, Handle
  <2>5. YieldKept'
    BY <1>6 DEF IInv, TypeOK, YieldKept, Ipi, Interruptible, Handle
  <2> QED
    BY <2>1, <2>2, <2>3, <2>4, <2>5 DEF IInv
<1>7. ASSUME NEW c \in Core, Software0(c) PROVE IInv'
  <2>1. TypeOK'
    BY <1>7 DEF IInv, TypeOK, WorkersCall, Software0, Enter, LockFree, Interruptible,
       Handle
  <2>2. Inside'
    BY <1>7 DEF IInv, TypeOK, WorkersCall, Inside, OwnFrames, InKernel, Masked,
       LockFree, Software0, Enter, LockFree, Interruptible, Handle
  <2>3. WorkersCall'
    BY <1>7 DEF IInv, TypeOK, WorkersCall, Software0, Enter, LockFree, Interruptible,
       Handle
  <2>4. OwnFrames'
    BY <1>7 DEF IInv, TypeOK, Inside, InKernel, OwnFrames, Software0, Enter, LockFree,
       Interruptible, Handle
  <2>5. YieldKept'
    BY <1>7 DEF IInv, TypeOK, YieldKept, Software0, Enter, LockFree, Interruptible,
       Handle
  <2> QED
    BY <2>1, <2>2, <2>3, <2>4, <2>5 DEF IInv
<1>8. ASSUME NEW c \in Core, Tick(c) PROVE IInv'
  <2>1. TypeOK'
    BY <1>8 DEF IInv, TypeOK, WorkersCall, Tick, Enter, LockFree, Interruptible, Handle
  <2>2. Inside'
    BY <1>8 DEF IInv, TypeOK, WorkersCall, Inside, OwnFrames, InKernel, Masked,
       LockFree, Tick, Enter, LockFree, Interruptible, Handle
  <2>3. WorkersCall'
    BY <1>8 DEF IInv, TypeOK, WorkersCall, Tick, Enter, LockFree, Interruptible, Handle
  <2>4. OwnFrames'
    BY <1>8 DEF IInv, TypeOK, Inside, InKernel, OwnFrames, Tick, Enter, LockFree,
       Interruptible, Handle
  <2>5. YieldKept'
    BY <1>8 DEF IInv, TypeOK, YieldKept, Tick, Enter, LockFree, Interruptible, Handle
  <2> QED
    BY <2>1, <2>2, <2>3, <2>4, <2>5 DEF IInv
<1>9. ASSUME NEW c \in Core, HandlerSpin(c, "switch", "switching") PROVE IInv'
  <2>1. TypeOK'
    BY <1>9 DEF IInv, TypeOK, WorkersCall, HandlerSpin, Interruptible, Handle
  <2>2. Inside'
    BY <1>9 DEF IInv, TypeOK, WorkersCall, Inside, OwnFrames, InKernel, Masked,
       LockFree, HandlerSpin, Interruptible, Handle
  <2>3. WorkersCall'
    BY <1>9 DEF IInv, TypeOK, WorkersCall, HandlerSpin, Interruptible, Handle
  <2>4. OwnFrames'
    BY <1>9 DEF IInv, TypeOK, Inside, InKernel, OwnFrames, HandlerSpin, Interruptible,
       Handle
  <2>5. YieldKept'
    BY <1>9 DEF IInv, TypeOK, YieldKept, HandlerSpin, Interruptible, Handle
  <2> QED
    BY <2>1, <2>2, <2>3, <2>4, <2>5 DEF IInv
<1>10. ASSUME NEW c \in Core, HandlerSpin(c, "tick", "ticking") PROVE IInv'
  <2>1. TypeOK'
    BY <1>10 DEF IInv, TypeOK, WorkersCall, HandlerSpin, Interruptible, Handle
  <2>2. Inside'
    BY <1>10 DEF IInv, TypeOK, WorkersCall, Inside, OwnFrames, InKernel, Masked,
       LockFree, HandlerSpin, Interruptible, Handle
  <2>3. WorkersCall'
    BY <1>10 DEF IInv, TypeOK, WorkersCall, HandlerSpin, Interruptible, Handle
  <2>4. OwnFrames'
    BY <1>10 DEF IInv, TypeOK, Inside, InKernel, OwnFrames, HandlerSpin, Interruptible,
       Handle
  <2>5. YieldKept'
    BY <1>10 DEF IInv, TypeOK, YieldKept, HandlerSpin, Interruptible, Handle
  <2> QED
    BY <2>1, <2>2, <2>3, <2>4, <2>5 DEF IInv
<1>11. ASSUME NEW c \in Core, Decide(c) PROVE IInv'
  <2>1. TypeOK'
    BY <1>11 DEF IInv, TypeOK, WorkersCall, Decide, HeldForTheCopy, Choice, Elsewhere,
       Ready, Interruptible, Handle
  <2>2. Inside'
    BY <1>11 DEF IInv, TypeOK, WorkersCall, Inside, OwnFrames, InKernel, Masked,
       LockFree, Decide, HeldForTheCopy, Choice, Elsewhere, Ready, Interruptible, Handle
  <2>3. WorkersCall'
    BY <1>11 DEF IInv, TypeOK, WorkersCall, Decide, HeldForTheCopy, Choice, Elsewhere,
       Ready, Interruptible, Handle
  <2>4. OwnFrames'
    BY <1>11 DEF IInv, TypeOK, Inside, InKernel, OwnFrames, Decide, HeldForTheCopy,
       Choice, Elsewhere, Ready, Interruptible, Handle
  <2>5. YieldKept'
    BY <1>11 DEF IInv, TypeOK, YieldKept, Decide, HeldForTheCopy, Choice, Elsewhere,
       Ready, Interruptible, Handle
  <2> QED
    BY <2>1, <2>2, <2>3, <2>4, <2>5 DEF IInv
<1>12. ASSUME NEW c \in Core, CopyContexts(c) PROVE IInv'
  <2>1. TypeOK'
    BY <1>12 DEF IInv, TypeOK, WorkersCall, CopyContexts, Interruptible, Handle
  <2>2. Inside'
    BY <1>12 DEF IInv, TypeOK, WorkersCall, Inside, OwnFrames, InKernel, Masked,
       LockFree, CopyContexts, Interruptible, Handle
  <2>3. WorkersCall'
    BY <1>12 DEF IInv, TypeOK, WorkersCall, CopyContexts, Interruptible, Handle
  <2>4. OwnFrames'
    BY <1>12 DEF IInv, TypeOK, Inside, InKernel, OwnFrames, CopyContexts,
       Interruptible, Handle
  <2>5. YieldKept'
    BY <1>12 DEF IInv, TypeOK, YieldKept, CopyContexts, Interruptible, Handle
  <2> QED
    BY <2>1, <2>2, <2>3, <2>4, <2>5 DEF IInv
<1>13. ASSUME NEW c \in Core, IncrementTick(c) PROVE IInv'
  <2> DEFINE f == c
  <2>0. c \in Core /\ f \in Frame \cup Core /\ owed[f] = {}
    BY <1>13 DEF IInv, YieldKept, IncrementTick
  <2> DEFINE Effect ==
               /\ parked' \subseteq Worker /\ again' \subseteq Worker
               /\ asked' \in SUBSET Core /\ asked \subseteq asked'
               /\ pend' \in [Core -> BOOLEAN] /\ \A d \in Core : pend[d] => pend'[d]
               /\ owed' \in [Frame \cup Core -> SUBSET Core]
               /\ \A g \in Frame \cup Core : g # f => owed'[g] = owed[g]
               /\ \A d \in asked' : d \in asked \/ pend'[d] \/ d \in owed'[f]
  <2>1. Effect
    <3>1. ASSUME NEW w \in parked, parked' = parked \ {w}, Wakes(c, c, w) PROVE Effect
      <4>1. w \in Worker /\ TypeOK /\ parked' \subseteq Worker
        BY <3>1 DEF IInv, TypeOK
      <4>2. again' \subseteq Worker
        BY <1>13 DEF IInv, TypeOK, IncrementTick
      <4> QED
        BY <2>0, <3>1, <4>1, <4>2, WakesEffect
    <3>2. CASE UNCHANGED <<parked, asked, owed>> /\ pend' = [pend EXCEPT ![c] = TRUE]
      BY <1>13, <2>0, <3>2 DEF IInv, TypeOK, IncrementTick
    <3> QED
      BY <1>13, <3>1, <3>2 DEF IncrementTick
  <2> HIDE DEF Effect
  <2>2. TypeOK'
    BY <1>13, <2>0, <2>1 DEF IInv, TypeOK, Effect, IncrementTick, Handle
  <2>3. Inside'
    BY <1>13, <2>0 DEF IInv, TypeOK, WorkersCall, Inside, OwnFrames, InKernel, Masked,
       LockFree, IncrementTick, Handle
  <2>4. WorkersCall'
    BY <1>13, <2>0 DEF IInv, TypeOK, WorkersCall, IncrementTick, Handle
  <2>5. OwnFrames'
    BY <1>13 DEF IInv, TypeOK, Inside, InKernel, OwnFrames, IncrementTick, Handle
  <2>6. YieldKept'
    <3>1. \A g \in Frame : owed'[g] # {} => tpc'[g] = "out"
      BY <1>13, <2>0, <2>1 DEF IInv, TypeOK, YieldKept, Effect, IncrementTick, Handle
    <3>2. \A d \in Core : owed'[d] # {} => handler'[d] = "raise"
      BY <1>13, <2>0, <2>1 DEF IInv, TypeOK, YieldKept, Effect, IncrementTick, Handle
    <3>3. \A d \in Core : handler[d] \in {"switch", "switching"} => handler'[d] = handler[d]
      BY <1>13 DEF IInv, TypeOK, IncrementTick, Handle
    <3>4. UNCHANGED ipi /\ asked' \subseteq Core
      BY <1>13, <2>1 DEF Effect, IncrementTick, Handle
    <3>5. ASSUME NEW d \in asked'
          PROVE  \/ pend'[d] \/ ipi'[d] \/ handler'[d] \in {"switch", "switching"}
                 \/ \E g \in Frame \cup Core : d \in owed'[g]
      <4>1. CASE d \in asked
        <5>1. CASE pend[d] \/ ipi[d] \/ handler[d] \in {"switch", "switching"}
          BY <5>1, <2>1, <3>3, <3>4 DEF Effect
        <5>2. ASSUME NEW g \in Frame \cup Core, d \in owed[g] PROVE d \in owed'[g]
          BY <5>2, <2>0, <2>1 DEF Effect
        <5> QED
          BY <4>1, <5>1, <5>2 DEF IInv, YieldKept
      <4>2. CASE d \notin asked
        BY <4>2, <2>0, <2>1 DEF Effect
      <4> QED
        BY <4>1, <4>2
    <3> QED
      BY <3>1, <3>2, <3>5 DEF YieldKept
  <2> QED
    BY <2>2, <2>3, <2>4, <2>5, <2>6 DEF IInv
<1>14. ASSUME NEW c \in Core, HandlerRaises(c) PROVE IInv'
  <2>1. TypeOK'
    BY <1>14 DEF IInv, TypeOK, WorkersCall, HandlerRaises, Interruptible, Handle
  <2>2. Inside'
    BY <1>14 DEF IInv, TypeOK, WorkersCall, Inside, OwnFrames, InKernel, Masked,
       LockFree, HandlerRaises, Interruptible, Handle
  <2>3. WorkersCall'
    BY <1>14 DEF IInv, TypeOK, WorkersCall, HandlerRaises, Interruptible, Handle
  <2>4. OwnFrames'
    BY <1>14 DEF IInv, TypeOK, Inside, InKernel, OwnFrames, HandlerRaises,
       Interruptible, Handle
  <2>5. YieldKept'
    <3>1. \A g \in Frame \cup Core : owed'[g] = IF g = c THEN {} ELSE owed[g]
      BY <1>14 DEF IInv, TypeOK, HandlerRaises, Interruptible, Handle
    <3>2. \A d \in Core : ipi'[d] = (ipi[d] \/ d \in owed[c])
      BY <1>14 DEF IInv, TypeOK, HandlerRaises, Interruptible, Handle
    <3>3. \A g \in Frame : owed'[g] # {} => tpc'[g] = "out"
      BY <1>14, <3>1 DEF IInv, TypeOK, YieldKept, HandlerRaises, Interruptible, Handle
    <3>4. \A d \in Core : owed'[d] # {} => handler'[d] = "raise"
      BY <1>14, <3>1 DEF IInv, TypeOK, YieldKept, HandlerRaises, Interruptible, Handle
    <3>5. \A d \in Core : handler[d] \in {"switch", "switching"} => handler'[d] = handler[d]
      BY <1>14 DEF IInv, TypeOK, HandlerRaises, Interruptible, Handle
    <3>6. asked' = asked /\ asked \subseteq Core /\ pend' = pend
      BY <1>14 DEF IInv, TypeOK, HandlerRaises, Interruptible, Handle
    <3>7. ASSUME NEW d \in asked
          PROVE  \/ pend'[d] \/ ipi'[d] \/ handler'[d] \in {"switch", "switching"}
                 \/ \E g \in Frame \cup Core : d \in owed'[g]
      <4>1. CASE pend[d] \/ ipi[d] \/ handler[d] \in {"switch", "switching"}
        BY <4>1, <3>2, <3>5, <3>6
      <4>2. ASSUME NEW g \in Frame \cup Core, d \in owed[g]
            PROVE  ipi'[d] \/ d \in owed'[g]
        BY <4>2, <3>1, <3>2, <3>6
      <4> QED
        BY <4>1, <4>2 DEF IInv, YieldKept
    <3> QED
      BY <3>3, <3>4, <3>6, <3>7 DEF YieldKept
  <2> QED
    BY <2>1, <2>2, <2>3, <2>4, <2>5 DEF IInv
<1>15. ASSUME UNCHANGED vars PROVE IInv'
    BY <1>15 DEF IInv, TypeOK, Inside, WorkersCall, OwnFrames, YieldKept, Masked,
       InKernel, vars
<1> QED
    BY <1>1, <1>2, <1>3, <1>4, <1>5, <1>6, <1>7, <1>8, <1>9, <1>10, <1>11, <1>12,
       <1>13, <1>14, <1>15 DEF Next, Progress, HandlerStep, TaskStep

\* IInv holds in every reachable state.
LEMMA Invariance == Spec => []IInv
<1>1. Init => IInv
    BY InitInv
<1>2. IInv /\ [Next]_vars => IInv'
    BY StepInv
<1> QED
    BY <1>1, <1>2, PTL DEF Spec

-----------------------------------------------------------------------------
\* The lock, the requests and every core's place in its handlers keep their
\* types.
THEOREM TypeCorrect == Spec => []TypeOK
<1>1. IInv => TypeOK
    BY DEF IInv
<1> QED
    BY Invariance, <1>1, PTL

\* with_kernel, LOCK: the core that is inside the kernel is the one that holds
\* the lock, so no two are, however many cores spin and are interrupted.
THEOREM KernelExclusion == Spec => []OneCoreInKernel
<1>1. IInv => OneCoreInKernel
    BY DEF IInv, Inside, OneCoreInKernel
<1> QED
    BY Invariance, <1>1, PTL

\* switching_interrupt: a task is never loaded on a core while another still
\* has it in its registers, since the copy is done before the lock is released.
THEOREM ContextExclusion == Spec => []TaskOnOneCore
<1>1. IInv => TaskOnOneCore
    BY DEF IInv, OwnFrames, TaskOnOneCore
<1> QED
    BY Invariance, <1>1, PTL

\* raise_core_yields: a core the kernel told to yield has its request pending,
\* or the task that asked for it has still to raise it.
THEOREM YieldsArrive == Spec => []NoYieldLost
<1>1. ASSUME IInv, NEW c \in asked PROVE YieldOnItsWay(c) \/ \E t \in Worker : c \in owed[t]
  <2>1. CASE pend[c] \/ ipi[c] \/ handler[c] \in {"switch", "switching"}
    BY <2>1 DEF YieldOnItsWay
  <2>2. ASSUME NEW f \in Frame \cup Core, c \in owed[f]
        PROVE  YieldOnItsWay(c) \/ \E t \in Worker : c \in owed[t]
    <3>1. CASE f \in Core
      BY <2>2, <3>1 DEF YieldOnItsWay
    <3>2. CASE f \in Frame
      <4>1. tpc[f] = "out"
        BY <1>1, <2>2, <3>2 DEF IInv, YieldKept
      <4>2. f \in Worker
        BY <1>1, <3>2, <4>1 DEF IInv, WorkersCall
      <4> QED
        BY <2>2, <4>2
    <3> QED
      BY <3>1, <3>2
  <2> QED
    BY <1>1, <2>1, <2>2 DEF IInv, YieldKept
<1>2. IInv => NoYieldLost
    BY <1>1 DEF NoYieldLost
<1> QED
    BY Invariance, <1>2, PTL

=============================================================================

----------------------------- MODULE NestedIrq -----------------------------
(***************************************************************************)
(* Interrupts of two levels inside one kernel on one core                  *)
(* (firmware/xiao-s3-nested, on crates/rusty_rtos_port-xtensa).  low, the  *)
(* tick and the switch are of level 1, high is of level 3 and interrupts   *)
(* them; every kernel entry raises PS.INTLEVEL to 3 and restores what it   *)
(* found.  low and high send to from_isr, a task receives; a task sends to *)
(* to_isr, low receives.  The kernel is external: two queues, three tasks. *)
(***************************************************************************)
EXTENDS Naturals, Sequences, FiniteSets

CONSTANTS Cap,      \* QUEUE_LEN
          MaxSent   \* bound: what each interrupt sends

Source == {"low", "high"}
Handler == Source \cup {"tick", "switch"}
Task == {"consumer", "producer", "idle"}
Rank(t) == CASE t = "consumer" -> 2 [] t = "producer" -> 1 [] OTHER -> 0
LevelOf(h) == IF h = "high" THEN 3 ELSE 1

VARIABLES
    level,              \* PS.INTLEVEL
    nest,               \* the frames on the core: a task's, then the handlers'
    contexts,           \* CONTEXTS_STORE: the frames of the other tasks
    pend,               \* Software0
    selected, parked,   \* kernel: its current task, the tasks that wait
    fromIsr, toIsr,     \* kernel: the queues, the second one as its length
    sent, refused, received

machine == <<level, nest, contexts, pend>>
kernel == <<selected, parked, fromIsr, toIsr>>
counts == <<sent, refused, received>>
vars == <<machine, kernel, counts>>

\* ps: what mask() gave back; under: the level the frame interrupted.
Frame(who, pc, under) ==
    [who |-> who, pc |-> pc, under |-> under, ps |-> 0, seq |-> 0, wake |-> FALSE]

Init ==
    /\ level = 0 /\ nest = <<Frame("boot", "run", 0)>> /\ pend = TRUE
    /\ contexts = [t \in Task |-> Frame(t, "run", 0)]
    /\ selected = "consumer" /\ parked = {}
    /\ fromIsr = <<>> /\ toIsr = 0
    /\ sent = [s \in Source |-> 0] /\ refused = sent
    /\ received = [s \in Source |-> <<>>]

Top == nest[Len(nest)]
At(who, pc) == Top.who = who /\ Top.pc = pc
Becomes(f) == nest' = [nest EXCEPT ![Len(nest)] = f]
Goto(pc) == Becomes([Top EXCEPT !.pc = pc])

-----------------------------------------------------------------------------
(* Interrupts.                                                             *)

\* Where a handler starts.
Entry(h) == CASE h \in Source -> "count" [] h = "tick" -> "toTick" [] OTHER -> "clear"

Interrupt(h) ==
    /\ LevelOf(h) > level
    /\ h \in Source => sent[h] < MaxSent
    /\ h = "switch" => pend
    /\ nest' = Append(nest, Frame(h, Entry(h), level))
    /\ level' = LevelOf(h)
    /\ UNCHANGED <<contexts, pend, kernel, counts>>

\* Mutant: the switch request is cleared on the way out.
RequestAtExit_Cleared(f) == f.who # "switch" /\ (pend \/ f.wake)
RequestAtExit(f) == pend \/ f.wake

\* A handler asks for the switch if it woke someone, and returns.
Return ==
    /\ Top.who \in Handler /\ Top.pc = "end"
    /\ pend' = RequestAtExit(Top)
    /\ level' = Top.under
    /\ nest' = SubSeq(nest, 1, Len(nest) - 1)
    /\ UNCHANGED <<contexts, kernel, counts>>

\* low_isr and high_isr number the value before they mask.
Count(s) ==
    /\ At(s, "count")
    /\ sent' = [sent EXCEPT ![s] = @ + 1]
    /\ Becomes([Top EXCEPT !.pc = "toSend", !.seq = sent[s]])
    /\ UNCHANGED <<level, contexts, pend, kernel, refused, received>>

\* The switching interrupt acknowledges its request first.
Clear ==
    /\ At("switch", "clear") /\ Goto("toSwitch")
    /\ pend' = FALSE
    /\ UNCHANGED <<level, contexts, kernel, counts>>

-----------------------------------------------------------------------------
(* with_kernel: the mask, the section, the restored level.                 *)

Sections == [toSend |-> "send", toReceive |-> "receive", toTick |-> "tick",
             toSwitch |-> "switch", run |-> "call"]

\* Mutant: low enters as it is, because an interrupt has exclusivity.
MaskLevel_Own == IF Top.who = "low" /\ Top.pc = "toSend" THEN level ELSE 3
MaskLevel == 3

\* rsil: the old PS is kept, the level raised.
Mask ==
    /\ Top.pc \in DOMAIN Sections /\ Top.who \notin {"boot", "idle"}
    /\ Becomes([Top EXCEPT !.pc = Sections[@], !.ps = level])
    /\ level' = MaskLevel
    /\ UNCHANGED <<contexts, pend, kernel, counts>>

\* Mutant: interrupts are enabled on the way out.
Unmask_Enables(to, woke) ==
    /\ level' = 0
    /\ Becomes([Top EXCEPT !.pc = to, !.wake = @ \/ woke])

\* wsr.ps, and on to what follows the section.
Unmask(to, woke) ==
    /\ level' = Top.ps
    /\ Becomes([Top EXCEPT !.pc = to, !.wake = @ \/ woke])

Outranks(t) == Rank(t) > Rank(selected)

\* t, if it waits, is ready again.
Readies(t) == parked' = parked \ {t}
Wakes(t) == t \in parked /\ Outranks(t)

\* queue_send_from_isr.
Send(s) ==
    /\ At(s, "send")
    /\ LET to == IF s = "low" THEN "toReceive" ELSE "end"
       IN  IF Len(fromIsr) < Cap
           THEN /\ fromIsr' = Append(fromIsr, <<s, Top.seq>>)
                /\ Readies("consumer") /\ UNCHANGED refused
                /\ Unmask(to, Wakes("consumer"))
           ELSE /\ refused' = [refused EXCEPT ![s] = @ + 1]
                /\ UNCHANGED <<fromIsr, parked>>
                /\ Unmask(to, FALSE)
    /\ UNCHANGED <<contexts, pend, selected, toIsr, sent, received>>

\* low receives what the producer sent, if there is any.
Receive ==
    /\ At("low", "receive")
    /\ IF toIsr > 0
       THEN /\ toIsr' = toIsr - 1 /\ Readies("producer")
            /\ Unmask("end", Wakes("producer"))
       ELSE /\ UNCHANGED <<toIsr, parked>> /\ Unmask("end", FALSE)
    /\ UNCHANGED <<contexts, pend, selected, fromIsr, counts>>

\* increment_tick: a timeout ends, or not.
Tick ==
    /\ At("tick", "tick")
    /\ \/ UNCHANGED parked /\ Unmask("end", FALSE)
       \/ \E t \in parked : Readies(t) /\ Unmask("end", Wakes(t))
    /\ UNCHANGED <<contexts, pend, selected, fromIsr, toIsr, counts>>

MostUrgent == CHOOSE t \in Task \ parked : \A u \in Task \ parked : Rank(t) >= Rank(u)

\* switch_context, of the kernel and of the port: the task's frame is stored
\* and the selected one's takes its place under the handler.
Switch ==
    /\ At("switch", "switch")
    /\ LET from == nest[1].who
           handler == [Top EXCEPT !.pc = "end"]
       IN  /\ selected' = MostUrgent
           /\ IF from = MostUrgent
              THEN nest' = <<nest[1], handler>> /\ UNCHANGED contexts
              ELSE /\ nest' = <<contexts[MostUrgent], handler>>
                   /\ contexts' = IF from = "boot" THEN contexts
                                  ELSE [contexts EXCEPT ![from] = nest[1]]
    /\ level' = Top.ps
    /\ UNCHANGED <<pend, parked, fromIsr, toIsr, counts>>

-----------------------------------------------------------------------------
(* Tasks.                                                                  *)

\* The kernel parks its current task and asks for the switch.
Park(t) ==
    /\ parked' = parked \cup {selected}
    /\ Unmask("yield", FALSE)
    /\ pend' = TRUE

\* task_consumer: the value is checked against the last of its source.
Consume ==
    /\ At("consumer", "call")
    /\ IF fromIsr = <<>> THEN Park("consumer") /\ UNCHANGED <<fromIsr, received>>
       ELSE /\ LET s == Head(fromIsr)[1] IN received' = [received EXCEPT ![s] = Append(@, Head(fromIsr)[2])]
            /\ fromIsr' = Tail(fromIsr)
            /\ Unmask("run", FALSE)
            /\ UNCHANGED <<parked, pend>>
    /\ UNCHANGED <<contexts, selected, toIsr, sent, refused>>

\* task_producer, and its queue_send.
Produce ==
    /\ At("producer", "call")
    /\ IF toIsr = Cap THEN Park("producer") /\ UNCHANGED toIsr
       ELSE /\ toIsr' = toIsr + 1
            /\ Unmask("run", FALSE)
            /\ UNCHANGED <<parked, pend>>
    /\ UNCHANGED <<contexts, selected, fromIsr, counts>>

YieldNow ==
    /\ Top.who \in Task /\ Top.pc = "yield" /\ Goto("run")
    /\ pend' = TRUE
    /\ UNCHANGED <<level, contexts, kernel, counts>>

Next ==
    \/ \E h \in Handler : Interrupt(h)
    \/ Return \/ Clear \/ Mask \/ Receive \/ Tick \/ Switch
    \/ \E s \in Source : Count(s) \/ Send(s)
    \/ Consume \/ Produce \/ YieldNow

Spec == Init /\ [][Next]_vars

-----------------------------------------------------------------------------

Inside(f) == \E p \in DOMAIN Sections : f.pc = Sections[p]

\* No interrupt is taken inside a kernel section, and no handler interrupts
\* itself: one frame at most is inside, the top one, and each handler is on
\* the core once (with_kernel; "a high arriving while low was INSIDE a kernel
\* section would be a defect").
KernelExclusive ==
    /\ \A i \in DOMAIN nest : Inside(nest[i]) => i = Len(nest)
    /\ \A i, j \in DOMAIN nest : i # j => nest[i].who # nest[j].who

InFlight(s) == {i \in DOMAIN nest : nest[i].who = s /\ nest[i].pc \in {"toSend", "send"}}
QueuedFrom(s) == {i \in DOMAIN fromIsr : fromIsr[i][1] = s}

\* Every value a source numbered was received, was refused as full, is queued
\* or is on its way; and what is received of a source comes in its order, the
\* queued values after the received ones.
Accounted ==
    \A s \in Source :
        /\ sent[s] = Len(received[s]) + refused[s] + Cardinality(QueuedFrom(s))
                        + (IF InFlight(s) = {} THEN 0 ELSE 1)
        /\ \A i, j \in DOMAIN received[s] : i < j => received[s][i] < received[s][j]
        /\ \A i, j \in QueuedFrom(s) : i < j => fromIsr[i][2] < fromIsr[j][2]
        /\ \A i \in DOMAIN received[s], j \in QueuedFrom(s) : received[s][i] < fromIsr[j][2]

\* A task more urgent than the selected one is about to run: the switch is
\* requested, a handler on the core will ask for it, or the switch is at work.
NoSwitchLost ==
    (\E t \in Task \ parked : Outranks(t)) =>
        \/ pend
        \/ \E i \in DOMAIN nest :
            nest[i].wake \/ (nest[i].who = "switch" /\ nest[i].pc \in {"toSwitch", "switch"})

=============================================================================

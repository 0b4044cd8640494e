---------------------------- MODULE BatchSystem ----------------------------
(***************************************************************************)
(* The poll loop of batch_system/src/batch.rs: pollers share one scheduler *)
(* channel, collect FSMs into a batch, handle them, and release, remove or *)
(* reschedule them by index.  A mailbox is atomic here, but for the gap in *)
(* Batch::release between giving the FSM back and looking at the channel;  *)
(* FsmState models the mailbox itself and shows that it may be seen so.    *)
(***************************************************************************)
EXTENDS Integers, Sequences, FiniteSets

CONSTANTS Normals,    \* the normal FSMs
          Pollers,    \* the threads of the pool
          MaxBatch,   \* Poller::max_batch_size
          Markers,    \* Empty markers a shutdown sends (200 in the code)
          MaxMail     \* bound on the messages sent

Control == "control"
Empty   == "empty"
Fsms == Normals \cup {Control}

\* "any number greater than poll pool size works" (batch.rs:61)
ASSUME MarkersAssumption == Markers \in Nat /\ Markers >= Cardinality(Pollers)
ASSUME BatchAssumption == MaxBatch \in Nat \ {0} /\ MaxMail \in Nat
ASSUME NormalsAssumption == Control \notin Normals /\ Empty \notin Normals

VARIABLES
  chan,     \* the scheduler channel
  mail,     \* messages in each FSM's channel
  sends,    \* messages sent so far, for the bound
  idle,     \* the FSMs in their mailbox's slot
  closed,   \* the FSMs whose mailbox is closed
  stopped,  \* the FSMs whose is_stopped holds
  shut,     \* progress of broadcast_shutdown: "up", "closed", "marked"
  pc,       \* program counter of each poller
  normals,  \* Batch::normals
  timers,   \* length of Batch::timers
  control,  \* Batch::control is Some
  maxb,     \* the round's max_batch_size
  run,      \* the loop variable of the same name
  i,        \* index of the normal being handled, or released
  hot,      \* hot_fsm_count
  marks,    \* reschedule_fsms
  held,     \* the entry of marks being processed between release and the check
  panicked  \* an assert! or an index out of bounds was reached

vars == <<chan, mail, sends, idle, closed, stopped, shut, pc, normals, timers,
          control, maxb, run, i, hot, marks, held, panicked>>

boxes == <<mail, sends, idle, closed, stopped>>
locals == <<maxb, run, i, hot, marks, held>>

Policies == {"Release", "Remove", "Schedule"}
None == -1   \* a handler's return of None
MarkType == [index : Nat \ {0}, policy : Policies, len : Nat, fsm : Normals]

BoxType ==
  /\ chan \in Seq(Fsms \cup {Empty})
  /\ mail \in [Fsms -> Nat] /\ sends \in 0 .. MaxMail
  /\ idle \subseteq Fsms /\ closed \subseteq Fsms /\ stopped \subseteq closed
  /\ shut \in {"up", "closed", "marked"}
RoundType ==
  /\ pc \in [Pollers -> {"fetch", "control", "crelease", "ccheck", "normals", "more",
                         "resched", "check", "exit"}]
  /\ normals \in [Pollers -> Seq(Normals)]
  /\ timers \in [Pollers -> Nat] /\ control \in [Pollers -> BOOLEAN]
  /\ maxb \in [Pollers -> Nat] /\ run \in [Pollers -> BOOLEAN]
  /\ i \in [Pollers -> Nat \ {0}] /\ hot \in [Pollers -> Nat]
  /\ marks \in [Pollers -> Seq(MarkType)] /\ held \in [Pollers -> Seq(MarkType)]
TypeOK == BoxType /\ RoundType

Init ==
  /\ chan = <<>> /\ shut = "up" /\ panicked = FALSE
  /\ mail = [f \in Fsms |-> 0] /\ sends = 0
  /\ idle = Fsms /\ closed = {} /\ stopped = {}
  /\ pc = [p \in Pollers |-> "fetch"]
  /\ normals = [p \in Pollers |-> <<>>] /\ timers = [p \in Pollers |-> 0]
  /\ control = [p \in Pollers |-> FALSE]
  /\ maxb = [p \in Pollers |-> MaxBatch] /\ run = [p \in Pollers |-> TRUE]
  /\ i = [p \in Pollers |-> 1] /\ hot = [p \in Pollers |-> 0]
  /\ marks = [p \in Pollers |-> <<>>] /\ held = [p \in Pollers |-> <<>>]

Set(f, p, v) == [f EXCEPT ![p] = v]
Goto(p, from, to) == pc[p] = from /\ pc' = Set(pc, p, to)

\* Vec::pop: what it leaves, and what it returns.
Front(s) == SubSeq(s, 1, Len(s) - 1)
Last(s) == s[Len(s)]
\* Vec::swap_remove(k): the last element takes the place of the k-th.
SwapRemove(s, k) == IF k = Len(s) THEN Front(s) ELSE Front([s EXCEPT ![k] = Last(s)])
\* push, then swap with the k-th.
PutBack(s, k, x) ==
  IF k > Len(s) THEN Append(s, x) ELSE Append([s EXCEPT ![k] = x], s[k])
-----------------------------------------------------------------------------
(***************************************************************************)
(* The outside: sends, closes, and broadcast_shutdown.                     *)
(***************************************************************************)
\* force_lightlike or try_lightlike, and the notify that follows.
Send(f) ==
  /\ f \notin closed /\ sends < MaxMail
  /\ sends' = sends + 1
  /\ mail' = Set(mail, f, mail[f] + 1)
  /\ idle' = idle \ {f}
  /\ chan' = IF f \in idle THEN Append(chan, f) ELSE chan
  /\ UNCHANGED <<closed, stopped, shut, pc, normals, timers, control, locals, panicked>>

\* Router::close: an idle FSM is dropped at once.
Close(f) ==
  /\ f \in Normals \ closed
  /\ closed' = closed \cup {f}
  /\ idle' = idle \ {f}
  /\ mail' = IF f \in idle THEN Set(mail, f, 0) ELSE mail
  /\ UNCHANGED <<chan, sends, stopped, shut, pc, normals, timers, control, locals, panicked>>

\* broadcast_shutdown closes every mailbox, the control box last ...
CloseAll ==
  /\ shut = "up" /\ shut' = "closed"
  /\ closed' = Fsms /\ idle' = {}
  /\ mail' = [f \in Fsms |-> IF f \in idle THEN 0 ELSE mail[f]]
  /\ UNCHANGED <<chan, sends, stopped, pc, normals, timers, control, locals, panicked>>

\* ... and then both schedulers send their Empty markers.
SendMarkers ==
  /\ shut = "closed" /\ shut' = "marked"
  /\ chan' = chan \o [k \in 1 .. Markers |-> Empty]
  /\ UNCHANGED <<boxes, pc, normals, timers, control, locals, panicked>>
-----------------------------------------------------------------------------
(***************************************************************************)
(* One round of the poll loop.                                             *)
(***************************************************************************)
\* Batch::clear: the FSMs of the batch are dropped, their mail with them.
Exit(p) ==
  /\ pc' = Set(pc, p, "exit")
  /\ normals' = Set(normals, p, <<>>) /\ timers' = Set(timers, p, 0)
  /\ control' = Set(control, p, FALSE)

\* Batch::push of the head of the channel, which is not a marker.
PushHead(p) ==
  IF Head(chan) = Control
  THEN /\ panicked' = (panicked \/ control[p])
       /\ control' = Set(control, p, TRUE)
       /\ UNCHANGED <<normals, timers>>
  ELSE /\ normals' = Set(normals, p, Append(normals[p], Head(chan)))
       /\ timers' = Set(timers, p, timers[p] + 1)
       /\ UNCHANGED <<control, panicked>>

\* begin: the round's batch size covers what is already in the batch.
BeginRound(p) ==
  /\ pc' = Set(pc, p, "control")
  /\ maxb' = Set(maxb, p, IF Len(normals'[p]) > MaxBatch THEN Len(normals'[p]) ELSE MaxBatch)
  /\ i' = Set(i, p, 1) /\ hot' = Set(hot, p, 0)
  /\ UNCHANGED <<run, marks, held>>

\* fetch_fsm with something in the channel.
FetchSome(p) ==
  /\ pc[p] = "fetch" /\ ~control[p] /\ chan # <<>>
  /\ chan' = Tail(chan)
  /\ IF Head(chan) = Empty
     THEN Exit(p) /\ UNCHANGED <<locals, panicked>>
     ELSE PushHead(p) /\ BeginRound(p)
  /\ UNCHANGED <<boxes, shut>>

\* Mutated form of FetchNone: a batch that is not empty is polled again without
\* looking at the channel.
FetchNoneFirst(p) ==
  /\ pc[p] = "fetch"
  /\ control[p] \/ normals[p] # <<>>
  /\ UNCHANGED <<normals, timers, control>>
  /\ BeginRound(p)
  /\ UNCHANGED <<chan, boxes, shut, panicked>>

\* fetch_fsm with a control FSM in the batch, or with an empty channel and a
\* batch that is not empty; with both empty it blocks.
FetchNone(p) ==
  /\ pc[p] = "fetch"
  /\ control[p] \/ (chan = <<>> /\ normals[p] # <<>>)
  /\ UNCHANGED <<normals, timers, control>>
  /\ BeginRound(p)
  /\ UNCHANGED <<chan, boxes, shut, panicked>>

\* handle_control, and is_stopped of the FSM after it.
NoControl(p) ==
  /\ ~control[p] /\ Goto(p, "control", "normals")
  /\ UNCHANGED <<chan, boxes, shut, normals, timers, control, locals, panicked>>

\* The round's message limit was reached: None. As many may have been sent meanwhile, which the
\* bound on messages does not count, so that the FSM can stay in the batch for ever.
ControlBusy(p) ==
  /\ control[p] /\ mail[Control] > 0 /\ Goto(p, "control", "normals")
  /\ \E new \in IF Control \in closed THEN {0} ELSE {0, 1} :
       mail' = Set(mail, Control, mail[Control] - 1 + new)
  /\ UNCHANGED <<chan, sends, idle, closed, stopped, shut, normals, timers, control, locals, panicked>>

\* Everything was handled: Some(0).
ControlDone(p) ==
  /\ control[p] /\ Goto(p, "control", "crelease")
  /\ mail' = Set(mail, Control, 0)
  /\ UNCHANGED <<chan, sends, idle, closed, stopped, shut, normals, timers, control, locals, panicked>>

\* release_control gives the FSM back; a closed mailbox drops it, with messages that came after.
ControlRelease(p) ==
  /\ control[p] /\ Goto(p, "crelease", "ccheck")
  /\ control' = Set(control, p, FALSE)
  /\ mail' = IF Control \in closed THEN Set(mail, Control, 0) ELSE mail
  /\ idle' = IF Control \in closed THEN idle ELSE idle \cup {Control}
  /\ UNCHANGED <<chan, sends, closed, stopped, shut, normals, timers, locals, panicked>>

\* Having taken some of its messages the FSM stopped: remove_control drops it if
\* nothing is left in its mailbox.
ControlStop(p) ==
  /\ control[p] /\ Control \in closed /\ Goto(p, "control", "normals")
  /\ \E left \in 0 .. mail[Control] :
       /\ left < mail[Control] \/ left = 0
       /\ mail' = Set(mail, Control, left)
       /\ control' = Set(control, p, left > 0)
  /\ stopped' = stopped \cup {Control}
  /\ UNCHANGED <<chan, sends, idle, closed, shut, normals, timers, locals, panicked>>

\* release_control, after the release: the length check and the take_fsm.
ControlCheck(p) ==
  /\ Goto(p, "ccheck", "normals")
  /\ LET back == mail[Control] # 0 /\ Control \in idle
     IN  /\ control' = Set(control, p, back)
         /\ idle' = IF back THEN idle \ {Control} ELSE idle
  /\ UNCHANGED <<chan, mail, sends, closed, stopped, shut, normals, timers, locals, panicked>>
-----------------------------------------------------------------------------
(***************************************************************************)
(* handle_normal.  What the two handlers of the store can do with an FSM,  *)
(* as <<messages taken, length returned, stopped>>: drain the channel; hit *)
(* the limit of messages; yield; wait for a merge with the length it read; *)
(* handle the message that destroys it.                                    *)
(***************************************************************************)
Outcomes(f) ==
  {<<mail[f], 0, FALSE>>, <<0, None, FALSE>>, <<0, mail[f], FALSE>>}
    \cup (IF mail[f] > 0 THEN {<<1, None, FALSE>>, <<1, None, TRUE>>} ELSE {})

\* The FSM's own effect: a stopped FSM has closed its mailbox.
Handle(f, o) ==
  /\ mail' = Set(mail, f, mail[f] - o[1])
  /\ stopped' = IF o[3] THEN stopped \cup {f} ELSE stopped
  /\ closed' = IF o[3] THEN closed \cup {f} ELSE closed
  /\ UNCHANGED <<sends, idle>>

Mark(f, k, policy, len) == [index |-> k, policy |-> policy, len |-> len, fsm |-> f]

\* The entry pushed for the k-th normal f after outcome o, if any.
MarkOf(f, k, o, cold) ==
  IF o[3] \/ f \in stopped THEN <<Mark(f, k, "Remove", 0)>>
  ELSE IF ~cold THEN <<Mark(f, k, "Schedule", 0)>>
  ELSE IF o[2] # None THEN <<Mark(f, k, "Release", o[2])>>
  ELSE <<>>

\* The loop over the batch; of the FSMs whose timer elapsed every second one is
\* rescheduled.
HandleNormal(p) ==
  /\ pc[p] = "normals" /\ i[p] <= Len(normals[p])
  /\ LET f == normals[p][i[p]]
     IN  \E o \in Outcomes(f), elapsed \in BOOLEAN :
           LET stop == o[3] \/ f \in stopped
               h    == IF elapsed /\ ~stop THEN hot[p] + 1 ELSE hot[p]
               cold == ~(elapsed /\ h % 2 = 0)
           IN  /\ Handle(f, o)
               /\ hot' = Set(hot, p, h)
               /\ marks' = Set(marks, p, marks[p] \o MarkOf(f, i[p], o, cold))
               /\ panicked' = (panicked \/ (~stop /\ i[p] > timers[p]))
  /\ i' = Set(i, p, i[p] + 1)
  /\ UNCHANGED <<chan, shut, pc, normals, timers, control, maxb, run, held>>

NormalsDone(p) ==
  /\ i[p] > Len(normals[p]) /\ Goto(p, "normals", "more")
  /\ UNCHANGED <<chan, boxes, shut, normals, timers, control, locals, panicked>>

\* The loop that takes and handles more FSMs while the batch is not full.
MoreNormal(p) ==
  /\ pc[p] = "more" /\ Len(normals[p]) < maxb[p]
  /\ chan # <<>> /\ Head(chan) \in Normals
  /\ chan' = Tail(chan)
  /\ PushHead(p)
  /\ LET f == Head(chan)
     IN  \E o \in Outcomes(f) :
           /\ Handle(f, o)
           /\ marks' = Set(marks, p, marks[p] \o MarkOf(f, Len(normals[p]) + 1, o, TRUE))
  /\ UNCHANGED <<shut, pc, maxb, run, i, hot, held>>

\* A control FSM or a marker ends that loop.
MoreOther(p) ==
  /\ Len(normals[p]) < maxb[p]
  /\ chan # <<>> /\ Head(chan) \notin Normals
  /\ Goto(p, "more", "resched")
  /\ chan' = Tail(chan)
  /\ IF Head(chan) = Empty
     THEN run' = Set(run, p, FALSE) /\ UNCHANGED <<normals, timers, control, panicked>>
     ELSE PushHead(p) /\ UNCHANGED run
  /\ UNCHANGED <<boxes, shut, maxb, i, hot, marks, held>>

MoreNone(p) ==
  /\ Len(normals[p]) >= maxb[p] \/ chan = <<>>
  /\ Goto(p, "more", "resched")
  /\ UNCHANGED <<chan, boxes, shut, normals, timers, control, locals, panicked>>
-----------------------------------------------------------------------------
(***************************************************************************)
(* The end of the round: reschedule_fsms is popped from its end.           *)
(***************************************************************************)
\* Mutated form of ReleaseNormal: reschedule_fsms is taken from its front.
ReleaseNormalFront(p) ==
  /\ pc[p] = "resched" /\ marks[p] # <<>>
  /\ LET m == Head(marks[p]) IN
       /\ m.policy = "Release"
       /\ LET f == normals[p][m.index] IN
            /\ normals' = Set(normals, p, SwapRemove(normals[p], m.index))
            /\ idle' = IF f \in closed THEN idle ELSE idle \cup {f}
            /\ mail' = IF f \in closed THEN Set(mail, f, 0) ELSE mail
            /\ held' = Set(held, p, <<[m EXCEPT !.fsm = f]>>)
  /\ marks' = Set(marks, p, Tail(marks[p]))
  /\ pc' = Set(pc, p, "check")
  /\ UNCHANGED <<chan, sends, closed, stopped, shut, timers, control, maxb, run, i, hot, panicked>>

\* Batch::release up to mailbox.release(fsm); a closed FSM is dropped by it.
ReleaseNormal(p) ==
  /\ pc[p] = "resched" /\ marks[p] # <<>>
  /\ LET m == Last(marks[p]) IN
       /\ m.policy = "Release"
       /\ LET f == normals[p][m.index] IN
            /\ normals' = Set(normals, p, SwapRemove(normals[p], m.index))
            /\ idle' = IF f \in closed THEN idle ELSE idle \cup {f}
            /\ mail' = IF f \in closed THEN Set(mail, f, 0) ELSE mail
            /\ held' = Set(held, p, <<[m EXCEPT !.fsm = f]>>)
  /\ marks' = Set(marks, p, Front(marks[p]))
  /\ pc' = Set(pc, p, "check")
  /\ UNCHANGED <<chan, sends, closed, stopped, shut, timers, control, maxb, run, i, hot, panicked>>

\* Mutated form of CheckNormal: the FSM is put back although someone else took it.
CheckNormalTwice(p) ==
  /\ Goto(p, "check", "resched")
  /\ LET m == held[p][1]
         same == mail[m.fsm] = m.len
     IN  /\ timers' = IF same THEN Set(timers, p, timers[p] - 1) ELSE timers
         /\ normals' = IF same THEN normals
                       ELSE Set(normals, p, PutBack(normals[p], m.index, m.fsm))
         /\ idle' = IF same THEN idle ELSE idle \ {m.fsm}
  /\ held' = Set(held, p, <<>>)
  /\ UNCHANGED <<chan, mail, sends, closed, stopped, shut, control, maxb, run, i, hot, marks, panicked>>

\* The rest of Batch::release.  When the FSM is taken by someone else between
\* the release and the take_fsm, its timer stays behind.
CheckNormal(p) ==
  /\ Goto(p, "check", "resched")
  /\ LET m == held[p][1]
         same == mail[m.fsm] = m.len
         back == ~same /\ m.fsm \in idle
     IN  /\ timers' = IF same THEN Set(timers, p, timers[p] - 1) ELSE timers
         /\ normals' = IF back THEN Set(normals, p, PutBack(normals[p], m.index, m.fsm))
                               ELSE normals
         /\ idle' = IF back THEN idle \ {m.fsm} ELSE idle
         /\ panicked' = (panicked \/ (same /\ m.index > timers[p]))
  /\ held' = Set(held, p, <<>>)
  /\ UNCHANGED <<chan, mail, sends, closed, stopped, shut, control, maxb, run, i, hot, marks>>

\* Batch::remove: a stopped FSM goes, unless its mailbox still holds messages.
RemoveNormal(p) ==
  /\ pc[p] = "resched" /\ marks[p] # <<>>
  /\ LET m == Last(marks[p])
         f == normals[p][m.index]
     IN  /\ m.policy = "Remove"
         /\ IF mail[f] = 0
            THEN /\ normals' = Set(normals, p, SwapRemove(normals[p], m.index))
                 /\ timers' = Set(timers, p, timers[p] - 1)
                 /\ idle' = IF f \in closed THEN idle ELSE idle \cup {f}
                 /\ panicked' = (panicked \/ m.index > timers[p])
            ELSE UNCHANGED <<normals, timers, idle, panicked>>
  /\ marks' = Set(marks, p, Front(marks[p]))
  /\ UNCHANGED <<chan, mail, sends, closed, stopped, shut, pc, control, maxb, run, i, hot, held>>

\* Batch::reschedule: back to the end of the scheduler channel.
RescheduleNormal(p) ==
  /\ pc[p] = "resched" /\ marks[p] # <<>>
  /\ LET m == Last(marks[p])
         f == normals[p][m.index]
     IN  /\ m.policy = "Schedule"
         /\ normals' = Set(normals, p, SwapRemove(normals[p], m.index))
         /\ timers' = Set(timers, p, timers[p] - 1)
         /\ chan' = Append(chan, f)
         /\ panicked' = (panicked \/ m.index > timers[p])
  /\ marks' = Set(marks, p, Front(marks[p]))
  /\ UNCHANGED <<boxes, shut, pc, control, maxb, run, i, hot, held>>

\* Mutated form of EndRound: the marker read in the round is forgotten.
EndRoundRuns(p) ==
  /\ pc[p] = "resched" /\ marks[p] = <<>>
  /\ pc' = Set(pc, p, "fetch")
  /\ UNCHANGED <<chan, boxes, shut, normals, timers, control, locals, panicked>>

EndRound(p) ==
  /\ pc[p] = "resched" /\ marks[p] = <<>>
  /\ IF run[p] THEN pc' = Set(pc, p, "fetch") /\ UNCHANGED <<normals, timers, control>>
               ELSE Exit(p)
  /\ UNCHANGED <<chan, boxes, shut, locals, panicked>>

Step(p) ==
  \/ FetchSome(p) \/ FetchNone(p)
  \/ NoControl(p) \/ ControlBusy(p) \/ ControlDone(p) \/ ControlRelease(p)
  \/ ControlStop(p) \/ ControlCheck(p)
  \/ HandleNormal(p) \/ NormalsDone(p) \/ MoreNormal(p) \/ MoreOther(p) \/ MoreNone(p)
  \/ ReleaseNormal(p) \/ CheckNormal(p) \/ RemoveNormal(p) \/ RescheduleNormal(p)
  \/ EndRound(p)

Next == \/ \E f \in Fsms : Send(f) \/ Close(f)
        \/ CloseAll \/ SendMarkers
        \/ \E p \in Pollers : Step(p)

Spec == Init /\ [][Next]_vars
\* Pollers keep running, and a shutdown that closed the mailboxes goes on to
\* send its markers.  Nobody has to send a message, close a mailbox or shut down.
\* This is weak fairness of SendMarkers and of each Step, with the states in which they are enabled
\* spelled out.
CanStep(p) == pc[p] # "exit" /\ (pc[p] = "fetch" => control[p] \/ chan # <<>> \/ normals[p] # <<>>)
FairSpec ==
  /\ Spec
  /\ []<>(shut # "closed")
  /\ \A p \in Pollers : []<>(~CanStep(p)) \/ []<><<Step(p)>>_vars
-----------------------------------------------------------------------------
(***************************************************************************)
(* Properties.                                                             *)
(***************************************************************************)
\* Where an FSM is: the slots of the batches and of the channel that hold it.
InBatch(f) == UNION {{<<p, k>> : k \in {j \in DOMAIN normals[p] : normals[p][j] = f}} : p \in Pollers}
InChan(f)  == {k \in DOMAIN chan : chan[k] = f}
Controllers == {p \in Pollers : control[p]}

Places(f) == {<<"batch", x>> : x \in InBatch(f)} \cup {<<"channel", k>> : k \in InChan(f)}
               \cup {<<"mailbox", f>> : g \in idle \cap {f}}
               \cup {<<"control", p>> : p \in {q \in Controllers : f = Control}}

\* An FSM is in one place - its mailbox, the channel, one slot of one batch - whatever
\* release, remove and reschedule do with the indices; only a closed one is in none.
OnePlace ==
  \A f \in Fsms : (\A x, y \in Places(f) : x = y) /\ (f \notin closed => Places(f) # {})

\* The index kept in reschedule_fsms still names the FSM it was kept for, although
\* swap_remove moves FSMs around ("using pop here to remove the correct FSM",
\* batch.rs:334-335). A batch never has fewer timers than FSMs, so that batch.timers[i] and the
\* swap_remove of timers are in bounds, and Batch::push never finds a second control FSM.
MarksRight ==
  /\ TypeOK /\ ~panicked
  /\ \A p \in Pollers : pc[p] # "check" => Len(normals[p]) <= timers[p]
  /\ \A p \in Pollers : \A k \in DOMAIN marks[p] :
       LET m == marks[p][k]
       IN  m.index <= Len(normals[p]) /\ normals[p][m.index] = m.fsm

\* What makes these two so.  The marks go up through the batch, and an FSM that was released
\* and not yet looked at again was behind all that are left; the loops start with no marks.
BatchRight(p) ==
  /\ \A k \in DOMAIN marks[p] : /\ marks[p][k].index <= Len(normals[p])
                                /\ normals[p][marks[p][k].index] = marks[p][k].fsm
  /\ \A j, k \in DOMAIN marks[p] : j < k => marks[p][j].index < marks[p][k].index
  /\ pc[p] \in {"fetch", "control", "crelease", "ccheck", "exit"} => marks[p] = <<>>
  /\ pc[p] = "normals" => \A k \in DOMAIN marks[p] : marks[p][k].index < i[p]
  /\ pc[p] = "ccheck" => ~control[p]
  /\ pc[p] # "check" => Len(normals[p]) <= timers[p]
  /\ pc[p] = "check" =>
       /\ Len(held[p]) = 1 /\ Len(normals[p]) < timers[p] /\ held[p][1].index <= Len(normals[p]) + 1
       /\ \A k \in DOMAIN marks[p] : marks[p][k].index < held[p][1].index

\* A sequence holds f; it holds f at most once.
In(s, f) == \E k \in DOMAIN s : s[k] = f
Once(s, f) == \A j, k \in DOMAIN s : s[j] = f /\ s[k] = f => j = k

\* A poller ends only after the shutdown has closed every mailbox.
ShutRight ==
  /\ shut # "up" => closed = Fsms
  /\ In(chan, Empty) => shut = "marked"
  /\ \A p \in Pollers : ~run[p] => shut = "marked"

\* Poller p has f in its batch.
Has(p, f) == In(normals[p], f) \/ (f = Control /\ control[p])

\* OnePlace, place by place.
Unique(f) ==
  /\ Once(chan, f) /\ \A p \in Pollers : Once(normals[p], f)
  /\ \A p, q \in Pollers : Has(p, f) /\ Has(q, f) => p = q
  /\ \A p \in Pollers : Has(p, f) => ~In(chan, f) /\ f \notin idle
  /\ In(chan, f) => f \notin idle
  /\ f \notin closed => f \in idle \/ In(chan, f) \/ \E p \in Pollers : Has(p, f)

IInv == /\ TypeOK /\ ~panicked /\ ShutRight
        /\ (\A p \in Pollers : BatchRight(p)) /\ \A f \in Fsms : Unique(f)

\* The control FSM is in the batch of p, or about to be taken back by release_control.
Keeps(p) == control[p] \/ pc[p] = "ccheck"

\* A poller that does not keep the control FSM for ever takes every normal FSM that is scheduled,
\* although its batch is full and all the normal FSMs in it stay busy: fetch_fsm looks at the
\* channel in every round that begins without the control FSM. With it fetch_fsm returns at once
\* (batch.rs:250) and only a batch that is not full is filled up, so that a control FSM that is
\* busy for ever, with a full batch, does starve the channel: the premise is needed.
NoStarvation ==
  \A p \in Pollers : (~<>[]Keeps(p)) =>
    \A f \in Normals : (InChan(f) # {} ~> InChan(f) = {} \/ shut # "up")

\* A shutdown ends every poller, whatever its batch holds.
ShutdownEnds == shut # "up" ~> \A p \in Pollers : pc[p] = "exit"
=============================================================================

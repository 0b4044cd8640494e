------------------------- MODULE BatchChannelProofs -------------------------
(***************************************************************************)
(* Proofs about BatchChannel, for any finite set of senders.  The          *)
(* invariant relates what is in the channel to what plightlikeing counts   *)
(* and to the senders that have pushed a message and not counted it yet.   *)
(***************************************************************************)
EXTENDS BatchChannel, FiniteSetTheorems, TLAPS

\* The senders that have pushed and not counted yet are finitely many.
LEMMA SentNat == TypeOK => IsFiniteSet(At("sent")) /\ Cardinality(At("sent")) \in Nat
  BY BatchAssumption, FS_Subset, FS_CardinalityType, Zenon DEF At, TypeOK

\* What a move of one thread from a label to another does to the labels' sets.
LEMMA Moved ==
  ASSUME TypeOK, NEW s \in Senders, NEW a, NEW b, Goto(s, a, b), a # b,
         NEW l
  PROVE  /\ l # a /\ l # b => At(l)' = At(l)
         /\ At(a)' = At(a) \ {s} /\ s \in At(a)
         /\ At(b)' = At(b) \cup {s} /\ s \notin At(b)
  BY Zenon DEF At, Goto, TypeOK

\* A thread that does not move keeps every label's set.
LEMMA Kept == ASSUME NEW l, UNCHANGED pc PROVE At(l)' = At(l)
  BY Zenon DEF At

LEMMA InitInv == Init => IInv
<1> SUFFICES ASSUME Init PROVE IInv
  BY Zenon
<1>1. TypeOK
  BY ZenonT(60) DEF Init, TypeOK
<1>2. NotifierOnce
  BY Zenon DEF Init, NotifierOnce, At
<1>3. Conserved /\ flushed <= sends
  BY DEF Init, Conserved
<1>4. rpc = "ready"
  BY Zenon DEF Init
<1> QED
  BY <1>1, <1>2, <1>3, <1>4, Zenon DEF IInv, Settled, Parked, Quiet

LEMMA TypeInv == TypeOK /\ [Next]_vars => TypeOK'
<1> SUFFICES ASSUME TypeOK, [Next]_vars PROVE TypeOK'
  BY Zenon
<1> USE DEF TypeOK, tx, rx
<1>1. ASSUME NEW s \in Senders, Sender(s) PROVE TypeOK'
  BY <1>1 DEF Sender, Send, SendAndNotify, Push, DropSender, Flush, Clone, Goto
<1>2. ASSUME NEW s \in Senders, Finish(s) PROVE TypeOK'
  <2>1. CASE PostSend(s)
    BY <2>1 DEF PostSend, Goto
  <2>2. CASE Notify(s)
    BY ZenonT(60), <2>2 DEF Notify, Goto
  <2>3. CASE Store(s)
    BY <2>3, Zenon DEF Store, Goto
  <2>6. CASE Wake(s)
    BY <2>6, Zenon DEF Wake, Goto
  <2>4. CASE GetNotifier(s)
    BY <2>4, Zenon DEF GetNotifier, Goto
  <2>5. CASE DropNotifier(s)
    BY ZenonT(60), <2>5 DEF DropNotifier, Goto
  <2> QED
    BY <1>2, <2>1, <2>2, <2>3, <2>4, <2>5, <2>6, Zenon DEF Finish
<1>3. CASE Receive
  <2>1. CASE PollWith(PollAgain)
    BY <2>1, Zenon DEF PollWith, PollAgain
  <2>5. CASE PollWith(PollWoken)
    BY ZenonT(60), <2>5 DEF PollWith, PollWoken
  <2>2. CASE RecvRefused
    BY <2>2 DEF RecvRefused, HandOut
  <2>3. CASE RecvCollected
    BY <2>3 DEF RecvCollected, HandOut
  <2>4. CASE RecvEmpty
    BY <2>4, Zenon DEF RecvEmpty
  <2>6. CASE RecvDisconnected
    BY <2>6 DEF RecvDisconnected, HandOut
  <2>7. CASE Yield
    BY <2>7 DEF Yield, HandOut
  <2> QED
    BY <1>3, <2>1, <2>2, <2>3, <2>4, <2>5, <2>6, <2>7, Zenon DEF Receive
<1>4. CASE PollWith(PollSpurious) \/ DropReceiver
  BY <1>4 DEF PollWith, PollSpurious, DropReceiver
<1>5. CASE UNCHANGED vars
  BY <1>5, Zenon DEF vars
<1> QED
  BY <1>1, <1>2, <1>3, <1>4, <1>5, Zenon DEF Next

\* What a message pushed does: one more in the channel, and either one more sender
\* that has not counted yet or one more that is about to notify.
LEMMA PushInv ==
  ASSUME IInv, TypeOK', NEW s \in Senders, NEW b \in {"sent", "notify"}, Push(s, b) PROVE IInv'
<1>0. TypeOK /\ Goto(s, "idle", b) /\ b # "idle"
  BY Zenon DEF IInv, Push
<1>1. \A l : l # "idle" /\ l # b => At(l)' = At(l)
  BY <1>0, Moved
<1>2. At(b)' = At(b) \cup {s} /\ s \notin At(b)
  BY <1>0, Moved, Zenon
<1>3. queue' = queue + 1 /\ sends' = sends + 1 /\ UNCHANGED <<live, task, pending, registered, rpc, elem, count, got, woken, flushed>>
  BY Zenon DEF Push, rx
<1>4. NotifierOnce'
  BY <1>1, <1>3, Zenon DEF IInv, NotifierOnce
<1>5. Conserved' /\ flushed' <= sends'
  BY <1>0, <1>3 DEF IInv, Conserved, TypeOK
<1>6. Parked'
  BY <1>1, <1>3, Zenon DEF IInv, Parked, Rousing
<1>7. Quiet'
  <2>1. CASE b = "notify"
    BY <2>1, <1>2, Zenon DEF Quiet
  <2>2. CASE b = "sent"
    <3>1. Cardinality(At("sent")') = Cardinality(At("sent")) + 1
      BY <1>0, <1>2, <2>2, SentNat, FS_AddElement, Zenon
    <3>2. Cardinality(At("sent")) \in Nat
      BY <1>0, SentNat, Zenon
    <3> QED
      BY <1>0, <1>1, <1>3, <2>2, <3>1, <3>2 DEF IInv, Quiet, Settled, Rousing, TypeOK
  <2> QED
    BY <2>1, <2>2, Zenon
<1> QED
  BY <1>4, <1>5, <1>6, <1>7, Zenon DEF IInv

\* Cloning and dropping senders; a drop leaves a thread that is about to notify.
LEMMA HandleInv ==
  ASSUME IInv, TypeOK', NEW s \in Senders, DropSender(s) \/ \E g \in Senders : Clone(s, g)
  PROVE  IInv'
<1> USE DEF IInv
<1>1. CASE DropSender(s)
  <2>0. TypeOK /\ Goto(s, "idle", "notify")
    BY <1>1, Zenon DEF DropSender
  <2>1. \A l : l # "idle" /\ l # "notify" => At(l)' = At(l)
    BY <2>0, Moved, Zenon
  <2>2. At("notify")' # {}
    BY <2>0, Moved
  <2>3. UNCHANGED <<queue, sends, task, pending, registered, rpc, elem, count, got, woken, flushed>>
    BY <1>1, Zenon DEF DropSender, rx
  <2> QED
    BY <2>1, <2>2, <2>3, Zenon DEF NotifierOnce, Conserved, Parked, Rousing, Quiet
<1>2. ASSUME NEW g \in Senders, Clone(s, g) PROVE IInv'
  <2>1. UNCHANGED <<pc, queue, sends, task, pending, registered, rpc, elem, count, got, woken, flushed>>
    BY <1>2, Zenon DEF Clone, rx
  <2>2. \A l : At(l)' = At(l)
    BY <2>1, Kept, Zenon
  <2>3. live' # {}
    BY <1>2, Zenon DEF Clone
  <2> QED
    BY <2>1, <2>2, <2>3, Zenon DEF NotifierOnce, Conserved, Parked, Rousing, Quiet, Settled
<1> QED
  BY <1>1, <1>2, Zenon

\* Counting a message: it moves from the uncounted to plightlikeing, and the count
\* that reaches notify_size leaves a thread that is about to notify.
LEMMA PostSendInv ==
  ASSUME IInv, TypeOK', NEW s \in Senders, PostSend(s) PROVE IInv'
<1> DEFINE b == IF pending >= NotifySize - 1 THEN "notify" ELSE "idle"
<1>0. TypeOK /\ Goto(s, "sent", b) /\ b # "sent"
  BY Zenon DEF IInv, PostSend
<1>1. \A l : l \notin {"idle", "sent", "notify"} => At(l)' = At(l)
  BY <1>0, Moved
<1>2. At("sent")' = At("sent") \ {s} /\ s \in At("sent")
  BY <1>0, Moved, Zenon
<1>3. pending' = pending + 1 /\ UNCHANGED <<live, queue, sends, task, registered, rpc, elem, count, got, woken, flushed>>
  BY Zenon DEF PostSend, rx
<1>4. NotifierOnce' /\ Conserved' /\ flushed' <= sends' /\ Parked'
  BY <1>1, <1>3, Zenon DEF IInv, NotifierOnce, Conserved, Parked, Rousing
<1>5. Quiet'
  <2>1. CASE pending >= NotifySize - 1
    <3>1. At("notify")' # {}
      BY <1>0, <2>1, Moved
    <3> QED
      BY <3>1, Zenon DEF Quiet
  <2>2. CASE ~(pending >= NotifySize - 1)
    <3>1. At("notify")' = At("notify")
      BY <1>0, <2>2, Moved
    <3>2. Cardinality(At("sent")') = Cardinality(At("sent")) - 1
      BY <1>0, <1>2, SentNat, FS_RemoveElement, Zenon
    <3>3. Cardinality(At("sent")) \in Nat
      BY <1>0, SentNat, Zenon
    <3> QED
      BY SMTT(60), <1>0, <1>1, <1>3, <2>2, <3>1, <3>2, <3>3, BatchAssumption
      DEF IInv, Quiet, Settled, Rousing, TypeOK
  <2> QED
    BY <2>1, <2>2, Zenon
<1> QED
  BY <1>4, <1>5, Zenon DEF IInv

\* The swap of recv_task: without a waker nobody is settled, or somebody is rousing.
LEMMA NotifyInv ==
  ASSUME IInv, TypeOK', NEW s \in Senders, Notify(s) PROVE IInv'
<1>0. TypeOK /\ Goto(s, "notify", IF task THEN "store" ELSE "idle")
  BY Zenon DEF IInv, Notify
<1>1. \A l : l \notin {"idle", "notify", "store"} => At(l)' = At(l)
  BY <1>0, Moved
<1>2. task' = FALSE /\ UNCHANGED <<live, queue, sends, pending, registered, rpc, elem, count, got, woken, flushed>>
  BY Zenon DEF Notify, rx
<1>3. NotifierOnce' /\ Conserved' /\ flushed' <= sends'
  BY <1>1, <1>2, Zenon DEF IInv, NotifierOnce, Conserved
<1>4. rpc = "parked" => elem = 0 /\ Rousing'
  <2>1. CASE task
    <3>1. At("store")' # {}
      BY <1>0, <2>1, Moved
    <3> QED
      BY <3>1, Zenon DEF Rousing, IInv, Parked
  <2>2. CASE ~task
    <3>1. At("store")' = At("store")
      BY <1>0, <2>2, Moved
    <3> QED
      BY <1>1, <1>2, <2>2, <3>1, Zenon DEF Rousing, IInv, Parked
  <2> QED
    BY <2>1, <2>2, Zenon
<1> QED
  BY <1>2, <1>3, <1>4, Zenon DEF IInv, Parked, Quiet, Settled

\* The rest of notify: a wake is still to come, and then has come.
LEMMA WakeInv ==
  ASSUME IInv, TypeOK', NEW s \in Senders, Store(s) \/ Wake(s) PROVE IInv'
<1>1. CASE Store(s)
  <2>0. TypeOK /\ Goto(s, "store", "wake")
    BY <1>1, Zenon DEF IInv, Store
  <2>1. \A l : l \notin {"store", "wake"} => At(l)' = At(l)
    BY <2>0, Moved, Zenon
  <2>2. At("wake")' # {}
    BY <2>0, Moved
  <2>3. UNCHANGED <<live, queue, sends, task, registered, rpc, elem, count, got, woken, flushed>>
    BY <1>1, Zenon DEF Store, rx
  <2> QED
    BY <2>1, <2>2, <2>3, Zenon DEF IInv, NotifierOnce, Conserved, Parked, Quiet, Rousing
<1>2. CASE Wake(s)
  <2>0. TypeOK /\ Goto(s, "wake", "idle")
    BY <1>2, Zenon DEF IInv, Wake
  <2>1. \A l : l \notin {"wake", "idle"} => At(l)' = At(l)
    BY <2>0, Moved, Zenon
  <2>2. woken' /\ UNCHANGED <<live, queue, sends, task, pending, registered, rpc, elem, count, got, flushed>>
    BY <1>2, Zenon DEF Wake, rx
  <2> QED
    BY <2>1, <2>2, Zenon DEF IInv, NotifierOnce, Conserved, Parked, Quiet, Rousing
<1> QED
  BY <1>1, <1>2, Zenon

\* A flush: until it has notified, or found that another thread is about to, one of
\* the two shows in the labels.
LEMMA FlushInv ==
  ASSUME IInv, TypeOK', NEW s \in Senders, Flush(s) \/ GetNotifier(s) \/ DropNotifier(s)
  PROVE  IInv'
<1>1. CASE Flush(s)
  <2>0. TypeOK /\ Goto(s, "idle", "flush")
    BY <1>1, Zenon DEF IInv, Flush
  <2>1. \A l : l \notin {"idle", "flush"} => At(l)' = At(l)
    BY <2>0, Moved, Zenon
  <2>2. At("flush")' # {}
    BY <2>0, Moved
  <2>3. flushed' = sends /\ UNCHANGED <<live, queue, sends, task, pending, registered, rpc, elem, count, got, woken>>
    BY <1>1, Zenon DEF Flush, rx
  <2>4. NotifierOnce' /\ Conserved' /\ flushed' <= sends' /\ Parked'
    BY <2>0, <2>1, <2>3 DEF IInv, NotifierOnce, Conserved, Parked, Rousing, TypeOK
  <2>5. Quiet'
    BY <2>1, <2>2, <2>3, Zenon DEF IInv, Quiet, Rousing, Settled
  <2> QED
    BY <2>4, <2>5, Zenon DEF IInv
<1>2. CASE GetNotifier(s)
  <2>0. TypeOK /\ Goto(s, "flush", IF registered THEN "idle" ELSE "holding")
    BY <1>2, Zenon DEF IInv, GetNotifier
  <2>1. \A l : l \notin {"idle", "flush", "holding"} => At(l)' = At(l)
    BY <2>0, Moved
  <2>3. registered' = TRUE /\ UNCHANGED <<live, queue, sends, task, pending, rpc, elem, count, got, woken, flushed>>
    BY <1>2, Zenon DEF GetNotifier, rx
  <2>2. At("holding")' = IF registered THEN At("holding") ELSE At("holding") \cup {s}
    BY <2>0, Moved
  <2>4. At("holding")' # {} /\ NotifierOnce'
    BY <2>2, <2>3, Zenon DEF IInv, NotifierOnce
  <2>5. Conserved' /\ flushed' <= sends' /\ Parked'
    BY <2>1, <2>3, Zenon DEF IInv, Conserved, Parked, Rousing
  <2>6. Quiet'
    BY <2>1, <2>3, <2>4, Zenon DEF IInv, Quiet, Rousing, Settled
  <2> QED
    BY <2>4, <2>5, <2>6, Zenon DEF IInv
<1>3. CASE DropNotifier(s)
  <2>0. TypeOK /\ Goto(s, "holding", "notify")
    BY <1>3, Zenon DEF IInv, DropNotifier
  <2>1. \A l : l \notin {"holding", "notify"} => At(l)' = At(l)
    BY <2>0, Moved, Zenon
  <2>2. At("notify")' # {} /\ At("holding")' = At("holding") \ {s} /\ s \in At("holding")
    BY <2>0, Moved
  <2>3. registered' = FALSE /\ UNCHANGED <<live, queue, sends, task, pending, rpc, elem, count, got, woken, flushed>>
    BY <1>3, Zenon DEF DropNotifier, rx
  <2>4. NotifierOnce'
    BY <2>2, <2>3, Zenon DEF IInv, NotifierOnce
  <2>5. Conserved' /\ flushed' <= sends' /\ Parked'
    BY <2>1, <2>3, Zenon DEF IInv, Conserved, Parked, Rousing
  <2> QED
    BY <2>2, <2>4, <2>5, Zenon DEF IInv, Quiet
<1> QED
  BY <1>1, <1>2, <1>3, Zenon

\* The receiver's steps move no sender.  Outside of yield and sleep nothing is
\* claimed; an empty channel is what makes the claim true when it is found empty.
LEMMA ReceiveInv ==
  ASSUME IInv, TypeOK', Receive \/ PollWith(PollSpurious) \/ DropReceiver PROVE IInv'
<1> USE DEF tx
<1>0. UNCHANGED <<live, pc, sends, pending, registered, flushed>>
  BY Zenon DEF Receive, PollWith, RecvRefused, RecvCollected, RecvEmpty, RecvDisconnected, Yield, DropReceiver
<1>1. \A l : At(l)' = At(l)
  BY <1>0, Kept, Zenon
<1>9. /\ elem \in Nat /\ got \in Nat /\ queue \in Nat /\ sends \in Nat
      /\ got + elem + queue = sends
  BY Zenon DEF IInv, TypeOK, Conserved
<1>2. NotifierOnce' /\ flushed' <= sends'
  BY <1>0, <1>1, Zenon DEF IInv, NotifierOnce
<1>3. ASSUME Conserved', ~Settled' PROVE IInv'
  BY <1>2, <1>3, Zenon DEF IInv, Parked, Quiet, Settled
<1>4. CASE PollWith(PollAgain) \/ PollWith(PollWoken) \/ PollWith(PollSpurious) \/ DropReceiver
  <2>1. rpc' \in {"recv", "gone"} /\ UNCHANGED <<queue, elem, got>>
    BY <1>4, Zenon DEF PollWith, DropReceiver
  <2> QED
    BY <1>0, <1>3, <2>1, Zenon DEF IInv, Conserved, Settled
<1>5. CASE RecvRefused \/ RecvCollected
  <2>1. rpc' \in {"ready", "recv"}
    BY <1>5, Zenon DEF RecvRefused, RecvCollected, HandOut
  <2>2. Conserved'
    <3>1. CASE RecvRefused
      BY <1>0, <3>1 DEF IInv, TypeOK, Conserved, RecvRefused, HandOut
    <3>2. CASE RecvCollected
      <4>1. queue' = queue - 1 /\ queue > 0
        BY <3>2, Zenon DEF RecvCollected
      <4>2. \/ elem' = elem + 1 /\ got' = got
            \/ elem' = 0 /\ got' = got + (elem + 1)
        BY <3>2, Zenon DEF RecvCollected, HandOut
      <4> QED
        BY <1>0, <1>9, <4>1, <4>2 DEF Conserved
    <3> QED
      BY <1>5, <3>1, <3>2, Zenon
  <2> QED
    BY <1>3, <2>1, <2>2, Zenon DEF Settled
<1>6. CASE RecvEmpty
  <2>1. rpc' = "yield" /\ queue = 0 /\ live # {} /\ UNCHANGED <<queue, task, elem, got, woken>>
    BY <1>6, Zenon DEF RecvEmpty
  <2>2. Cardinality(At("sent")) \in Nat
    BY SentNat, Zenon DEF IInv
  <2>3. Conserved' /\ Parked'
    BY <1>0, <2>1, Zenon DEF IInv, Conserved, Parked
  <2>4. Quiet'
    BY <1>0, <1>1, <2>1, <2>2 DEF IInv, Quiet, TypeOK
  <2> QED
    BY <1>2, <2>3, <2>4, Zenon DEF IInv
<1>7. CASE RecvDisconnected
  <2>1. rpc' \in {"ready", "done"}
    BY <1>7, Zenon DEF RecvDisconnected, HandOut
  <2>2. Conserved'
    <3>1. queue' = queue
      BY <1>7, Zenon DEF RecvDisconnected
    <3>2. \/ elem' = elem /\ got' = got
          \/ elem' = 0 /\ got' = got + elem
      BY <1>7, Zenon DEF RecvDisconnected, HandOut
    <3> QED
      BY <1>0, <1>9, <3>1, <3>2 DEF Conserved
  <2> QED
    BY <1>3, <2>1, <2>2, Zenon DEF Settled
<1>8. CASE Yield
  <2>1. Conserved'
    <3>1. queue' = queue
      BY <1>8, Zenon DEF Yield
    <3>2. \/ elem' = elem /\ got' = got
          \/ elem' = 0 /\ got' = got + elem
      BY <1>8, Zenon DEF Yield, HandOut
    <3> QED
      BY <1>0, <1>9, <3>1, <3>2 DEF Conserved
  <2>2. CASE rpc' = "parked"
    <3>1. task /\ task' /\ elem = 0 /\ rpc = "yield" /\ UNCHANGED <<queue, elem, woken>>
      BY <1>8, <2>2, Zenon DEF Yield, HandOut
    <3>2. Parked'
      BY <3>1, Zenon DEF Parked
    <3>3. Quiet'
      BY <1>0, <1>1, <3>1, Zenon DEF IInv, Quiet, Settled, Rousing
    <3> QED
      BY <1>2, <2>1, <3>2, <3>3, Zenon DEF IInv
  <2>3. CASE rpc' # "parked"
    <3>1. rpc' # "yield"
      BY <1>8, Zenon DEF Yield, HandOut
    <3> QED
      BY <1>3, <2>1, <2>3, <3>1, Zenon DEF Settled
  <2> QED
    BY <2>2, <2>3, Zenon
<1> QED
  BY <1>4, <1>5, <1>6, <1>7, <1>8, Zenon DEF Receive

LEMMA NextInv == IInv /\ [Next]_vars => IInv'
<1> SUFFICES ASSUME IInv, [Next]_vars PROVE IInv'
  BY Zenon
<1>0. TypeOK'
  BY TypeInv, Zenon DEF IInv
<1>1. ASSUME NEW s \in Senders, Sender(s) PROVE IInv'
  BY <1>0, <1>1, PushInv, HandleInv, FlushInv, Zenon DEF Sender, Send, SendAndNotify
<1>2. ASSUME NEW s \in Senders, Finish(s) PROVE IInv'
  BY <1>0, <1>2, PostSendInv, NotifyInv, WakeInv, FlushInv, Zenon DEF Finish
<1>3. CASE Receive \/ PollWith(PollSpurious) \/ DropReceiver
  BY <1>0, <1>3, ReceiveInv, Zenon
<1>4. CASE UNCHANGED vars
  <2>1. \A l : At(l)' = At(l)
    BY <1>4, Kept, Zenon DEF vars
  <2> QED
    BY <1>0, <1>4, <2>1, Zenon
    DEF vars, IInv, NotifierOnce, Conserved, Parked, Quiet, Settled, Rousing
<1> QED
  BY <1>1, <1>2, <1>3, <1>4, Zenon DEF Next
-----------------------------------------------------------------------------
\* The inductive invariant holds in every reachable state, for any finite set of
\* senders and any notify_size.
THEOREM Invariance == Spec => []IInv
  BY InitInv, NextInv, PTL DEF Spec

\* The variables keep their types.
THEOREM TypeCorrect == Spec => []TypeOK
<1>1. IInv => TypeOK
  BY Zenon DEF IInv
<1> QED
  BY <1>1, Invariance, PTL

\* A sleeping receiver that nobody is about to wake has less than notify_size
\* messages to read, and a sender that still exists.
THEOREM NoStallEver == Spec => []NoStall
<1>1. IInv => NoStall
  <2> SUFFICES ASSUME IInv, Still PROVE queue < NotifySize /\ live # {}
    BY Zenon DEF NoStall
  <2>1. At("sent") = {} /\ At("notify") = {} /\ ~Rousing /\ Settled
    BY Zenon DEF Still, At, Rousing, Settled
  <2>2. Cardinality(At("sent")) = 0
    BY <2>1, FS_EmptySet, Zenon
  <2> QED
    BY <2>1, <2>2, BatchAssumption DEF IInv, Quiet, TypeOK
<1> QED
  BY <1>1, Invariance, PTL

\* Everything in the channel when a flush looked at it is out of it when the
\* receiver sleeps and no flush is under way.
THEOREM FlushEver == Spec => []FlushDone
<1>1. IInv => FlushDone
  <2> SUFFICES ASSUME IInv, Still PROVE sends - queue >= flushed
    BY Zenon DEF FlushDone
  <2>1. At("flush") = {} /\ At("holding") = {} /\ At("notify") = {} /\ ~Rousing /\ Settled
    BY Zenon DEF Still, At, Rousing, Settled
  <2> QED
    BY <2>1, Zenon DEF IInv, Quiet
<1> QED
  BY <1>1, Invariance, PTL

\* Every message pushed is in the channel, in the open batch or handed out.
THEOREM NothingLost == Spec => []Conserved
<1>1. IInv => Conserved
  BY Zenon DEF IInv
<1> QED
  BY <1>1, Invariance, PTL

\* The notifier is held by one thread at a time, and the flag says so.
THEOREM NotifierUnique == Spec => []NotifierOnce
<1>1. IInv => NotifierOnce
  BY Zenon DEF IInv
<1> QED
  BY <1>1, Invariance, PTL
=============================================================================

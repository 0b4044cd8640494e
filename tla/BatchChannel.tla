---------------------------- MODULE BatchChannel ----------------------------
(***************************************************************************)
(* The batching channel of einsteindb_util/src/mpsc/batch.rs, through      *)
(* which change data reaches a downstream: senders wake the receiving task *)
(* only every notify_size messages, on a flush, or when they are dropped.  *)
(* A step is one atomic access to the state the two sides share; the       *)
(* receiver is BatchReceiver over Receiver, polled by an executor.         *)
(***************************************************************************)
EXTENDS Naturals, FiniteSets

CONSTANTS Senders,
          NotifySize,    \* State::notify_size
          MaxBatch,      \* BatchReceiver::max_batch_size
          MaxSends       \* bound on the number of messages sent

ASSUME BatchAssumption ==
  /\ IsFiniteSet(Senders)
  /\ NotifySize \in Nat \ {0} /\ MaxBatch \in Nat \ {0} /\ MaxSends \in Nat

VARIABLES
  live,        \* the senders whose crossbeam sender exists
  queue,       \* messages in the crossbeam channel
  task,        \* recv_task is not null
  pending,     \* State::plightlikeing
  registered,  \* State::notifier_registered
  pc,          \* where each sender's thread is
  rpc,         \* where the receiving task is
  woken,       \* the executor has been told to poll the task again
  elem, count, \* BatchReceiver::elem (its size) and the local count of poll_next
  sends, got,  \* history: messages pushed, and handed out in batches
  flushed      \* history: value of sends at the last flush that saw a message

tx == <<live, pc, sends>>
rx == <<rpc, elem, count, got>>
vars == <<live, queue, task, pending, registered, pc, rpc, woken, elem, count, sends, got, flushed>>

TypeOK ==
  /\ live \subseteq Senders /\ queue \in Nat /\ pending \in Nat /\ sends \in Nat
  /\ elem \in Nat /\ count \in Nat /\ got \in Nat /\ flushed \in Nat
  /\ task \in BOOLEAN /\ registered \in BOOLEAN /\ woken \in BOOLEAN
  /\ pc \in [Senders -> {"idle", "sent", "notify", "store", "wake", "flush", "holding"}]
  /\ rpc \in {"ready", "recv", "yield", "parked", "done", "gone"}

\* unbounded(notify_size) with its first sender; the stream has not been polled yet.
Init ==
  /\ \E s \in Senders : live = {s}
  /\ queue = 0 /\ task = FALSE /\ pending = 0 /\ registered = FALSE
  /\ pc = [s \in Senders |-> "idle"]
  /\ rpc = "ready" /\ woken = FALSE /\ elem = 0 /\ count = 0
  /\ sends = 0 /\ got = 0 /\ flushed = 0

At(l) == {s \in Senders : pc[s] = l}
Goto(s, from, to) == pc[s] = from /\ pc' = [pc EXCEPT ![s] = to]
-----------------------------------------------------------------------------
(***************************************************************************)
(* Senders.                                                                *)
(***************************************************************************)
Clone(s, g) ==
  /\ s \in live /\ pc[s] = "idle" /\ g \notin live /\ pc[g] = "idle"
  /\ live' = live \cup {g}
  /\ UNCHANGED <<queue, task, pending, registered, pc, rx, woken, sends, flushed>>

\* The crossbeam send of lightlike and lightlike_and_notify; it fails once the
\* receiver is gone, and then nothing more happens.
Push(s, next) ==
  /\ s \in live /\ Goto(s, "idle", next)
  /\ rpc # "gone" /\ sends < MaxSends
  /\ queue' = queue + 1 /\ sends' = sends + 1
  /\ UNCHANGED <<live, task, pending, registered, rx, woken, flushed>>

Send(s) == Push(s, "sent")
SendAndNotify(s) == Push(s, "notify")

\* Mutated form of PostSend: notifies only when pending was at notify_size.
PostSendLate(s) ==
  /\ Goto(s, "sent", IF pending >= NotifySize THEN "notify" ELSE "idle")
  /\ pending' = pending + 1
  /\ UNCHANGED <<live, queue, task, registered, rx, woken, sends, flushed>>

\* try_notify_post_lightlike.
PostSend(s) ==
  /\ Goto(s, "sent", IF pending >= NotifySize - 1 THEN "notify" ELSE "idle")
  /\ pending' = pending + 1
  /\ UNCHANGED <<live, queue, task, registered, rx, woken, sends, flushed>>

\* notify: whoever swaps the task out resets plightlikeing and wakes the task.
Notify(s) ==
  /\ Goto(s, "notify", IF task THEN "store" ELSE "idle")
  /\ task' = FALSE
  /\ UNCHANGED <<live, queue, pending, registered, rx, woken, sends, flushed>>

Store(s) ==
  /\ Goto(s, "store", "wake") /\ pending' = 0
  /\ UNCHANGED <<live, queue, task, registered, rx, woken, sends, flushed>>

Wake(s) ==
  /\ Goto(s, "wake", "idle") /\ woken' = TRUE
  /\ UNCHANGED <<live, queue, task, pending, registered, rx, sends, flushed>>

\* Mutated form of DropSender: the receiver is not notified.
DropSenderSilent(s) ==
  /\ s \in live /\ pc[s] = "idle"
  /\ live' = live \ {s}
  /\ UNCHANGED <<queue, task, pending, registered, pc, rx, woken, sends, flushed>>

\* Drop for lightlikeer: the crossbeam sender goes first, then notify.
DropSender(s) ==
  /\ s \in live /\ Goto(s, "idle", "notify")
  /\ live' = live \ {s}
  /\ UNCHANGED <<queue, task, pending, registered, rx, woken, sends, flushed>>

\* flush of the change data connection: only a channel that holds messages ...
Flush(s) ==
  /\ s \in live /\ Goto(s, "idle", "flush") /\ queue > 0
  /\ flushed' = sends
  /\ UNCHANGED <<live, queue, task, pending, registered, rx, woken, sends>>

\* ... and only if no other thread holds the notifier (get_notifier).
GetNotifier(s) ==
  /\ Goto(s, "flush", IF registered THEN "idle" ELSE "holding")
  /\ registered' = TRUE
  /\ UNCHANGED <<live, queue, task, pending, rx, woken, sends, flushed>>

\* Mutated form of DropNotifier: the flag is cleared and nobody is notified.
DropNotifierSilent(s) ==
  /\ Goto(s, "holding", "idle") /\ registered' = FALSE
  /\ UNCHANGED <<live, queue, task, pending, rx, woken, sends, flushed>>

\* Drop for Notifier; the compare_and_swap there must find TRUE.
DropNotifier(s) ==
  /\ Goto(s, "holding", "notify") /\ registered' = FALSE
  /\ UNCHANGED <<live, queue, task, pending, rx, woken, sends, flushed>>
-----------------------------------------------------------------------------
(***************************************************************************)
(* The receiving task.                                                     *)
(***************************************************************************)
\* poll_next is called again: by a consumer that got a batch, by the executor after
\* a wake, or (spurious) because something else the task waits for woke it.
PollAgain == /\ rpc = "ready" /\ UNCHANGED woken
PollWoken == /\ rpc = "parked" /\ woken /\ woken' = FALSE
PollSpurious == /\ rpc = "parked" /\ ~woken /\ UNCHANGED woken

PollWith(reason) ==
  /\ reason /\ rpc' = "recv" /\ count' = 0
  /\ UNCHANGED <<tx, queue, task, pending, registered, elem, got, flushed>>

\* A batch of n messages is handed to the consumer; keep of them start the next one.
HandOut(n, keep) == rpc' = "ready" /\ got' = got + n /\ elem' = keep

\* Mutated form of RecvRefused: the refused message is lost.
RecvRefusedLost ==
  /\ rpc = "recv" /\ queue > 0 /\ elem > 0
  /\ queue' = queue - 1 /\ HandOut(elem, 0)
  /\ UNCHANGED <<tx, task, pending, registered, woken, count, flushed>>

\* try_recv gets a message that the collector refuses: it opens the next batch.
RecvRefused ==
  /\ rpc = "recv" /\ queue > 0 /\ elem > 0
  /\ queue' = queue - 1 /\ HandOut(elem, 1)
  /\ UNCHANGED <<tx, task, pending, registered, woken, count, flushed>>

\* try_recv gets a message and the collector takes it.
RecvCollected ==
  /\ rpc = "recv" /\ queue > 0
  /\ queue' = queue - 1 /\ count' = count + 1
  /\ IF count + 1 >= MaxBatch THEN HandOut(elem + 1, 0)
                              ELSE elem' = elem + 1 /\ UNCHANGED <<rpc, got>>
  /\ UNCHANGED <<tx, task, pending, registered, woken, flushed>>

RecvEmpty ==
  /\ rpc = "recv" /\ queue = 0 /\ live # {}
  /\ rpc' = "yield"
  /\ UNCHANGED <<tx, queue, task, pending, registered, woken, elem, count, got, flushed>>

RecvDisconnected ==
  /\ rpc = "recv" /\ queue = 0 /\ live = {}
  /\ IF elem = 0 THEN rpc' = "done" /\ UNCHANGED <<got, elem>> ELSE HandOut(elem, 0)
  /\ UNCHANGED <<tx, queue, task, pending, registered, woken, count, flushed>>

\* Mutated form of Yield: the task parks at its first registration.
YieldAtOnce ==
  /\ rpc = "yield" /\ task' = TRUE
  /\ IF elem = 0 THEN rpc' = "parked" /\ UNCHANGED <<got, elem>> ELSE HandOut(elem, 0)
  /\ UNCHANGED <<tx, queue, pending, registered, woken, count, flushed>>

\* yield_poll: only a task that was registered already when it found the channel
\* empty may stop; the others look at the channel once more.
Yield ==
  /\ rpc = "yield" /\ task' = TRUE
  /\ IF ~task THEN rpc' = "recv" /\ UNCHANGED <<got, elem>>
     ELSE IF elem = 0 THEN rpc' = "parked" /\ UNCHANGED <<got, elem>>
     ELSE HandOut(elem, 0)
  /\ UNCHANGED <<tx, queue, pending, registered, woken, count, flushed>>

DropReceiver ==
  /\ rpc \in {"ready", "parked", "done"} /\ rpc' = "gone"
  /\ UNCHANGED <<tx, queue, task, pending, registered, woken, elem, count, got, flushed>>

Sender(s) == \/ Send(s) \/ SendAndNotify(s) \/ DropSender(s) \/ Flush(s)
             \/ \E g \in Senders : Clone(s, g)
Finish(s) == PostSend(s) \/ Notify(s) \/ Store(s) \/ Wake(s) \/ GetNotifier(s) \/ DropNotifier(s)
Receive == \/ PollWith(PollAgain) \/ PollWith(PollWoken) \/ RecvRefused \/ RecvCollected
           \/ RecvEmpty \/ RecvDisconnected \/ Yield

Next == \/ \E s \in Senders : Sender(s) \/ Finish(s)
        \/ Receive \/ PollWith(PollSpurious) \/ DropReceiver

Spec == Init /\ [][Next]_vars

\* A thread inside an operation goes on, and the executor polls a woken task.
LiveSpec == Spec /\ WF_vars(Receive) /\ \A s \in Senders : WF_vars(Finish(s))
-----------------------------------------------------------------------------
(***************************************************************************)
(* Properties.                                                             *)
(***************************************************************************)
\* The receiving task sleeps and nothing is under way that will wake it.
Still == rpc = "parked" /\ ~woken /\ \A s \in Senders : pc[s] = "idle"

\* A sleeping receiver is never left with notify_size messages or more, nor after
\* the last sender is gone, whatever the interleaving of sends, notifies and polls.
NoStall == Still => queue < NotifySize /\ live # {}

\* Every message that was in the channel when a flush looked at it has been
\* collected once the receiver sleeps again, also if the flush found the notifier
\* taken by another thread.
FlushDone == Still => sends - queue >= flushed

\* The Drop of a Notifier never meets its unreachable!: the flag is up exactly while
\* one thread holds the notifier.
NotifierOnce ==
  /\ registered <=> At("holding") # {}
  /\ \A s, t \in At("holding") : s = t

\* BatchReceiver hands out every message once: none is lost when a batch is cut short.
Conserved == got + elem + queue = sends

\* A backlog of notify_size messages is eventually worked off, unless the receiver goes.
BacklogEnds == (queue >= NotifySize) ~> (queue < NotifySize \/ rpc = "gone")

\* Once the last sender is gone the stream ends.
StreamEnds == (live = {}) ~> (rpc \in {"done", "gone"})

-----------------------------------------------------------------------------
(***************************************************************************)
(* The inductive invariant: what holds while the task is registered and    *)
(* has seen the channel empty since.                                       *)
(***************************************************************************)
Rousing == woken \/ At("store") # {} \/ At("wake") # {}
Settled == rpc = "parked" \/ (rpc = "yield" /\ task)

\* A task that sleeps is registered, or something will wake it.
Parked == rpc = "parked" => elem = 0 /\ (task \/ Rousing)

\* What it may have missed is counted, or pushed by a sender that is about to count.
Quiet ==
  Settled => \/ Rousing
             \/ At("notify") # {}
             \/ /\ live # {}
                /\ queue <= pending + Cardinality(At("sent"))
                /\ pending < NotifySize \/ queue <= Cardinality(At("sent"))
                /\ sends - queue >= flushed \/ At("flush") # {} \/ At("holding") # {}

\* The invariant a step preserves: a sleeping or settling receiver misses only
\* messages that are counted towards, or will still lead to, the next notify.
IInv == TypeOK /\ NotifierOnce /\ Conserved /\ flushed <= sends /\ Parked /\ Quiet
=============================================================================

------------------------------ MODULE FsmState ------------------------------
(***************************************************************************)
(* The hand-over of one FSM between its mailbox, the scheduler channel and *)
(* the pollers, at the granularity of the atomic operations of             *)
(* batch_system/src/fsm.rs and mailbox.rs.  Clients send and close, pollers *)
(* poll; what a poller's handler sends or closes is done by a client.  A    *)
(* thread's program counter is the next atomic operation it runs.  The     *)
(* messages are counted, their contents never matter here.                 *)
(***************************************************************************)
EXTENDS Naturals

CONSTANTS Clients,   \* threads that send to the mailbox or close it
          Pollers,   \* threads of the poll pool
          MaxSends   \* bound on the number of messages sent

ASSUME MaxSendsAssumption == MaxSends \in Nat

Threads == Clients \cup Pollers

VARIABLES
  status,     \* FsmState::status
  data,       \* FsmState::data is not null: the boxed FSM is in the slot
  connected,  \* mpsc State::connected of the mailbox's channel
  queue,      \* number of messages in that channel
  sched,      \* number of times the FSM is in the scheduler channel
  pool,       \* the pollers and their channel: "running", "stopping", "gone"
  handles,    \* some mailbox handle (an Arc of the FsmState) still exists
  live,       \* the FSM has not been dropped
  waiting,    \* the FSM waits for its merge source (wait_merge_state)
  pc,         \* next atomic operation of each thread
  ret,        \* where a thread goes once mailbox.release has returned
  checked,    \* checked_len of each thread
  seen,       \* history: messages in the channel when the FSM last looked at it
  sent,       \* number of sends begun, for the bound
  panicked    \* a panic! was reached, or a null box was dropped

vars == <<status, data, connected, queue, sched, pool, handles, live, waiting,
          pc, ret, checked, seen, sent, panicked>>

chan == <<connected, queue, sent>>
sys  == <<sched, pool, handles>>
loc  == <<ret, checked>>

Polling   == {"poll", "resume"}
Releasing == {"release", "rel_cas", "rel_drop", "remove"}
PCs == {"ready", "push", "notify", "swap", "schedule", "check", "retake",
        "retake_swap", "clear", "clear_data"} \cup Polling \cup Releasing

TypeOK == /\ status \in {"NOTIFIED", "IDLE", "DROP"}
          /\ data \in BOOLEAN /\ connected \in BOOLEAN /\ live \in BOOLEAN
          /\ waiting \in BOOLEAN /\ handles \in BOOLEAN /\ panicked \in BOOLEAN
          /\ queue \in Nat /\ sched \in Nat /\ seen \in Nat /\ sent \in Nat
          /\ pool \in {"running", "stopping", "gone"}
          /\ pc \in [Threads -> PCs]
          /\ ret \in [Threads -> {"check", "ready"}]
          /\ checked \in [Threads -> Nat]

\* BasicMailbox::new / FsmState::new: an idle FSM in its slot.
Init == /\ status = "IDLE" /\ data = TRUE
        /\ connected = TRUE /\ queue = 0
        /\ sched = 0 /\ pool = "running" /\ handles = TRUE
        /\ live = TRUE /\ waiting = FALSE
        /\ pc = [t \in Threads |-> "ready"]
        /\ ret = [t \in Threads |-> "check"]
        /\ checked = [t \in Threads |-> 0]
        /\ seen = 0 /\ sent = 0 /\ panicked = FALSE

Goto(t, from, to) == pc[t] = from /\ pc' = [pc EXCEPT ![t] = to]

\* Dropping the box drops the channel's receiver with it.
DropFsm == live' = FALSE /\ connected' = FALSE /\ queue' = 0 /\ UNCHANGED sent
KeepFsm == UNCHANGED <<live, chan>>
-----------------------------------------------------------------------------
(***************************************************************************)
(* Sending: the connected check and the push are two steps, and so are the *)
(* push and the notification.                                              *)
(***************************************************************************)
SendCheck(t) ==
  /\ handles /\ sent < MaxSends
  /\ Goto(t, "ready", IF connected THEN "push" ELSE "ready")
  /\ sent' = sent + 1
  /\ UNCHANGED <<status, data, connected, queue, sys, live, waiting, loc, seen, panicked>>

\* Mutated form of Push: the message is sent and the FSM not notified.
PushUnnotified(t) ==
  /\ Goto(t, "push", "ready")
  /\ queue' = IF live THEN queue + 1 ELSE queue
  /\ UNCHANGED <<status, data, connected, sent, sys, live, waiting, loc, seen, panicked>>

\* crossbeam refuses the message once the receiver is dropped.
Push(t) ==
  /\ Goto(t, "push", IF live THEN "notify" ELSE "ready")
  /\ queue' = IF live THEN queue + 1 ELSE queue
  /\ UNCHANGED <<status, data, connected, sent, sys, live, waiting, loc, seen, panicked>>

\* Mutated form of TakeStatus: a load and a store in place of compare_and_swap.
TakeStatusByStore(t, from, won, lost) ==
  /\ Goto(t, from, IF status # "DROP" THEN won ELSE lost)
  /\ status' = IF status # "DROP" THEN "NOTIFIED" ELSE status
  /\ UNCHANGED <<data, chan, sys, live, waiting, loc, seen, panicked>>

\* take_fsm, first half: compare_and_swap(IDLE, NOTIFIED).
TakeStatus(t, from, won, lost) ==
  /\ Goto(t, from, IF status = "IDLE" THEN won ELSE lost)
  /\ status' = IF status = "IDLE" THEN "NOTIFIED" ELSE status
  /\ UNCHANGED <<data, chan, sys, live, waiting, loc, seen, panicked>>

\* Mutated form of TakeData: the pointer is loaded and stays in the slot.
TakeDataByLoad(t, from, to) ==
  /\ Goto(t, from, IF data THEN to ELSE "ready")
  /\ panicked' = (panicked \/ ~data)
  /\ UNCHANGED <<status, data, chan, sys, live, waiting, loc, seen>>

\* take_fsm, second half: data.swap(null).
TakeData(t, from, to) ==
  /\ Goto(t, from, IF data THEN to ELSE "ready")
  /\ data' = FALSE
  /\ panicked' = (panicked \/ ~data)
  /\ UNCHANGED <<status, chan, sys, live, waiting, loc, seen>>

NotifyStatus(t) == TakeStatus(t, "notify", "swap", "ready")
NotifyData(t)   == TakeData(t, "swap", "schedule")

\* schedule: the box goes to the scheduler channel, or is dropped with the
\* error when the channel's receivers are gone.
Schedule(t) ==
  /\ Goto(t, "schedule", "ready")
  /\ IF pool = "gone" THEN DropFsm /\ UNCHANGED sched
                      ELSE sched' = sched + 1 /\ KeepFsm
  /\ UNCHANGED <<status, data, pool, handles, waiting, loc, seen, panicked>>
-----------------------------------------------------------------------------
(***************************************************************************)
(* Polling: handle_normal of the two handlers (fsm/store.rs, fsm/apply.rs), *)
(* reduced to what they take from the channel and the length they return.  *)
(* A return of None leaves the FSM in the batch: the thread stays at "poll". *)
(***************************************************************************)

Recv(t) ==
  /\ pool # "gone" /\ sched > 0
  /\ Goto(t, "ready", "poll")
  /\ sched' = sched - 1
  /\ UNCHANGED <<status, data, chan, pool, handles, live, waiting, loc, seen, panicked>>

\* One message; the one that makes the FSM wait for a merge ends the round with
\* Some(0), to be checked again at once (apply.rs:3248-3250).
Receive(t) ==
  /\ pc[t] = "poll" /\ ~waiting /\ queue > 0
  /\ queue' = queue - 1
  /\ \E w \in BOOLEAN :
       /\ waiting' = w
       /\ pc'      = [pc EXCEPT ![t] = IF w THEN "release" ELSE "poll"]
       /\ checked' = [checked EXCEPT ![t] = IF w THEN 0 ELSE checked[t]]
       /\ ret'     = [ret EXCEPT ![t] = "check"]
  /\ seen' = 0
  /\ UNCHANGED <<status, data, connected, sent, sys, live, panicked>>

\* try_recv found the channel empty: Some(0).
FindEmpty(t) ==
  /\ ~waiting /\ queue = 0
  /\ Goto(t, "poll", "release")
  /\ checked' = [checked EXCEPT ![t] = 0]
  /\ ret'     = [ret EXCEPT ![t] = "check"]
  /\ seen' = 0
  /\ UNCHANGED <<status, data, chan, sys, live, waiting, panicked>>

\* A waiting FSM reads the length BEFORE it resumes (apply.rs:3210-3214) ...
QueryLen(t) ==
  /\ waiting
  /\ Goto(t, "poll", "resume")
  /\ checked' = [checked EXCEPT ![t] = queue]
  /\ ret'     = [ret EXCEPT ![t] = "check"]
  /\ UNCHANGED <<status, data, chan, sys, live, waiting, seen, panicked>>

\* Mutated form of Resume: the look at the source comes first, the length second.
ResumeThenQuery(t) ==
  /\ Goto(t, "resume", "release")
  /\ seen'    = checked[t]
  /\ checked' = [checked EXCEPT ![t] = queue]
  /\ UNCHANGED <<status, data, chan, sys, live, waiting, ret, panicked>>

\* ... and then looks whether its source is done: either it goes on waiting and
\* returns that length, or it proceeds.
Resume(t) ==
  /\ pc[t] = "resume"
  /\ \E w \in BOOLEAN :
       /\ waiting' = w
       /\ pc' = [pc EXCEPT ![t] = IF w THEN "release" ELSE "poll"]
  /\ seen' = queue
  /\ UNCHANGED <<status, data, chan, sys, live, loc, panicked>>

\* is_stopped: a peer or a delegate closes its mailbox before it stops
\* (fsm/peer.rs:1786-1787, fsm/apply.rs:1166-1167); one that waits for a merge
\* handles no message, the one that would stop it included.
Stop(t) ==
  /\ status = "DROP" /\ ~waiting
  /\ Goto(t, "poll", "remove")
  /\ UNCHANGED <<status, data, chan, sys, live, waiting, loc, seen, panicked>>
-----------------------------------------------------------------------------
(***************************************************************************)
(* Batch::release and Batch::remove, release_control and remove_control.   *)
(***************************************************************************)
Remove(t) ==
  /\ Goto(t, "remove", IF queue = 0 THEN "release" ELSE "poll")
  /\ ret' = [ret EXCEPT ![t] = IF queue = 0 THEN "ready" ELSE ret[t]]
  /\ UNCHANGED <<status, data, chan, sys, live, waiting, checked, seen, panicked>>

ReleaseData(t) ==
  /\ Goto(t, "release", IF data THEN "ready" ELSE "rel_cas")
  /\ data' = TRUE
  /\ panicked' = (panicked \/ data)
  /\ UNCHANGED <<status, chan, sys, live, waiting, loc, seen>>

\* Mutated form of ReleaseStatus: a closed FSM is put back and not dropped.
ReleaseStatusKeeps(t) ==
  /\ Goto(t, "rel_cas", "ready")
  /\ status' = IF status = "NOTIFIED" THEN "IDLE" ELSE status
  /\ panicked' = (panicked \/ status = "IDLE")
  /\ UNCHANGED <<data, chan, sys, live, waiting, loc, seen>>

ReleaseStatus(t) ==
  /\ Goto(t, "rel_cas", CASE status = "NOTIFIED" -> ret[t]
                          [] status = "DROP"     -> "rel_drop"
                          [] status = "IDLE"     -> "ready")
  /\ status' = IF status = "NOTIFIED" THEN "IDLE" ELSE status
  /\ panicked' = (panicked \/ status = "IDLE")
  /\ UNCHANGED <<data, chan, sys, live, waiting, loc, seen>>

ReleaseDrop(t) ==
  /\ Goto(t, "rel_drop", ret[t])
  /\ data' = FALSE
  /\ panicked' = (panicked \/ ~data)
  /\ DropFsm
  /\ UNCHANGED <<status, sys, waiting, loc, seen>>

\* Mutated form of CheckLen: release ends without looking at the channel again.
CheckLenSkipped(t) ==
  /\ Goto(t, "check", "ready")
  /\ UNCHANGED <<status, data, chan, sys, live, waiting, loc, seen, panicked>>

\* mailbox.len() == checked_len, and otherwise the FSM is taken back.
CheckLen(t) ==
  /\ Goto(t, "check", IF queue = checked[t] THEN "ready" ELSE "retake")
  /\ UNCHANGED <<status, data, chan, sys, live, waiting, loc, seen, panicked>>

RetakeStatus(t) == TakeStatus(t, "retake", "retake_swap", "ready")
RetakeData(t)   == TakeData(t, "retake_swap", "poll")
-----------------------------------------------------------------------------
(***************************************************************************)
(* Closing, shutting down, and the end of the last handle.                 *)
(***************************************************************************)
\* BasicMailbox::close: close_lightlikeer, then FsmState::clear.
Close(t) ==
  /\ handles
  /\ Goto(t, "ready", "clear")
  /\ connected' = FALSE
  /\ UNCHANGED <<status, data, queue, sent, sys, live, waiting, loc, seen, panicked>>

ClearStatus(t) ==
  /\ Goto(t, "clear", IF status = "IDLE" THEN "clear_data" ELSE "ready")
  /\ status' = "DROP"
  /\ UNCHANGED <<data, chan, sys, live, waiting, loc, seen, panicked>>

ClearData(t) ==
  /\ Goto(t, "clear_data", "ready")
  /\ data' = FALSE
  /\ IF data THEN DropFsm ELSE KeepFsm
  /\ UNCHANGED <<status, sys, waiting, loc, seen, panicked>>

\* Router::broadcast_shutdown sends the Empty markers.
Shutdown ==
  /\ pool = "running" /\ pool' = "stopping"
  /\ UNCHANGED <<status, data, chan, sched, handles, live, waiting, pc, loc, seen, panicked>>

\* A poller that read a marker leaves its loop: Batch::clear drops the batch.
PollerExit(t) ==
  /\ pool = "stopping"
  /\ Goto(t, "poll", "ready")
  /\ DropFsm
  /\ UNCHANGED <<status, data, sys, waiting, loc, seen, panicked>>

\* The batch system is dropped, with what is left in the scheduler channel.
DropChannel ==
  /\ pool = "stopping"
  /\ \A t \in Threads : pc[t] \notin Polling \cup Releasing
  /\ pool' = "gone" /\ sched' = 0
  /\ IF sched > 0 THEN DropFsm ELSE KeepFsm
  /\ UNCHANGED <<status, data, handles, waiting, pc, loc, seen, panicked>>

\* Drop for FsmState: the last handle goes, while the FSM (which holds a handle
\* whenever it is outside its slot) is in the slot or dropped.
DropState ==
  /\ handles /\ sched = 0
  /\ \A t \in Threads : pc[t] = "ready"
  /\ handles' = FALSE
  /\ data' = FALSE
  /\ IF data THEN DropFsm ELSE KeepFsm
  /\ UNCHANGED <<status, sched, pool, waiting, pc, loc, seen, panicked>>

Send(t)  == SendCheck(t) \/ Push(t) \/ NotifyStatus(t) \/ NotifyData(t) \/ Schedule(t)
Poll(t)  == Receive(t) \/ FindEmpty(t) \/ QueryLen(t) \/ Resume(t) \/ Stop(t) \/ Remove(t)
Release(t) == \/ ReleaseData(t) \/ ReleaseStatus(t) \/ ReleaseDrop(t)
              \/ CheckLen(t) \/ RetakeStatus(t) \/ RetakeData(t)
Clear(t) == Close(t) \/ ClearStatus(t) \/ ClearData(t)

Next == \/ \E c \in Clients : Send(c) \/ Clear(c)
        \/ \E p \in Pollers : Recv(p) \/ Poll(p) \/ Release(p) \/ PollerExit(p)
        \/ Shutdown \/ DropChannel \/ DropState

\* A thread that began an operation goes on with it, handlers return, pollers
\* receive what is scheduled, and a stopped pool is dropped in the end.  A round
\* takes messages before it looks at is_stopped, hence the strong fairness of
\* Receive.  Nobody has to send, to close or to shut down.
ClientProgress(c) == \/ Push(c) \/ NotifyStatus(c) \/ NotifyData(c) \/ Schedule(c)
                     \/ ClearStatus(c) \/ ClearData(c)
PollerProgress(p) == Recv(p) \/ Poll(p) \/ Release(p) \/ PollerExit(p)

Fairness == /\ \A c \in Clients : WF_vars(ClientProgress(c))
            /\ \A p \in Pollers : WF_vars(PollerProgress(p)) /\ SF_vars(Receive(p))
            /\ WF_vars(DropChannel)

Spec == Init /\ [][Next]_vars
FairSpec == Spec /\ Fairness
-----------------------------------------------------------------------------
(***************************************************************************)
(* Properties.                                                             *)
(***************************************************************************)
Holding == {"schedule", "poll", "resume", "release", "remove"}

Holds(t) == pc[t] \in Holding

\* The boxed FSM is in exactly one place while it lives - the slot, the scheduler
\* channel, or the hands of one thread - and nowhere once it is dropped: the raw
\* pointers of fsm.rs never alias, leak or dangle.
SingleOwner ==
  /\ live => data \/ sched > 0 \/ \E t \in Threads : Holds(t)
  /\ data => live /\ sched = 0 /\ \A t \in Threads : ~Holds(t)
  /\ sched > 0 => live /\ sched = 1 /\ \A t \in Threads : ~Holds(t)
  /\ \A t \in Threads : Holds(t) => live /\ \A u \in Threads \ {t} : ~Holds(u)

\* take_fsm never finds the slot of an IDLE FSM empty, and release never finds
\* its slot full or its status IDLE: the two panic! of fsm.rs are unreachable.
NoPanic == ~panicked

\* A thread that is bound to take the FSM if it is still idle.
Rousing(t) == \/ pc[t] \in {"notify", "retake"}
              \/ pc[t] = "check" /\ queue # checked[t]

\* An idle FSM with more messages than when it last looked always has a thread
\* about to wake it: no interleaving of a send with Batch::release
\* loses the wake-up (batch.rs:116-138).
NoLostWakeup ==
  live /\ status = "IDLE" /\ queue > seen => \E t \in Threads : Rousing(t)

(***************************************************************************)
(* The inductive invariant behind SingleOwner, NoPanic and NoLostWakeup.   *)
(* A thread claims the FSM from the compare_and_swap that won it to the    *)
(* operation that gives it away; at most one thread does.                  *)
(***************************************************************************)
Claims(t) == Holds(t) \/ pc[t] \in {"swap", "retake_swap", "rel_cas", "rel_drop", "clear_data"}

OneClaim == /\ \A t, u \in Threads : Claims(t) /\ Claims(u) => t = u
            /\ sched > 0 => sched = 1 /\ live /\ ~data /\ status # "IDLE"
                           /\ \A t \in Threads : ~Claims(t)
            /\ live => data \/ sched > 0 \/ \E t \in Threads : Holds(t)
            /\ data => live

IdleInSlot == handles /\ status = "IDLE" =>
                data /\ live /\ sched = 0 /\ \A t \in Threads : ~Claims(t)

Ended == ~handles => /\ ~live /\ ~data /\ sched = 0
                     /\ \A t \in Threads : pc[t] = "ready"

Claim(t) ==
  /\ Holds(t) => live /\ ~data /\ status # "IDLE"
  /\ pc[t] \in {"swap", "retake_swap", "rel_cas"} => live /\ data /\ status # "IDLE"
  /\ pc[t] \in {"rel_drop", "clear_data"} => live /\ data /\ status = "DROP"

Declared(t) ==
  /\ pc[t] = "resume" => checked[t] <= queue /\ ret[t] = "check"
  /\ pc[t] \in {"release", "rel_cas"} =>
       IF ret[t] = "check" THEN checked[t] <= seen ELSE status = "DROP"
  /\ pc[t] = "remove" => status = "DROP"

Roused == live /\ status = "IDLE" /\ queue > seen =>
            \E t \in Threads : \/ pc[t] \in {"notify", "retake"}
                               \/ pc[t] = "check" /\ checked[t] <= seen

\* Holds in every reachable state and is preserved by every step: it implies
\* SingleOwner, NoPanic and NoLostWakeup.
IInv == /\ TypeOK /\ NoPanic
        /\ OneClaim /\ IdleInSlot /\ Ended /\ Roused
        /\ \A t \in Threads : Claim(t) /\ Declared(t)

\* The mailbox implements FsmOwner.
Owner == INSTANCE FsmOwner WITH
  place <- IF ~live THEN "dropped" ELSE IF status = "IDLE" THEN "idle" ELSE "busy",
  mail  <- queue

\* The mailbox keeps the promise of FsmOwner: only a busy FSM consumes or looks,
\* and an idle one is woken for every message it has not accounted for.
ImplementsOwner == Owner!Spec

\* Every message that reached the channel is consumed or dropped with the FSM,
\* unless the FSM waits for a merge source with it.
MailServed == queue > 0 ~> queue = 0 \/ waiting

\* The FSM of a closed mailbox is dropped in the end, wherever close caught it.
ClosedIsDropped == status = "DROP" ~> ~live
=============================================================================

----------------------------- MODULE ResolvedTs -----------------------------
(***************************************************************************)
(* The resolved timestamp of one brane: transactions whose writes are      *)
(* applied in batches, the change data observer that reports them, the     *)
(* scan of the locks that were there before, and the Resolver that turns   *)
(* locks and timestamps into "no more commit will happen before".          *)
(* Clients and the timestamp oracle are external; the tasks of the change  *)
(* data endpoint are run in the order they were scheduled. The brane is    *)
(* registered once and stays: errors that deregister it are left out, and  *)
(* so are the clients that are sent the events.                            *)
(***************************************************************************)
EXTENDS Naturals, Sequences, FiniteSets, FiniteSetsExt, SequencesExt

CONSTANTS Txns,
          KeysOf,     \* the keys each transaction writes, disjoint
          MaxTs,      \* bound on the timestamps given out
          MaxTasks,   \* bound on the tasks waiting when a min_ts is scheduled
          MaxApply    \* bound on the entries applied before a write to the engine

Keys == UNION {KeysOf[t] : t \in Txns}
TxnOf(k) == CHOOSE t \in Txns : k \in KeysOf[t]

VARIABLES
  tso,           \* last timestamp given out
  sts, cts,      \* start and commit timestamp of each transaction, 0 if none yet
  fate,          \* "open", "commit" or "rollback"
  kst,           \* what has been applied for each key
  acked,         \* keys whose prewrite was answered
  wb,            \* keys in the write batch whose callbacks are due
  apc,           \* "apply", or "callback" between on_flush_apply and invoke_all
  observing,     \* observe_cmd of the apply state machine is set
  batches,       \* cmd_batches of the observer
  scan,          \* the scan of old locks: "none", "running" or "done"
  snap,          \* the locks in its snapshot
  minTs,         \* the min_ts being brought to the endpoint, and whether there is one
  tasks,         \* scheduled tasks of the endpoint
  pending,       \* Plightlikeing::locks
  ready,         \* pushdown_causet::resolver is Some
  locks,         \* Resolver::locks: pairs of start timestamp and key
  rts, rmin,     \* Resolver::resolved_ts and Resolver::min_ts
  panicked

clients == <<tso, sts, cts, fate>>
apply == <<kst, acked, wb, apc, observing, batches>>
source == <<scan, snap, minTs>>
endpoint == <<pending, ready, locks, rts, rmin, panicked>>
vars == <<clients, apply, source, tasks, endpoint>>

Ts == 0 .. MaxTs
Event == [op : {"track"}, key : Keys, start : Ts]
           \cup [op : {"untrack"}, key : Keys, start : Ts, commit : Ts]
Task == Event \cup [op : {"ready"}, locks : SUBSET (Ts \X Keys)] \cup [op : {"min"}, ts : Ts]

TypeOK ==
  /\ tso \in Ts /\ sts \in [Txns -> Ts] /\ cts \in [Txns -> Ts]
  /\ fate \in [Txns -> {"open", "commit", "rollback"}]
  /\ kst \in [Keys -> {"none", "locked", "committed", "rolledback"}]
  /\ acked \subseteq Keys /\ Len(wb) <= MaxApply /\ Range(wb) \subseteq Keys
  /\ apc \in {"apply", "callback"} /\ observing \in BOOLEAN
  /\ Range(batches) \subseteq Event /\ Range(tasks) \subseteq Task /\ Range(pending) \subseteq Event
  /\ scan \in {"none", "running", "done"} /\ snap \subseteq Ts \X Keys
  /\ minTs \in [due : BOOLEAN, ts : Ts]
  /\ ready \in BOOLEAN /\ locks \subseteq Ts \X Keys /\ rts \in Ts /\ rmin \in Ts
  /\ panicked \in BOOLEAN

Init ==
  /\ tso = 0 /\ sts = [t \in Txns |-> 0] /\ cts = [t \in Txns |-> 0]
  /\ fate = [t \in Txns |-> "open"]
  /\ kst = [k \in Keys |-> "none"] /\ acked = {} /\ wb = <<>> /\ apc = "apply"
  /\ observing = FALSE /\ batches = <<>>
  /\ scan = "none" /\ snap = {} /\ minTs = [due |-> FALSE, ts |-> 0]
  /\ tasks = <<>> /\ pending = <<>> /\ ready = FALSE /\ locks = {}
  /\ rts = 0 /\ rmin = 0 /\ panicked = FALSE
-----------------------------------------------------------------------------
(***************************************************************************)
(* Two-phase commit as the code relies on it (external): the commit        *)
(* timestamp is fetched after every prewrite was answered.                 *)
(***************************************************************************)
Begin(t) ==
  /\ sts[t] = 0 /\ tso < MaxTs
  /\ tso' = tso + 1 /\ sts' = [sts EXCEPT ![t] = tso + 1]
  /\ UNCHANGED <<cts, fate, apply, source, tasks, endpoint>>

FetchCommitTs(t) ==
  /\ sts[t] # 0 /\ fate[t] = "open" /\ KeysOf[t] \subseteq acked /\ tso < MaxTs
  /\ tso' = tso + 1 /\ cts' = [cts EXCEPT ![t] = tso + 1]
  /\ fate' = [fate EXCEPT ![t] = "commit"]
  /\ UNCHANGED <<sts, apply, source, tasks, endpoint>>

Abandon(t) ==
  /\ sts[t] # 0 /\ fate[t] = "open"
  /\ fate' = [fate EXCEPT ![t] = "rollback"]
  /\ UNCHANGED <<tso, sts, cts, apply, source, tasks, endpoint>>

\* What may be applied for key k, and what it leaves: a rollback also where no
\* prewrite came before.
Prewrites(k) == kst[k] = "none" /\ sts[TxnOf(k)] # 0
Commits(k) == kst[k] = "locked" /\ fate[TxnOf(k)] = "commit"
Rollbacks(k) == kst[k] \in {"none", "locked"} /\ fate[TxnOf(k)] = "rollback"
-----------------------------------------------------------------------------
(***************************************************************************)
(* The apply state machine and the observer.                               *)
(***************************************************************************)
Track(k) == [op |-> "track", key |-> k, start |-> sts[TxnOf(k)]]
Untrack(k, c) == [op |-> "untrack", key |-> k, start |-> sts[TxnOf(k)], commit |-> c]

\* Mutated form of ApplyEntry: the client is answered before the batch is flushed.
ApplyEntryAcks(k, to, event) ==
  /\ apc = "apply" /\ Len(wb) < MaxApply
  /\ kst' = [kst EXCEPT ![k] = to] /\ wb' = Append(wb, k) /\ acked' = acked \cup {k}
  /\ batches' = IF observing THEN Append(batches, event) ELSE batches
  /\ UNCHANGED <<apc, observing, clients, source, tasks, endpoint>>

\* One entry goes into the write batch and, if the brane is observed, to on_apply_cmd.
ApplyEntry(k, to, event) ==
  /\ apc = "apply" /\ Len(wb) < MaxApply
  /\ kst' = [kst EXCEPT ![k] = to] /\ wb' = Append(wb, k)
  /\ batches' = IF observing THEN Append(batches, event) ELSE batches
  /\ UNCHANGED <<acked, apc, observing, clients, source, tasks, endpoint>>

ApplyPrewrite(k) == Prewrites(k) /\ ApplyEntry(k, "locked", Track(k))
ApplyCommit(k) == Commits(k) /\ ApplyEntry(k, "committed", Untrack(k, cts[TxnOf(k)]))
ApplyRollback(k) == Rollbacks(k) /\ ApplyEntry(k, "rolledback", Untrack(k, 0))

\* The batches go to the endpoint, in order and in one piece.
on_flush_apply == tasks' = tasks \o batches /\ batches' = <<>>

\* write_to_db: the observer schedules what it has seen ...
FlushApply ==
  /\ apc = "apply" /\ wb # <<>> /\ apc' = "callback"
  /\ on_flush_apply
  /\ UNCHANGED <<kst, acked, wb, observing, clients, source, endpoint>>

\* ... before the callbacks answer the clients.
InvokeAll ==
  /\ apc = "callback" /\ apc' = "apply"
  /\ acked' = acked \cup Range(wb) /\ wb' = <<>>
  /\ UNCHANGED <<kst, observing, batches, clients, source, tasks, endpoint>>

LocksApplied == {<<sts[TxnOf(k)], k>> : k \in {j \in Keys : kst[j] = "locked"}}

\* Mutated form of HandleChange: the brane is observed from the end of the scan only.
HandleChangeLate ==
  /\ apc = "apply" /\ scan = "none"
  /\ acked' = acked \cup Range(wb) /\ wb' = <<>>
  /\ snap' = LocksApplied /\ scan' = "running"
  /\ UNCHANGED <<kst, apc, batches, minTs, observing, clients, tasks, endpoint>>

\* handle_change: what is in the write batch is written and answered, then the
\* snapshot is taken and the brane observed from here on.
HandleChange ==
  /\ apc = "apply" /\ scan = "none"
  /\ acked' = acked \cup Range(wb) /\ wb' = <<>>
  /\ observing' = TRUE /\ snap' = LocksApplied /\ scan' = "running"
  /\ UNCHANGED <<kst, apc, batches, minTs, clients, tasks, endpoint>>

\* The scan has tracked the locks of the snapshot: finish_building_resolver.
FinishScan ==
  /\ scan = "running" /\ scan' = "done"
  /\ tasks' = Append(tasks, [op |-> "ready", locks |-> snap]) /\ snap' = {}
  /\ UNCHANGED <<minTs, clients, apply, endpoint>>

\* register_min_ts_event: a timestamp is fetched (zero if that fails); no lock is held
\* in memory, so the concurrency manager does not lower it ...
FetchMinTs(ok) ==
  /\ ~minTs.due /\ (ok => tso < MaxTs)
  /\ tso' = IF ok THEN tso + 1 ELSE tso
  /\ minTs' = [due |-> TRUE, ts |-> IF ok THEN tso + 1 ELSE 0]
  /\ UNCHANGED <<sts, cts, fate, scan, snap, apply, tasks, endpoint>>

\* ... and the task scheduled after the leader has answered.
ScheduleMinTs ==
  /\ minTs.due /\ Len(tasks) < MaxTasks /\ minTs' = [due |-> FALSE, ts |-> 0]
  /\ tasks' = Append(tasks, [op |-> "min", ts |-> minTs.ts])
  /\ UNCHANGED <<scan, snap, clients, apply, endpoint>>

\* No leader answered: the timestamp is dropped and another one fetched later.
LeaderLost ==
  /\ minTs.due /\ minTs' = [due |-> FALSE, ts |-> 0]
  /\ UNCHANGED <<scan, snap, clients, apply, tasks, endpoint>>
-----------------------------------------------------------------------------
(***************************************************************************)
(* The resolver and the endpoint that runs the tasks.                      *)
(***************************************************************************)
track_lock(ls, e) == ls \cup {<<e.start, e.key>>}

\* The assertions of untrack_lock, with the resolver at r and m; commit 0 is None.
UntrackOk(ls, e, r, m) == e.commit # 0 => e.commit > r /\ e.commit > m /\ <<e.start, e.key>> \in ls
untrack_lock(ls, e) == ls \ {<<e.start, e.key>>}

OnLock(ls, e) == IF e.op = "track" THEN track_lock(ls, e) ELSE untrack_lock(ls, e)

\* The locks after each of the pending events, starting from those of the scan.
Replay(ls) == FoldLeft(OnLock, ls, pending)
ReplayOk(ls) == \A i \in 1 .. Len(pending) : pending[i].op = "untrack" =>
  UntrackOk(FoldLeft(OnLock, ls, SubSeq(pending, 1, i - 1)), pending[i], 0, 0)

\* sink_data: the resolver is told, or the event kept until there is one.
RunEvent(e) ==
  /\ IF ready
     THEN /\ locks' = OnLock(locks, e) /\ UNCHANGED pending
          /\ panicked' = (panicked \/ (e.op = "untrack" /\ ~UntrackOk(locks, e, rts, rmin)))
     ELSE pending' = Append(pending, e) /\ UNCHANGED <<locks, panicked>>
  /\ UNCHANGED <<ready, rts, rmin>>

\* on_brane_ready: the pending events are replayed on the resolver of the scan.
RunReady(ls) ==
  /\ ready' = TRUE /\ locks' = Replay(ls) /\ pending' = <<>> /\ rts' = 0 /\ rmin' = 0
  /\ panicked' = (panicked \/ ~ReplayOk(ls))

MinLock == Min({l[1] : l \in locks})
Lesser(a, b) == IF a < b THEN a ELSE b
Greater(a, b) == IF a > b THEN a ELSE b

\* A lock that is tracked late does not pull the resolved timestamp back.
resolve(ts) ==
  LET new == IF locks = {} THEN ts ELSE Lesser(MinLock, ts)
  IN  /\ rts' = Greater(rts, new) /\ rmin' = Greater(rmin, new)
      /\ UNCHANGED <<locks, pending, ready, panicked>>

\* on_min_ts; without a resolver it returns.
RunMinTs(ts) == IF ready THEN resolve(ts) ELSE UNCHANGED endpoint

RunTask ==
  /\ tasks # <<>> /\ tasks' = Tail(tasks)
  /\ LET e == Head(tasks)
     IN  \/ e.op \in {"track", "untrack"} /\ RunEvent(e)
         \/ e.op = "ready" /\ RunReady(e.locks)
         \/ e.op = "min" /\ RunMinTs(e.ts)
  /\ UNCHANGED <<clients, apply, source>>

Next == \/ \E t \in Txns : Begin(t) \/ FetchCommitTs(t) \/ Abandon(t)
        \/ \E k \in Keys : ApplyPrewrite(k) \/ ApplyCommit(k) \/ ApplyRollback(k)
        \/ FlushApply \/ InvokeAll \/ HandleChange \/ FinishScan
        \/ \E ok \in BOOLEAN : FetchMinTs(ok)
        \/ ScheduleMinTs \/ LeaderLost \/ RunTask

Spec == Init /\ [][Next]_vars
-----------------------------------------------------------------------------
(***************************************************************************)
(* Properties.                                                             *)
(***************************************************************************)
\* What the resolver says: once a timestamp is resolved, no commit at or below it is
\* still to be reported; every commit that early has been untracked already.
ResolvedRight ==
  ready => \A t \in Txns : cts[t] # 0 /\ cts[t] <= rts =>
    \A k \in KeysOf[t] : /\ kst[k] = "committed" /\ <<sts[t], k>> \notin locks
                         /\ \A i \in 1 .. Len(tasks) : tasks[i].op = "untrack" => tasks[i].key # k

\* A resolver that has run all that was observed tracks exactly the applied locks, and no
\* assertion of untrack_lock fails on the way, directly or when pending events are replayed.
LocksRight ==
  /\ TypeOK /\ ~panicked
  /\ ready /\ tasks = <<>> /\ batches = <<>> => locks = LocksApplied
=============================================================================

----------------------------- MODULE SnapApply -----------------------------
(***************************************************************************)
(* How a store replaces the data of a peer by a snapshot, and how it       *)
(* destroys a peer that may be in the middle of that. The peer writes its  *)
(* state to two engines, the brane worker clears and loads the data, the   *)
(* snapshot manager collects files that nobody uses, and the store may     *)
(* crash between any two steps and start again from what is on disk.       *)
(*                                                                         *)
(* A brane is a set of cells of the key space. Its data at an index is the *)
(* value <<brane, index>> in each of its cells. Snapshots are the only way *)
(* an index moves here: the log is its last and its commit index. A merge, *)
(* whose snapshot may cover other branes, is not modelled.                 *)
(***************************************************************************)
EXTENDS Naturals, Sequences, FiniteSets

CONSTANTS Branes, Cells,
          Cone,      \* Cone[b][i]: the cells of brane b at index i
          Present,   \* the branes with a peer at the beginning, of id 1 and at index 1
          Ids,       \* peer ids
          MaxLast,   \* bound on the last index of a log
          MaxMade,   \* bound on the peers created
          MaxCrash   \* bound on the crashes

\* Branes is finite, of which the proofs use that its subsets have a size; the branes of the
\* beginning have disjoint cones.
ASSUME SnapApplyAssumption ==
  /\ \A S \in SUBSET Branes : Cardinality(S) \in Nat
  /\ "none" \notin Branes /\ Cells \subseteq Nat /\ Ids \subseteq Nat \ {0}
  /\ Present \subseteq Branes /\ {MaxLast, MaxMade, MaxCrash} \subseteq Nat
  /\ \A b \in Branes : Cone[b] \in Seq((SUBSET Cells) \ {{}}) /\ (b \in Present => Cone[b] # <<>>)
  /\ \A b, o \in Present : b # o => Cone[b][1] \cap Cone[o][1] = {}

\* A cone is an interval, and the cones of one brane meet: it gives cells away when it is split, and
\* never moves to others altogether. Only the theorems about data use this.
ASSUME ConesAssumption ==
  \A b \in Branes : \A i, j \in DOMAIN Cone[b] :
    /\ Cone[b][i] \cap Cone[b][j] # {}
    /\ \A x, y \in Cone[b][i], c \in Cells : x <= c /\ c <= y => c \in Cone[b][i]

VARIABLES
  \* On disk.
  kv,       \* brane_state (state and peer id), apply_state (idx), snapshot_violetabft_state (saved)
  log,      \* the Raft engine: last and commit index
  data,     \* the cells
  files,    \* the received snapshots
  \* In memory.
  peer,     \* the peers
  status,   \* the job status a peer shares with its task
  queue,    \* the tasks of the brane worker
  delayed,  \* its plightlikeing_applies
  cones,    \* its plightlikeing_delete_cones
  job,      \* the apply_snap under way
  \* Of the model.
  made, crashes, panic,
  lost      \* ghost: branes whose file was deleted after their job was cancelled

disk == <<kv, log, data, files>>
worker == <<queue, delayed, cones, job>>
vars == <<disk, peer, status, worker, made, crashes, panic, lost>>

Nothing == <<"none", 0>>
Part == <<"part", 0>>
NoKv == [state |-> "None", id |-> 0, idx |-> 0, saved |-> 0]
NoLog == [last |-> 0, commit |-> 0]
NoPeer == [id |-> 0, idx |-> 0, snap |-> "Relax", removing |-> FALSE, pending |-> {}, pc |-> "idle"]
NoJob == [b |-> "none", step |-> "none", st |-> "own", id |-> 0, idx |-> 0]
NewPeer(id, idx, snap) == [NoPeer EXCEPT !.id = id, !.idx = idx, !.snap = snap]

Statuses == {"none", "PENDING", "RUNNING", "CANCELLING", "CANCELLED", "FINISHED", "FAILED"}
Steps == {"none", "read", "clear", "file", "ingest", "rest", "write", "finish"}

KvType == [state : {"None", "Normal", "Applying", "Tombstone"}, id : Nat, idx : Nat, saved : Nat]
LogType == [last : Nat, commit : Nat]
CellType == (Branes \cup {"none", "part"}) \X Nat
PeerType == [id : Nat, idx : Nat, snap : {"Relax", "Applying", "Aborted"}, removing : BOOLEAN,
             pending : SUBSET Nat, pc : {"idle", "written", "destroyed"}]
Task == [kind : {"Apply", "Destroy"}, b : Branes \cup {"none"}, st : Statuses \cup {"own"}, cells : SUBSET Cells]
JobType == [b : Branes \cup {"none"}, step : Steps, st : Statuses \cup {"own"}, id : Nat, idx : Nat]

TypeOK ==
  /\ kv \in [Branes -> KvType] /\ log \in [Branes -> LogType] /\ data \in [Cells -> CellType]
  /\ files \subseteq Branes \X Nat
  /\ peer \in [Branes -> PeerType] /\ status \in [Branes -> Statuses]
  /\ queue \in Seq(Task) /\ delayed \in Seq(Task) /\ cones \subseteq SUBSET Cells /\ job \in JobType
  /\ made \in Nat /\ crashes \in Nat /\ panic \in {"no", "job", "destroy", "start"} /\ lost \subseteq Branes

Exists(b) == peer[b].id # 0
Snaps(b) == DOMAIN Cone[b] \ (IF b \in Present THEN {1} ELSE {})
\* brane_cones and plightlikeing_snapshot_branes of StoreMeta.
Held(b) == IF peer[b].idx = 0 THEN {} ELSE Cone[b][peer[b].idx]
Claimed(b) == UNION {Cone[b][i] : i \in peer[b].pending}
FreeFor(b, C) == \A o \in Branes \ {b} : C \cap (Held(o) \cup Claimed(o)) = {}

Init ==
  /\ kv = [b \in Branes |-> IF b \in Present THEN [state |-> "Normal", id |-> 1, idx |-> 1, saved |-> 0] ELSE NoKv]
  /\ log = [b \in Branes |-> IF b \in Present THEN [last |-> 1, commit |-> 1] ELSE NoLog]
  /\ data = [c \in Cells |-> IF \E b \in Present : c \in Cone[b][1]
                             THEN <<CHOOSE b \in Present : c \in Cone[b][1], 1>> ELSE Nothing]
  /\ files = {}
  /\ peer = [b \in Branes |-> IF b \in Present THEN NewPeer(1, 1, "Relax") ELSE NoPeer]
  /\ status = [b \in Branes |-> "none"]
  /\ queue = <<>> /\ delayed = <<>> /\ cones = {} /\ job = NoJob
  /\ made = 0 /\ crashes = 0 /\ panic = "no" /\ lost = {}
-----------------------------------------------------------------------------
(***************************************************************************)
(* Messages.                                                               *)
(***************************************************************************)
\* A tombstone refuses the peer it names, and those before. It refuses messages of an old epoch
\* too; epochs are not modelled, so that more peers are created here.
check_msg(b, id) == kv[b].state = "None" \/ (kv[b].state = "Tombstone" /\ id > kv[b].id)

\* A Raft message creates a peer, uninitialized.
maybe_create_peer(b, id) ==
  /\ ~Exists(b) /\ made < MaxMade
  /\ check_msg(b, id)
  /\ \E i \in Snaps(b) : \A o \in Branes \ {b} : Cone[b][i] \cap Held(o) = {}
  /\ peer' = [peer EXCEPT ![b] = NewPeer(id, 0, "Relax")]
  /\ made' = made + 1
  /\ UNCHANGED <<disk, status, worker, crashes, panic, lost>>

\* A snapshot file has arrived, for a peer that has refused a MsgAppend; the message that goes with
\* it may come late or never.
Receive(b, i) ==
  /\ Exists(b) /\ <<b, i>> \notin files /\ i > peer[b].idx
  /\ files' = files \cup {<<b, i>>}
  /\ UNCHANGED <<kv, log, data, peer, status, worker, made, crashes, panic, lost>>

check_snapshot(b, i) == FreeFor(b, Cone[b][i])

\* The message of a snapshot. One that overlaps another brane is dropped and its file deleted;
\* Raft takes one that is ahead of its commit index.
on_snapshot_message(b, i) ==
  /\ Exists(b) /\ ~peer[b].removing /\ peer[b].pc = "idle" /\ <<b, i>> \in files
  /\ IF check_snapshot(b, i)
     THEN /\ i > peer[b].idx /\ i \notin peer[b].pending
          /\ peer' = [peer EXCEPT ![b].pending = @ \cup {i}]
          /\ UNCHANGED files
     ELSE /\ files' = files \ {<<b, i>>}
          /\ UNCHANGED peer
  /\ UNCHANGED <<kv, log, data, status, worker, made, crashes, panic, lost>>

\* Entries are appended that are not committed; a later snapshot may replace them.
Append_(b) ==
  /\ peer[b].idx > 0 /\ ~peer[b].removing /\ peer[b].pc = "idle" /\ peer[b].snap # "Applying"
  /\ log[b].last < MaxLast
  /\ log' = [log EXCEPT ![b].last = @ + 1]
  /\ UNCHANGED <<kv, data, files, peer, status, worker, made, crashes, panic, lost>>
-----------------------------------------------------------------------------
(***************************************************************************)
(* The Ready of a peer.                                                    *)
(***************************************************************************)
\* Mutated form of check_applying_snap: a cancelled job is taken for one under way.
check_applying_snapForgets(b) ==
  IF peer[b].snap = "Applying" /\ status[b] = "FINISHED" THEN "Relax" ELSE peer[b].snap

\* The new SnapState; a failed job panics.
check_applying_snap(b) ==
  IF peer[b].snap # "Applying" THEN peer[b].snap
  ELSE CASE status[b] = "FINISHED" -> "Relax"
         [] status[b] = "CANCELLED" -> "Aborted"
         [] OTHER -> "Applying"

Failed(b) == peer[b].snap = "Applying" /\ status[b] = "FAILED"

\* Mutated form of apply_snapshot: no copy of the Raft state is kept with it.
apply_snapshotAlone(b, i) == [state |-> "Applying", id |-> peer[b].id, idx |-> i, saved |-> kv[b].saved]

\* What the kv batch of a Ready with a snapshot holds.
apply_snapshot(b, i) == [state |-> "Applying", id |-> peer[b].id, idx |-> i, saved |-> i]

\* Of the snapshots that Raft took, the last one counts.
Newest(b, i) == \A j \in peer[b].pending : j <= i

\* handle_violetabft_ready_applightlike, to the write of the kv batch.
HandleReady(b) ==
  /\ Exists(b) /\ ~peer[b].removing /\ peer[b].pc = "idle"
  /\ LET s == check_applying_snap(b) IN
     CASE Failed(b) ->
            /\ panic' = "job"
            /\ UNCHANGED <<kv, peer>>
       [] s # "Applying" /\ peer[b].pending # {} ->
            /\ \E i \in peer[b].pending : Newest(b, i) /\ kv' = [kv EXCEPT ![b] = apply_snapshot(b, i)]
            /\ peer' = [peer EXCEPT ![b].snap = s, ![b].pc = "written"]
            /\ UNCHANGED panic
       [] OTHER ->
            /\ s # peer[b].snap
            /\ peer' = [peer EXCEPT ![b].snap = s]
            /\ UNCHANGED <<kv, panic>>
  /\ UNCHANGED <<log, data, files, status, worker, made, crashes, lost>>

Destroy(C) == [kind |-> "Destroy", b |-> "none", st |-> "own", cells |-> C]
Apply(b) == [kind |-> "Apply", b |-> b, st |-> "own", cells |-> {}]

\* From the start of the old cone to that of the new one, and from the end of the new one to that of
\* the old: whole ranges, with what may lie between the two cones.
Below(old, new) == {c \in Cells : (\E o \in old : o <= c) /\ \A n \in new : c < n}
Above(old, new) == {c \in Cells : (\E o \in old : c <= o) /\ \A n \in new : n < c}

clear_extra_data(old, new) ==
  (IF Below(old, new) = {} THEN <<>> ELSE <<Destroy(Below(old, new))>>)
    \o (IF Above(old, new) = {} THEN <<>> ELSE <<Destroy(Above(old, new))>>)

\* The write of the Raft batch, with entries that came after the snapshot, post_ready and
\* on_ready_apply_snapshot.
PostReady(b, more) ==
  /\ peer[b].pc = "written"
  /\ \E i \in peer[b].pending :
       /\ Newest(b, i) /\ i + more <= MaxLast
       /\ log' = [log EXCEPT ![b] = [last |-> i + more, commit |-> i]]
       /\ queue' = queue \o clear_extra_data(Held(b), Cone[b][i]) \o <<Apply(b)>>
       /\ peer' = [peer EXCEPT ![b] = NewPeer(@.id, i, "Applying")]
  /\ status' = [status EXCEPT ![b] = "PENDING"]
  /\ UNCHANGED <<kv, data, files, delayed, cones, job, made, crashes, panic, lost>>
-----------------------------------------------------------------------------
(***************************************************************************)
(* Destruction.                                                            *)
(***************************************************************************)
\* Mutated form of cancel_applying_snap: a running job counts as one that will not run.
cancel_applying_snapRunning(b) ==
  IF status[b] \in {"PENDING", "RUNNING"} THEN [done |-> TRUE, st |-> "CANCELLING", snap |-> "Aborted"]
  ELSE [done |-> check_applying_snap(b) # "Applying", st |-> status[b], snap |-> check_applying_snap(b)]

\* Whether the job will not run any more, its status and the SnapState.
cancel_applying_snap(b) ==
  CASE status[b] = "PENDING" -> [done |-> TRUE, st |-> "CANCELLING", snap |-> "Aborted"]
    [] status[b] = "RUNNING" -> [done |-> FALSE, st |-> "CANCELLING", snap |-> "Applying"]
    [] OTHER -> [done |-> check_applying_snap(b) # "Applying", st |-> status[b],
                 snap |-> check_applying_snap(b)]

\* The kv batch of destroy. The tombstone of an uninitialized peer names no peer.
Tombstone(b) == [state |-> "Tombstone", id |-> IF peer[b].idx = 0 THEN 0 ELSE peer[b].id, idx |-> 0,
                 saved |-> kv[b].saved]

\* A message tells the peer that it was removed. An uninitialized one goes at once, the others
\* when their apply fsm has ended.
MaybeDestroy(b) ==
  /\ Exists(b) /\ ~peer[b].removing /\ peer[b].pc = "idle"
  /\ LET applying == peer[b].snap = "Applying"
         c == IF applying THEN cancel_applying_snap(b)
              ELSE [done |-> TRUE, st |-> status[b], snap |-> peer[b].snap]
         direct == peer[b].idx = 0
     IN  IF applying /\ status[b] = "FAILED"
         THEN panic' = "job" /\ UNCHANGED <<peer, status, kv>>
         ELSE /\ c.done \/ status[b] = "RUNNING"
              /\ status' = [status EXCEPT ![b] = c.st]
              /\ peer' = [peer EXCEPT ![b].snap = c.snap, ![b].removing = c.done,
                                      ![b].pc = IF direct THEN "destroyed" ELSE @,
                                      ![b].pending = IF direct THEN {} ELSE @]
              /\ kv' = [kv EXCEPT ![b] = IF direct THEN Tombstone(b) ELSE @]
              /\ UNCHANGED panic
  /\ UNCHANGED <<log, data, files, worker, made, crashes, lost>>

\* destroy_peer and destroy, to the write of the kv batch.
DestroyPeer(b) ==
  /\ peer[b].removing /\ peer[b].pc = "idle"
  /\ IF peer[b].snap = "Applying"
     THEN panic' = "destroy" /\ UNCHANGED <<peer, kv>>
     ELSE /\ kv' = [kv EXCEPT ![b] = Tombstone(b)]
          /\ peer' = [peer EXCEPT ![b].pc = "destroyed", ![b].pending = {}]
          /\ UNCHANGED panic
  /\ UNCHANGED <<log, data, files, status, worker, made, crashes, lost>>

\* A task that outlives its peer keeps the status it has.
Orphan(t, b) == IF t.b = b /\ t.st = "own" THEN [t EXCEPT !.st = status[b]] ELSE t

\* The write of the Raft batch and what follows it.
DestroyEnd(b) ==
  /\ peer[b].pc = "destroyed"
  /\ log' = [log EXCEPT ![b] = NoLog]
  /\ queue' = [k \in DOMAIN queue |-> Orphan(queue[k], b)]
                \o (IF peer[b].idx > 0 THEN <<Destroy(Held(b))>> ELSE <<>>)
  /\ delayed' = [k \in DOMAIN delayed |-> Orphan(delayed[k], b)]
  /\ job' = Orphan(job, b)
  /\ peer' = [peer EXCEPT ![b] = NoPeer]
  /\ status' = [status EXCEPT ![b] = "none"]
  /\ UNCHANGED <<kv, data, files, cones, made, crashes, panic, lost>>
-----------------------------------------------------------------------------
(***************************************************************************)
(* The brane worker, one task at a time.                                   *)
(***************************************************************************)
Cleared(C) == [c \in Cells |-> IF c \in C THEN Nothing ELSE data[c]]
drain_overlap_cones(C) == {D \in cones : D \cap C # {}}

\* Mutated form of cleanup_overlap_cones: an overlapping cone stays for later.
cleanup_overlap_conesLater(C) == [left |-> cones, gone |-> {}]

\* The cones that are left, and the cells deleted with the others.
cleanup_overlap_cones(C) ==
  [left |-> cones \ drain_overlap_cones(C), gone |-> UNION drain_overlap_cones(C)]

\* An Apply task joins those that wait for the engine not to stall.
TakeApply ==
  /\ job = NoJob /\ queue # <<>> /\ Head(queue).kind = "Apply"
  /\ delayed' = Append(delayed, Head(queue))
  /\ queue' = Tail(queue)
  /\ UNCHANGED <<disk, peer, status, cones, job, made, crashes, panic, lost>>

\* A Destroy task registers its cone, and deletes the cones that no reader holds any more.
TakeDestroy ==
  /\ job = NoJob /\ queue # <<>> /\ Head(queue).kind = "Destroy"
  /\ LET C == Head(queue).cells
         o == cleanup_overlap_cones(C)
     IN  \E stale \in SUBSET (o.left \cup {C}) :
           /\ cones' = (o.left \cup {C}) \ stale
           /\ data' = Cleared(o.gone \cup UNION stale)
  /\ queue' = Tail(queue)
  /\ UNCHANGED <<kv, log, files, peer, status, delayed, job, made, crashes, panic, lost>>

\* The timer does the latter too.
clean_stale_cones ==
  /\ job = NoJob
  /\ \E stale \in (SUBSET cones) \ {{}} :
       /\ cones' = cones \ stale
       /\ data' = Cleared(UNION stale)
  /\ UNCHANGED <<kv, log, files, peer, status, queue, delayed, job, made, crashes, panic, lost>>

St == IF job.st = "own" THEN status[job.b] ELSE job.st
SetStatus(b, st, new) == IF st = "own" THEN status' = [status EXCEPT ![b] = new] ELSE UNCHANGED status

\* handle_plightlikeing_applies, handle_apply: the first task that waits.
StartJob ==
  /\ job = NoJob /\ delayed # <<>>
  /\ LET t == Head(delayed) IN
     /\ job' = [NoJob EXCEPT !.b = t.b, !.st = t.st, !.step = "read"]
     /\ IF t.st = "own" /\ status[t.b] = "PENDING"
        THEN status' = [status EXCEPT ![t.b] = "RUNNING"] ELSE UNCHANGED status
  /\ delayed' = Tail(delayed)
  /\ UNCHANGED <<disk, peer, queue, cones, made, crashes, panic, lost>>

\* apply_snap returns an error, or Ok, and handle_apply sets the status.
EndJob(st) ==
  /\ job' = NoJob /\ SetStatus(job.b, job.st, st)
  /\ UNCHANGED <<disk, peer, queue, delayed, cones, made, crashes, panic, lost>>

check_abort == job.step \in {"read", "clear", "file", "ingest", "rest"} /\ St = "CANCELLING"
AbortJob == check_abort /\ EndJob("CANCELLED")

FailJob ==
  /\ ~check_abort
  /\ \/ job.step = "read" /\ kv[job.b].state = "None"
     \/ job.step = "file" /\ (kv[job.b].idx = 0 \/ <<job.b, kv[job.b].idx>> \notin files)
  /\ EndJob("FAILED")

Goto(step) == job' = [job EXCEPT !.step = step]

\* It keeps the brane_state it reads for the write at the end.
ReadState ==
  /\ job.step = "read" /\ ~check_abort /\ kv[job.b].state # "None"
  /\ job' = [job EXCEPT !.step = "clear", !.id = kv[job.b].id, !.idx = kv[job.b].idx]
  /\ UNCHANGED <<disk, peer, status, queue, delayed, cones, made, crashes, panic, lost>>

JobCone == IF job.idx = 0 THEN {} ELSE Cone[job.b][job.idx]

ClearCone ==
  /\ job.step = "clear" /\ ~check_abort /\ Goto("file")
  /\ LET o == cleanup_overlap_cones(JobCone) IN
     /\ cones' = o.left
     /\ data' = Cleared(o.gone \cup JobCone)
  /\ UNCHANGED <<kv, log, files, peer, status, queue, delayed, made, crashes, panic, lost>>

OpenFile ==
  /\ job.step = "file" /\ ~check_abort /\ Goto("ingest")
  /\ kv[job.b].idx > 0 /\ <<job.b, kv[job.b].idx>> \in files
  /\ UNCHANGED <<disk, peer, status, queue, delayed, cones, made, crashes, panic, lost>>

Loaded(v) == [c \in Cells |-> IF c \in JobCone THEN v ELSE data[c]]

\* Some column families; and the others. Only the file of the lock column family looks at the
\* status, and it may be empty.
IngestSome ==
  /\ job.step = "ingest" /\ ~check_abort /\ Goto("rest")
  /\ data' = Loaded(Part)
  /\ UNCHANGED <<kv, log, files, peer, status, queue, delayed, cones, made, crashes, panic, lost>>

IngestRest ==
  /\ job.step = "rest" /\ Goto("write")
  /\ data' = Loaded(<<job.b, job.idx>>)
  /\ UNCHANGED <<kv, log, files, peer, status, queue, delayed, cones, made, crashes, panic, lost>>

WriteNormal ==
  /\ job.step = "write" /\ Goto("finish")
  /\ kv' = [kv EXCEPT ![job.b] = [@ EXCEPT !.state = "Normal", !.id = job.id, !.saved = 0]]
  /\ UNCHANGED <<log, data, files, peer, status, queue, delayed, cones, made, crashes, panic, lost>>

FinishJob == job.step = "finish" /\ EndJob("FINISHED")

JobStep == \/ AbortJob \/ FailJob \/ ReadState \/ ClearCone \/ OpenFile
           \/ IngestSome \/ IngestRest \/ WriteNormal \/ FinishJob
-----------------------------------------------------------------------------
(***************************************************************************)
(* The collection of snapshot files.                                       *)
(***************************************************************************)
\* Mutated form of on_gc_snap: a file is of no use once the peer has its index.
on_gc_snapApplied(b, i) == i <= peer[b].idx

\* A peer gives up the files it has got over.
on_gc_snap(b, i) == i < peer[b].idx \/ (i = peer[b].idx /\ peer[b].snap # "Applying")

\* The store sends each peer its idle files, and deletes those without a peer. A file that a job has
\* registered since it was listed as idle is deleted like the others.
handle_snap_mgr_gc(b, i) ==
  /\ <<b, i>> \in files
  /\ ~Exists(b) \/ (peer[b].pc = "idle" /\ on_gc_snap(b, i))
  /\ files' = files \ {<<b, i>>}
  /\ lost' = IF kv[b].state = "Applying" /\ kv[b].idx = i /\ peer[b].snap = "Aborted"
             THEN lost \cup {b} ELSE lost
  /\ UNCHANGED <<kv, log, data, peer, status, worker, made, crashes, panic>>
-----------------------------------------------------------------------------
(***************************************************************************)
(* A crash, and the start of the store.                                    *)
(***************************************************************************)
\* The Raft state that a brane in state Applying starts with.
recover_from_applying_state(b) ==
  IF kv[b].saved > log[b].last THEN [last |-> kv[b].saved, commit |-> kv[b].saved] ELSE log[b]

\* clear_stale_meta cleans the log of a tombstone.
StartLog(b) ==
  CASE kv[b].state = "Tombstone" -> NoLog
    [] kv[b].state = "Applying" -> recover_from_applying_state(b)
    [] OTHER -> log[b]

validate_states(b) ==
  LET l == StartLog(b) IN l.commit <= l.last /\ kv[b].idx <= l.commit

Live(b) == kv[b].state \in {"Normal", "Applying"}
Starts(b) == Live(b) => validate_states(b) /\ (kv[b].state = "Applying" => kv[b].saved > 0)

\* The store comes to the branes of its engine in the order of their ids, whichever that is.
Orders(S) == {s \in [1 .. Cardinality(S) -> S] : \A i, j \in DOMAIN s : s[i] = s[j] => i = j}

Crash ==
  LET applying == {b \in Branes : kv[b].state = "Applying"}
      covered == UNION {Cone[b][kv[b].idx] : b \in {o \in Branes : Live(o)}}
  IN
  /\ crashes < MaxCrash /\ crashes' = crashes + 1
  /\ peer' = [b \in Branes |-> IF Live(b)
                               THEN NewPeer(kv[b].id, kv[b].idx, IF b \in applying THEN "Applying" ELSE "Relax")
                               ELSE NoPeer]
  /\ log' = [b \in Branes |-> StartLog(b)]
  /\ status' = [b \in Branes |-> IF b \in applying THEN "PENDING" ELSE "none"]
  /\ queue' \in {[k \in DOMAIN s |-> Apply(s[k])] : s \in Orders(applying)}
  /\ delayed' = <<>> /\ cones' = {} /\ job' = NoJob
  /\ \E C \in SUBSET (Cells \ covered) : data' = Cleared(C)
  /\ panic' = IF \A b \in Branes : Starts(b) THEN panic ELSE "start"
  /\ UNCHANGED <<kv, files, made, lost>>
-----------------------------------------------------------------------------
PeerStep(b) == HandleReady(b) \/ DestroyPeer(b) \/ DestroyEnd(b) \/ (\E more \in 0 .. 1 : PostReady(b, more))
WorkerStep == TakeApply \/ TakeDestroy \/ StartJob \/ JobStep

Next ==
  /\ panic = "no"
  /\ \/ \E b \in Branes, id \in Ids : maybe_create_peer(b, id)
     \/ \E b \in Branes : \E i \in Snaps(b) :
          Receive(b, i) \/ on_snapshot_message(b, i) \/ handle_snap_mgr_gc(b, i)
     \/ \E b \in Branes : Append_(b) \/ MaybeDestroy(b) \/ PeerStep(b)
     \/ WorkerStep
     \/ clean_stale_cones
     \/ Crash

Spec == Init /\ [][Next]_vars

\* When the worker, and a peer, have something to do.
CanWork == queue # <<>> \/ delayed # <<>> \/ job # NoJob
CanStep(b) ==
  \/ peer[b].pc # "idle" \/ peer[b].removing \/ Failed(b)
  \/ check_applying_snap(b) # peer[b].snap
  \/ (peer[b].snap # "Applying" /\ peer[b].pending # {})

\* The peers are polled and the worker runs; the engine does not stall for ever. This is weak
\* fairness of WorkerStep and of each PeerStep, with the states in which they are enabled spelled
\* out.
LiveSpec ==
  /\ Spec
  /\ []<>(panic # "no" \/ ~CanWork) \/ []<><<WorkerStep>>_vars
  /\ \A b \in Branes : []<>(panic # "no" \/ ~CanStep(b)) \/ []<><<PeerStep(b)>>_vars
-----------------------------------------------------------------------------
(***************************************************************************)
(* Properties.                                                             *)
(***************************************************************************)
\* A brane whose state is Normal has the data of its index in all of its cells: no deletion that
\* was put off, of this brane or of one that had the cells before, and no job that was cut short
\* by a cancellation or a crash, leaves the state of apply_snap's last write with other data.
DataRight ==
  \A b \in Branes : kv[b].state = "Normal" =>
    kv[b].idx > 0 /\ \A c \in Cone[b][kv[b].idx] : data[c] = <<b, kv[b].idx>>

\* The log of before the snapshot reaches its index, without being committed so far.
OldLog(b) == kv[b].state = "Applying" /\ log[b].last >= kv[b].idx /\ log[b].commit < kv[b].idx

\* Whatever step a crash falls between, recover_from_applying_state and validate_states find the
\* two engines in agreement at the next start. The case that Recoverable is about is left out.
Recovers == \A b \in Branes : Starts(b) \/ OldLog(b)

\* The same without exception: the comments of recover_from_applying_state and of
\* handle_violetabft_ready say that the copy of the Raft state is there for a restart between the
\* two writes.
Recoverable == \A b \in Branes : Starts(b)

\* A peer that was destroyed does not come back: only one with a greater id takes the place of a
\* tombstone that names it, and no job that cancel_applying_snap counts as over does.
DestroyedStays ==
  [][\A b \in Branes : kv[b].state = "Tombstone" /\ kv'[b].state # "Tombstone" => kv'[b].id > kv[b].id]_vars

\* A peer is not destroyed while its snapshot is applied, and no job misses its file, unless it
\* was collected after an earlier job for it was cancelled. In particular a job that a restart
\* schedules again finds the file that on_gc_snap spared.
JobRight ==
  /\ TypeOK /\ panic # "destroy" /\ (panic = "job" => lost # {})
  /\ \A b \in Branes : status[b] = "FAILED" => b \in lost

\* The application of a snapshot ends, cancelled or not, and a peer that is being removed goes.
JobEnds ==
  \A b \in Branes :
    /\ peer[b].snap = "Applying" ~> (peer[b].snap # "Applying" \/ panic # "no")
    /\ peer[b].removing ~> (~peer[b].removing \/ panic # "no")
-----------------------------------------------------------------------------
(***************************************************************************)
(* The inductive invariant behind Recovers and DestroyedStays.             *)
(***************************************************************************)
\* What the two engines hold, after a panic too.
DiskRight(b) ==
  /\ kv[b].idx \in {0} \cup DOMAIN Cone[b]
  /\ log[b].commit <= log[b].last
  /\ kv[b].state \in {"Normal", "Applying"} => kv[b].id > 0 /\ kv[b].idx > 0
  /\ kv[b].state = "Applying" => kv[b].saved = kv[b].idx
  /\ kv[b].state = "Normal" => kv[b].idx <= log[b].commit

\* A peer and its state on disk.
PeerRight(b) ==
  /\ ~Exists(b) => peer[b] = NoPeer
  /\ peer[b].idx \in {0} \cup DOMAIN Cone[b] /\ peer[b].pending \subseteq Snaps(b)
  /\ peer[b].snap = "Applying" => peer[b].idx > 0 /\ peer[b].pc = "idle" /\ ~peer[b].removing
  /\ peer[b].pc = "idle" /\ peer[b].idx = 0 =>
       /\ kv[b].state \in {"None", "Tombstone"}
       /\ Exists(b) /\ kv[b].state = "Tombstone" => peer[b].id > kv[b].id
  /\ peer[b].pc = "idle" /\ peer[b].idx > 0 =>
       kv[b].state \in {"Normal", "Applying"} /\ kv[b].idx <= log[b].commit
  /\ peer[b].pc = "written" =>
       kv[b].state = "Applying" /\ ~peer[b].removing /\ kv[b].idx \in peer[b].pending /\ Newest(b, kv[b].idx)
  /\ peer[b].pc = "destroyed" => kv[b].state = "Tombstone" /\ peer[b].removing

\* A peer whose job was cancelled before it began, and is on its way out.
Dropped(b) == status[b] = "CANCELLING" /\ peer[b].snap = "Aborted" /\ peer[b].removing

\* A task for an Apply that waits has a peer that waits for it, or will do nothing.
TaskRight(t) ==
  \/ t.b = "none"
  \/ t.st = "CANCELLING"
  \/ t.st = "own" /\ Dropped(t.b)
  \/ t.st = "own" /\ status[t.b] = "PENDING" /\ peer[t.b].snap = "Applying" /\ kv[t.b].state = "Applying"

\* The same of the task that runs. From its read on, the state on disk is the one it has read.
RunsRight ==
  \/ job = NoJob
  \/ job.b # "none" /\ job.step = "read" /\ (job.st = "CANCELLING" \/ (job.st = "own" /\ Dropped(job.b)))
  \/ /\ job.b # "none" /\ job.st = "own" /\ job.step # "none"
     /\ peer[job.b].snap = "Applying" /\ status[job.b] \in {"RUNNING", "CANCELLING"}
     /\ job.step # "finish" => kv[job.b].state = "Applying"
     /\ job.step # "read" => job.id = kv[job.b].id

Own(s, b) == {k \in DOMAIN s : s[k].b = b /\ s[k].st = "own"}

\* No brane has two tasks that share the status of its peer.
OneTask(b) ==
  /\ \A k, l \in Own(queue, b) : k = l
  /\ \A k, l \in Own(delayed, b) : k = l
  /\ Own(queue, b) = {} \/ Own(delayed, b) = {}
  /\ job.b = b /\ job.st = "own" => Own(queue, b) = {} /\ Own(delayed, b) = {}

TasksRight ==
  /\ \A k \in DOMAIN queue : TaskRight(queue[k])
  /\ \A k \in DOMAIN delayed : TaskRight(delayed[k]) /\ delayed[k].b # "none"
  /\ \A k \in DOMAIN queue : queue[k].kind = "Apply" <=> queue[k].b # "none"

IInv ==
  /\ TypeOK
  /\ \A b \in Branes : DiskRight(b)
  /\ panic # "destroy"
  /\ panic = "no" => /\ \A b \in Branes : PeerRight(b) /\ OneTask(b)
                     /\ TasksRight /\ RunsRight
-----------------------------------------------------------------------------
(***************************************************************************)
(* What DataRight and JobRight need beyond it: how the cones of the branes *)
(* lie to each other and to the deletions that are still to come.          *)
(***************************************************************************)
\* The cells a brane has, or has taken a snapshot for, are no other brane's.
Apart == \A b, o \in Branes : b # o => (Held(b) \cup Claimed(b)) \cap (Held(o) \cup Claimed(o)) = {}

\* The files that a peer still needs are there; a peer is at the index on disk; one in state
\* Applying waits for its job, or knows that it was cancelled; a job not begun has loaded nothing.
FilesRight(b) ==
  /\ \A i \in peer[b].pending : i > peer[b].idx /\ <<b, i>> \in files
  /\ kv[b].state = "Applying" => b \in lost \/ <<b, kv[b].idx>> \in files
  /\ peer[b].pc = "idle" /\ peer[b].idx > 0 => kv[b].idx = peer[b].idx
  /\ peer[b].pc = "idle" /\ kv[b].state = "Applying" =>
       peer[b].snap # "Relax" /\ (peer[b].snap = "Applying" => status[b] # "FINISHED")
  /\ status[b] = "PENDING" \/ (status[b] = "CANCELLING" /\ peer[b].snap = "Aborted") => kv[b].state # "Normal"

\* A deletion in the queue comes before the task that loads the cells it is about.
DestroysRight ==
  \A k \in DOMAIN queue, b \in Branes : queue[k].cells \cap Held(b) # {} => \E l \in Own(queue, b) : k < l

Runs(b) == job.b = b /\ job.st = "own" /\ job.step \notin {"none", "read"}

\* One that was put off is about no loaded cells, and about none of the job once it has cleared.
ConesRight ==
  \A D \in cones, b \in Branes : D \cap Held(b) # {} =>
    kv[b].state # "Normal" /\ (Runs(b) => job.step = "clear")

\* The job loads the snapshot of the state it has read.
LoadRight ==
  \A b \in Branes : Runs(b) =>
    /\ job.idx = kv[b].idx
    /\ job.step = "write" => \A c \in Cone[b][kv[b].idx] : data[c] = <<b, kv[b].idx>>
    /\ job.step = "finish" => kv[b].state = "Normal"

DInv ==
  /\ DataRight /\ JobRight
  /\ panic = "no" => /\ Apart /\ (\A b \in Branes : FilesRight(b))
                     /\ DestroysRight /\ ConesRight /\ LoadRight
=============================================================================

--------------------------- MODULE SnapStepProofs ---------------------------
(***************************************************************************)
(* That SnapApply's invariant IInv holds at the beginning, and that every  *)
(* action keeps it; with the lemmas about tasks and queues.                *)
(***************************************************************************)
EXTENDS SnapApply, TLAPS

\* The snapshots a brane may get have positive indexes, and cones.
LEMMA SnapsNat == ASSUME NEW b \in Branes PROVE Snaps(b) \subseteq Nat \ {0} /\ Snaps(b) \subseteq DOMAIN Cone[b]
BY SnapApplyAssumption DEF Snaps, SnapApplyAssumption

\* The state the store begins with satisfies the invariant.
LEMMA InitIInv == Init => IInv
<1> SUFFICES ASSUME Init PROVE IInv BY Zenon
<1>1. TypeOK
  <2>1. kv \in [Branes -> KvType]
    BY Zenon DEF Init, NoKv, KvType
  <2>2. log \in [Branes -> LogType] BY Zenon DEF Init, NoLog, LogType
  <2>3. data \in [Cells -> CellType]
    <3>1. SUFFICES ASSUME NEW c \in Cells
                   PROVE  (IF \E b \in Present : c \in Cone[b][1]
                           THEN <<CHOOSE b \in Present : c \in Cone[b][1], 1>> ELSE Nothing)
                          \in CellType
      BY Zenon DEF Init
    <3>2. CASE \E b \in Present : c \in Cone[b][1]
      <4>1. (CHOOSE b \in Present : c \in Cone[b][1]) \in Present BY <3>2, Zenon
      <4> QED BY <4>1, <3>2, SnapApplyAssumption, Zenon DEF SnapApplyAssumption, CellType
    <3>3. CASE ~\E b \in Present : c \in Cone[b][1] BY <3>3, Zenon DEF Nothing, CellType
    <3> QED BY <3>2, <3>3, Zenon
  <2>4. peer \in [Branes -> PeerType]
    BY Zenon DEF Init, NewPeer, NoPeer, PeerType
  <2>5. status \in [Branes -> Statuses] BY Zenon DEF Init, Statuses
  <2>6. job \in JobType
    BY Zenon DEF Init, NoJob, JobType, Steps, Statuses
  <2>7. queue \in Seq(Task) /\ delayed \in Seq(Task) /\ cones \subseteq SUBSET Cells BY DEF Init
  <2>8. files \subseteq Branes \X Nat /\ made \in Nat /\ crashes \in Nat /\ lost \subseteq Branes BY Zenon DEF Init
  <2>9. panic \in {"no", "job", "destroy", "start"} BY Zenon DEF Init
  <2> QED BY <2>1, <2>2, <2>3, <2>4, <2>5, <2>6, <2>7, <2>8, <2>9, Zenon DEF TypeOK
<1>2. \A b \in Branes : DiskRight(b)
  BY SnapApplyAssumption DEF Init, DiskRight, NoKv, NoLog, SnapApplyAssumption
<1>3. \A b \in Branes : PeerRight(b) /\ OneTask(b)
  BY SnapApplyAssumption DEF Init, PeerRight, OneTask, Own, NoPeer, NewPeer, NoKv, NoLog, NoJob, Exists, SnapApplyAssumption
<1>4. TasksRight /\ RunsRight BY DEF Init, TasksRight, RunsRight
<1> QED BY <1>1, <1>2, <1>3, <1>4, Zenon DEF IInv, Init

\* The parts of IInv that speak of memory, and hold until a panic.
LEMMA Frame ==
  ASSUME IInv, TypeOK', UNCHANGED <<kv, log, peer, status, queue, delayed, job, panic>>
  PROVE  IInv'
<1>1. \A b \in Branes : DiskRight(b)' BY Zenon DEF IInv, DiskRight
<1>2. ASSUME panic = "no" PROVE (\A b \in Branes : PeerRight(b)' /\ OneTask(b)')
  BY <1>2 DEF IInv, PeerRight, Newest, OneTask, Own, Exists
<1>3. ASSUME panic = "no" PROVE TasksRight' /\ RunsRight'
  BY <1>3, ZenonT(40) DEF IInv, TasksRight, RunsRight, TaskRight, Dropped
<1> QED BY <1>1, <1>2, <1>3, Zenon DEF IInv

\* The arrival of a snapshot file keeps the invariant.
LEMMA ReceiveKeeps ==
  ASSUME IInv, NEW b \in Branes, NEW i \in Snaps(b), Receive(b, i)
  PROVE  IInv'
<1>1. i \in Nat BY SnapsNat, Zenon
<1>2. TypeOK' BY <1>1 DEF IInv, TypeOK, Receive, worker
<1> QED BY <1>2, Frame, Zenon DEF Receive, worker

\* The collection of a snapshot file (handle_snap_mgr_gc) keeps the invariant.
LEMMA GcKeeps ==
  ASSUME IInv, NEW b \in Branes, NEW i \in Snaps(b), handle_snap_mgr_gc(b, i)
  PROVE  IInv'
<1>1. TypeOK' BY Zenon DEF IInv, TypeOK, handle_snap_mgr_gc, worker
<1> QED BY <1>1, Frame, Zenon DEF handle_snap_mgr_gc, worker

\* The deletion of cells leaves them typed.
LEMMA ClearedType ==
  ASSUME TypeOK, NEW C
  PROVE  Cleared(C) \in [Cells -> CellType]
BY Zenon DEF TypeOK, Cleared, Nothing, CellType

\* The timer of the brane worker (clean_stale_cones) keeps the invariant.
LEMMA CleanKeeps ==
  ASSUME IInv, clean_stale_cones
  PROVE  IInv'
<1>1. PICK stale \in (SUBSET cones) \ {{}} : cones' = cones \ stale /\ data' = Cleared(UNION stale)
  BY Zenon DEF clean_stale_cones
<1>2. data' \in [Cells -> CellType] BY <1>1, ClearedType, Zenon DEF IInv
<1>3. TypeOK' BY <1>1, <1>2, Zenon DEF IInv, TypeOK, clean_stale_cones
<1> QED BY <1>3, Frame, Zenon DEF clean_stale_cones

\* What stands in a sequence of tasks is a task.
LEMMA SeqElem == ASSUME NEW S, NEW s \in Seq(S) PROVE \A k \in DOMAIN s : s[k] \in S
OBVIOUS

\* The tasks keep their meaning if queue, status and what the tasks look at stay.
LEMMA TasksSame ==
  ASSUME TypeOK, TypeOK', TasksRight, RunsRight, UNCHANGED <<queue, delayed, job, status>>,
         \A o \in Branes : /\ peer'[o].snap = peer[o].snap /\ peer'[o].removing = peer[o].removing
                           /\ peer[o].snap = "Applying" => kv'[o] = kv[o]
  PROVE  TasksRight' /\ RunsRight'
<1>1. ASSUME NEW t \in Task, TaskRight(t) PROVE TaskRight(t)'
  BY <1>1, Zenon DEF TaskRight, Dropped, Task
<1>2. \A k \in DOMAIN queue : queue[k] \in Task BY SeqElem, Zenon DEF TypeOK
<1>3. \A k \in DOMAIN delayed : delayed[k] \in Task BY SeqElem, Zenon DEF TypeOK
<1>4. TasksRight' BY <1>1, <1>2, <1>3, Zenon DEF TasksRight
<1>5. RunsRight' BY Zenon DEF RunsRight, Dropped, TypeOK, JobType
<1> QED BY <1>4, <1>5, Zenon

\* What the disk and the peer of a brane mean, and that it has one task, hold on while what they speak of stays.
LEMMA RowSame ==
  ASSUME NEW o \in Branes, DiskRight(o), PeerRight(o), peer'[o] = peer[o], kv'[o] = kv[o], log'[o] = log[o]
  PROVE  DiskRight(o)' /\ PeerRight(o)'
<1>1. DiskRight(o)' BY Zenon DEF DiskRight
<1>2. PeerRight(o)' BY Zenon DEF PeerRight, Exists, Newest
<1> QED BY <1>1, <1>2, Zenon

LEMMA OneTaskSame ==
  ASSUME NEW o \in Branes, OneTask(o), UNCHANGED <<queue, delayed>>, job'.b = job.b, job'.st = job.st
  PROVE  OneTask(o)'
<1>1. Own(queue, o)' = Own(queue, o) /\ Own(delayed, o)' = Own(delayed, o) BY Zenon DEF Own
<1> QED BY <1>1, Zenon DEF OneTask

\* No task shares the status of b.
Free(b) == /\ \A k \in DOMAIN queue : queue[k].b = b => queue[k].st # "own"
           /\ \A k \in DOMAIN delayed : delayed[k].b = b => delayed[k].st # "own"
           /\ job.b = b => job.st # "own"

\* So it is for a peer that neither applies a snapshot nor is on its way out.
LEMMA IdleFree ==
  ASSUME IInv, panic = "no", NEW b \in Branes, peer[b].snap # "Applying", ~peer[b].removing
  PROVE  Free(b)
<1>1. b # "none" BY SnapApplyAssumption, Zenon DEF SnapApplyAssumption
<1>2. \A k \in DOMAIN queue : queue[k].b = b => queue[k].st # "own"
  BY <1>1, Zenon DEF IInv, TasksRight, TaskRight, Dropped
<1>3. \A k \in DOMAIN delayed : delayed[k].b = b => delayed[k].st # "own"
  BY <1>1, Zenon DEF IInv, TasksRight, TaskRight, Dropped
<1>4. job.b = b => job.st # "own" BY <1>1 DEF IInv, RunsRight, Dropped, NoJob
<1> QED BY <1>2, <1>3, <1>4, Zenon DEF Free

\* And for one whose job has ended.
LEMMA EndedFree ==
  ASSUME IInv, panic = "no", NEW b \in Branes, peer[b].snap = "Applying",
         status[b] \notin {"PENDING", "RUNNING", "CANCELLING"}
  PROVE  Free(b)
<1>1. b # "none" BY SnapApplyAssumption, Zenon DEF SnapApplyAssumption
<1>2. \A k \in DOMAIN queue : queue[k].b = b => queue[k].st # "own"
  BY <1>1, Zenon DEF IInv, TasksRight, TaskRight, Dropped
<1>3. \A k \in DOMAIN delayed : delayed[k].b = b => delayed[k].st # "own"
  BY <1>1, Zenon DEF IInv, TasksRight, TaskRight, Dropped
<1>4. job.b = b => job.st # "own" BY <1>1 DEF IInv, RunsRight, Dropped, NoJob
<1> QED BY <1>2, <1>3, <1>4, Zenon DEF Free

\* A brane without such a task may change as it likes.
LEMMA FreeSame ==
  ASSUME TypeOK, TypeOK', TasksRight, RunsRight, NEW b \in Branes, Free(b), UNCHANGED <<queue, delayed, job>>,
         \A o \in Branes \ {b} : peer'[o] = peer[o] /\ kv'[o] = kv[o] /\ status'[o] = status[o]
  PROVE  TasksRight' /\ RunsRight'
<1>1. ASSUME NEW t \in Task, TaskRight(t), t.b = b => t.st # "own" PROVE TaskRight(t)'
  BY <1>1, Zenon DEF TaskRight, Dropped, Task
<1>2. \A k \in DOMAIN queue : queue[k] \in Task BY SeqElem, Zenon DEF TypeOK
<1>3. \A k \in DOMAIN delayed : delayed[k] \in Task BY SeqElem, Zenon DEF TypeOK
<1>4. TasksRight' BY <1>1, <1>2, <1>3, Zenon DEF TasksRight, Free
<1>5. RunsRight' BY Zenon DEF RunsRight, Dropped, TypeOK, Free, JobType
<1> QED BY <1>4, <1>5, Zenon

\* maybe_create_peer keeps the invariant: the new peer's id is beyond that of a tombstone.
LEMMA CreateKeeps ==
  ASSUME IInv, panic = "no", NEW b \in Branes, NEW id \in Ids, maybe_create_peer(b, id)
  PROVE  IInv'
<1>0. id \in Nat \ {0} BY SnapApplyAssumption, Zenon DEF SnapApplyAssumption
<1>1. peer[b] = NoPeer BY Zenon DEF maybe_create_peer, IInv, PeerRight
<1>2. TypeOK'
  <2>1. NewPeer(id, 0, "Relax") \in PeerType BY <1>0, Zenon DEF NewPeer, NoPeer, PeerType
  <2>2. peer' \in [Branes -> PeerType] BY <2>1, Zenon DEF IInv, TypeOK, maybe_create_peer
  <2>3. made' \in Nat BY DEF IInv, TypeOK, maybe_create_peer
  <2> QED BY <2>2, <2>3, Zenon DEF IInv, TypeOK, maybe_create_peer, disk, worker
<1>3. \A o \in Branes : DiskRight(o)' BY Zenon DEF IInv, DiskRight, maybe_create_peer, disk
<1>4. \A o \in Branes : OneTask(o)' BY OneTaskSame, Zenon DEF IInv, maybe_create_peer, worker
<1>5. ASSUME NEW o \in Branes PROVE PeerRight(o)'
  <2>1. CASE o # b
    <3>1. peer'[o] = peer[o] /\ kv'[o] = kv[o] /\ log'[o] = log[o]
      BY <2>1, Zenon DEF maybe_create_peer, disk, IInv, TypeOK
    <3> QED BY <3>1, RowSame, Zenon DEF IInv
  <2>2. CASE o = b
    <3>1. peer'[b] = NewPeer(id, 0, "Relax") /\ kv'[b] = kv[b] BY Zenon DEF maybe_create_peer, disk, IInv, TypeOK
    <3>2. kv[b].state = "None" \/ (kv[b].state = "Tombstone" /\ id > kv[b].id) BY Zenon DEF maybe_create_peer, check_msg
    <3> QED BY <1>0, <2>2, <3>1, <3>2 DEF PeerRight, Exists, NewPeer, NoPeer
  <2> QED BY <2>1, <2>2, Zenon
<1>6. TasksRight' /\ RunsRight'
  <2>1. Free(b) BY <1>1, IdleFree DEF NoPeer
  <2> QED BY <2>1, <1>2, FreeSame, Zenon DEF maybe_create_peer, disk, worker, IInv, TypeOK
<1> QED BY <1>2, <1>3, <1>4, <1>5, <1>6, Zenon DEF IInv, maybe_create_peer

\* The message of a snapshot keeps the invariant.
LEMMA MessageKeeps ==
  ASSUME IInv, panic = "no", NEW b \in Branes, NEW i \in Snaps(b), on_snapshot_message(b, i)
  PROVE  IInv'
<1>0. i \in Nat BY SnapsNat, Zenon
<1>1. TypeOK'
  <2>1. ASSUME peer' = [peer EXCEPT ![b].pending = @ \cup {i}] PROVE peer' \in [Branes -> PeerType]
    <3>1. peer[b] \in PeerType BY Zenon DEF IInv, TypeOK
    <3>2. [peer[b] EXCEPT !.pending = @ \cup {i}] \in PeerType BY <3>1, <1>0, Zenon DEF PeerType
    <3> QED BY <2>1, <3>2, Zenon DEF IInv, TypeOK
  <2> QED BY <2>1, Zenon DEF IInv, TypeOK, on_snapshot_message, worker
<1>2. CASE peer' = peer BY <1>1, <1>2, Frame, Zenon DEF on_snapshot_message, worker
<1>3. CASE peer' = [peer EXCEPT ![b].pending = @ \cup {i}]
  <2>0. UNCHANGED <<kv, log, status, queue, delayed, job, panic>> BY Zenon DEF on_snapshot_message, worker
  <2>1. \A o \in Branes : DiskRight(o)' BY <2>0, Zenon DEF IInv, DiskRight
  <2>2. \A o \in Branes : OneTask(o)' BY <2>0, OneTaskSame, Zenon DEF IInv
  <2>3. ASSUME NEW o \in Branes PROVE PeerRight(o)'
    <3>1. CASE o # b
      <4>1. peer'[o] = peer[o] /\ kv'[o] = kv[o] /\ log'[o] = log[o] BY <1>3, <2>0, <3>1, Zenon DEF IInv, TypeOK
      <4> QED BY <4>1, RowSame, Zenon DEF IInv
    <3>2. CASE o = b
      <4>1. peer'[b] = [peer[b] EXCEPT !.pending = @ \cup {i}] BY <1>3, Zenon DEF IInv, TypeOK
      <4>2. peer[b].pc = "idle" /\ Exists(b) BY Zenon DEF on_snapshot_message
      <4>3. peer[b] \in PeerType /\ PeerRight(b) BY Zenon DEF IInv, TypeOK
      <4>4. /\ peer'[b].id = peer[b].id /\ peer'[b].idx = peer[b].idx /\ peer'[b].snap = peer[b].snap
            /\ peer'[b].removing = peer[b].removing /\ peer'[b].pc = "idle" /\ peer'[b].pending = peer[b].pending \cup {i}
        BY <4>1, <4>2, <4>3, Zenon DEF PeerType
      <4> QED BY <4>2, <4>3, <4>4, <2>0, <3>2, Zenon DEF PeerRight, Exists
    <3> QED BY <3>1, <3>2, Zenon
  <2>4. TasksRight' /\ RunsRight'
    <3>1. \A o \in Branes : peer'[o].snap = peer[o].snap /\ peer'[o].removing = peer[o].removing
      BY <1>3, Zenon DEF IInv, TypeOK, PeerType
    <3> QED BY <1>1, <2>0, <3>1, TasksSame, Zenon DEF IInv
  <2> QED BY <1>1, <2>0, <2>1, <2>2, <2>3, <2>4, Zenon DEF IInv
<1> QED BY <1>2, <1>3, Zenon DEF on_snapshot_message

\* Entries that are appended keep the invariant: only the last index of a log grows.
LEMMA AppendKeeps ==
  ASSUME IInv, panic = "no", NEW b \in Branes, Append_(b)
  PROVE  IInv'
<1>0. UNCHANGED <<kv, peer, status, queue, delayed, job, panic>> BY Zenon DEF Append_, worker
<1>1. TypeOK' BY DEF IInv, TypeOK, Append_, worker, LogType
<1>2. \A o \in Branes : log'[o].commit = log[o].commit /\ log'[o].last >= log[o].last BY DEF Append_, IInv, TypeOK, LogType
<1>3. \A o \in Branes : DiskRight(o)' BY <1>0, <1>1, <1>2, SMTT(30) DEF IInv, DiskRight, TypeOK, LogType
<1>4. \A o \in Branes : OneTask(o)' BY <1>0, OneTaskSame, Zenon DEF IInv
<1>5. ASSUME NEW o \in Branes PROVE PeerRight(o)'
  <2>1. PeerRight(o) /\ kv[o].idx \in Nat /\ log[o] \in LogType /\ log'[o] \in LogType BY <1>1, Zenon DEF IInv, TypeOK, KvType
  <2>2. UNCHANGED <<kv, peer>> /\ log'[o].commit = log[o].commit BY <1>0, <1>2, Zenon
  <2> QED BY <2>1, <2>2, Zenon DEF PeerRight, Exists, Newest
<1>6. TasksRight' /\ RunsRight' BY <1>0, <1>1, TasksSame, Zenon DEF IInv
<1> QED BY <1>0, <1>1, <1>3, <1>4, <1>5, <1>6, Zenon DEF IInv
-----------------------------------------------------------------------------
(***************************************************************************)
(* The steps of a peer: its Ready with a snapshot, in two writes, and its  *)
(* destruction up to the kv batch.                                         *)
(***************************************************************************)
\* When check_applying_snap finds the job over, no task shares the status of the peer any more.
LEMMA CheckFree ==
  ASSUME IInv, panic = "no", NEW b \in Branes, ~peer[b].removing, check_applying_snap(b) # "Applying"
  PROVE  Free(b) /\ check_applying_snap(b) \in {"Relax", "Aborted"}
<1>0. peer[b].snap \in {"Relax", "Applying", "Aborted"} BY Zenon DEF IInv, TypeOK, PeerType
<1>1. CASE peer[b].snap # "Applying" BY <1>0, <1>1, IdleFree, Zenon DEF check_applying_snap
<1>2. CASE peer[b].snap = "Applying"
  <2>1. status[b] = "FINISHED" \/ status[b] = "CANCELLED" BY <1>2, Zenon DEF check_applying_snap
  <2>2. check_applying_snap(b) \in {"Relax", "Aborted"} BY <1>2, <2>1, Zenon DEF check_applying_snap
  <2>3. Free(b) BY <1>2, <2>1, EndedFree, Zenon
  <2> QED BY <2>2, <2>3, Zenon
<1> QED BY <1>1, <1>2, Zenon

\* handle_violetabft_ready_applightlike, to the kv batch, keeps the invariant.
LEMMA ReadyKeeps ==
  ASSUME IInv, panic = "no", NEW b \in Branes, HandleReady(b)
  PROVE  IInv'
<1> DEFINE s == check_applying_snap(b)
<1>0. UNCHANGED <<log, data, files, status, queue, delayed, cones, job, made, crashes, lost>>
      /\ Exists(b) /\ ~peer[b].removing /\ peer[b].pc = "idle"
  BY Zenon DEF HandleReady, worker
<1>1. TypeOK /\ peer[b] \in PeerType /\ kv[b] \in KvType /\ PeerRight(b) BY Zenon DEF IInv, TypeOK
<1>2. CASE Failed(b)
  <2>0. s = "Applying" BY <1>2, Zenon DEF Failed, check_applying_snap
  <2>1. panic' = "job" /\ UNCHANGED <<kv, peer>> BY <1>2, <2>0, Zenon DEF HandleReady
  <2>2. TypeOK' BY <1>0, <2>1, Zenon DEF IInv, TypeOK
  <2>3. \A o \in Branes : DiskRight(o)' BY <1>0, <2>1, Zenon DEF IInv, DiskRight
  <2> QED BY <2>1, <2>2, <2>3, Zenon DEF IInv
<1>3. CASE ~Failed(b) /\ s # "Applying" /\ peer[b].pending # {}
  <2>0. PICK m \in peer[b].pending : Newest(b, m) /\ kv' = [kv EXCEPT ![b] = apply_snapshot(b, m)]
    BY <1>3, Zenon DEF HandleReady
  <2>1. kv' = [kv EXCEPT ![b] = apply_snapshot(b, m)] /\ panic' = panic
        /\ peer' = [peer EXCEPT ![b].snap = s, ![b].pc = "written"]
    BY <1>3, <2>0, Zenon DEF HandleReady
  <2>2. Free(b) /\ s \in {"Relax", "Aborted"} BY <1>0, <1>3, CheckFree, Zenon
  <2> HIDE DEF s
  <2>3. m \in Nat \ {0} /\ m \in DOMAIN Cone[b] BY <1>1, SnapsNat, Zenon DEF PeerRight
  <2>4. kv'[b] = [state |-> "Applying", id |-> peer[b].id, idx |-> m, saved |-> m]
    BY <2>1, Zenon DEF IInv, TypeOK, apply_snapshot
  <2>5. peer'[b] = [peer[b] EXCEPT !.snap = s, !.pc = "written"] BY <2>1, Zenon DEF IInv, TypeOK
  <2>6. \A o \in Branes \ {b} : kv'[o] = kv[o] /\ peer'[o] = peer[o] BY <2>1, Zenon DEF IInv, TypeOK
  <2>7. TypeOK'
    <3>1. kv'[b] \in KvType BY <1>1, <2>3, <2>4 DEF KvType, PeerType
    <3>2. peer'[b] \in PeerType BY <1>1, <2>2, <2>5, Zenon DEF PeerType
    <3>3. kv' \in [Branes -> KvType] BY <3>1, <2>1, <1>1, Zenon DEF TypeOK
    <3>4. peer' \in [Branes -> PeerType] BY <3>2, <2>1, <2>5, <1>1, Zenon DEF TypeOK
    <3> QED BY <1>0, <1>1, <2>1, <3>3, <3>4, Zenon DEF TypeOK
  <2>8. ASSUME NEW o \in Branes PROVE DiskRight(o)'
    <3>1. CASE o = b
      <4>1. peer[b].id > 0 BY <1>0, <1>1 DEF Exists, PeerType
      <4> QED BY <3>1, <4>1, <1>0, <2>3, <2>4 DEF IInv, DiskRight
    <3>2. CASE o # b BY <3>2, <1>0, <2>6, RowSame, ZenonT(40) DEF IInv
    <3> QED BY <3>1, <3>2, Zenon
  <2>9. ASSUME NEW o \in Branes PROVE PeerRight(o)'
    <3>1. CASE o = b
      <4>1. peer'[b].pending = peer[b].pending /\ peer'[b].id = peer[b].id /\ peer'[b].idx = peer[b].idx
            /\ peer'[b].removing = peer[b].removing /\ peer'[b].snap = s /\ peer'[b].pc = "written"
        BY <1>1, <2>5, Zenon DEF PeerType
      <4> QED BY <3>1, <4>1, <1>0, <1>1, <1>3, <2>0, <2>2, <2>4 DEF PeerRight, Exists, Newest, PeerType
    <3>2. CASE o # b BY <3>2, <1>0, <2>6, RowSame, Zenon DEF IInv
    <3> QED BY <3>1, <3>2, Zenon
  <2>10. \A o \in Branes : OneTask(o)' BY <1>0, OneTaskSame, Zenon DEF IInv
  <2>11. TasksRight' /\ RunsRight' BY <1>0, <2>2, <2>6, <2>7, FreeSame, Zenon DEF IInv
  <2> QED BY <2>1, <2>7, <2>8, <2>9, <2>10, <2>11, Zenon DEF IInv
<1>4. CASE ~Failed(b) /\ ~(s # "Applying" /\ peer[b].pending # {})
  <2>1. s # peer[b].snap /\ peer' = [peer EXCEPT ![b].snap = s] /\ UNCHANGED <<kv, panic>>
    BY <1>4, Zenon DEF HandleReady
  <2>2. s # "Applying" BY <2>1, Zenon DEF check_applying_snap
  <2>3. Free(b) /\ s \in {"Relax", "Aborted"} BY <1>0, <2>2, CheckFree, Zenon
  <2> HIDE DEF s
  <2>5. peer'[b] = [peer[b] EXCEPT !.snap = s] BY <2>1, Zenon DEF IInv, TypeOK
  <2>6. \A o \in Branes \ {b} : kv'[o] = kv[o] /\ peer'[o] = peer[o] BY <2>1, Zenon DEF IInv, TypeOK
  <2>7. TypeOK'
    <3>1. peer'[b] \in PeerType BY <1>1, <2>3, <2>5, Zenon DEF PeerType
    <3>2. peer' \in [Branes -> PeerType] BY <3>1, <2>1, <2>5, <1>1, Zenon DEF TypeOK
    <3> QED BY <1>0, <1>1, <2>1, <3>2, Zenon DEF TypeOK
  <2>8. \A o \in Branes : DiskRight(o)' BY <1>0, <2>1, Zenon DEF IInv, DiskRight
  <2>9. ASSUME NEW o \in Branes PROVE PeerRight(o)'
    <3>1. CASE o = b
      <4>1. peer'[b].pending = peer[b].pending /\ peer'[b].id = peer[b].id /\ peer'[b].idx = peer[b].idx
            /\ peer'[b].removing = peer[b].removing /\ peer'[b].snap = s /\ peer'[b].pc = peer[b].pc
        BY <1>1, <2>5, Zenon DEF PeerType
      <4> QED BY <3>1, <4>1, <1>0, <1>1, <2>1, <2>3, Zenon DEF PeerRight, Exists
    <3>2. CASE o # b BY <3>2, <1>0, <2>1, <2>6, RowSame, Zenon DEF IInv
    <3> QED BY <3>1, <3>2, Zenon
  <2>10. \A o \in Branes : OneTask(o)' BY <1>0, OneTaskSame, Zenon DEF IInv
  <2>11. TasksRight' /\ RunsRight' BY <1>0, <2>3, <2>6, <2>7, FreeSame, Zenon DEF IInv
  <2> QED BY <2>1, <2>7, <2>8, <2>9, <2>10, <2>11, Zenon DEF IInv
<1> QED BY <1>2, <1>3, <1>4, Zenon

\* The cone that a peer holds is a set of cells.
LEMMA HeldCells ==
  ASSUME NEW b \in Branes, PeerRight(b)
  PROVE  Held(b) \subseteq Cells
<1>1. Cone[b] \in Seq((SUBSET Cells) \ {{}}) BY SnapApplyAssumption, Zenon DEF SnapApplyAssumption
<1>2. \A k \in DOMAIN Cone[b] : Cone[b][k] \in SUBSET Cells BY <1>1, SeqElem
<1> QED BY <1>2, Zenon DEF Held, PeerRight

\* The Destroy task of a set of cells is a task, of no brane.
LEMMA DestroyTask ==
  ASSUME NEW C \in SUBSET Cells
  PROVE  Destroy(C) \in Task /\ Destroy(C).b = "none" /\ Destroy(C).kind = "Destroy"
BY Zenon DEF Destroy, Task, Statuses

\* clear_extra_data schedules Destroy tasks only.
LEMMA ExtraTasks ==
  ASSUME NEW old \in SUBSET Cells, NEW new
  PROVE  /\ clear_extra_data(old, new) \in Seq(Task)
         /\ \A k \in DOMAIN clear_extra_data(old, new) :
              clear_extra_data(old, new)[k].b = "none" /\ clear_extra_data(old, new)[k].kind = "Destroy"
<1> DEFINE below == Below(old, new)
           above == Above(old, new)
           x == IF below = {} THEN <<>> ELSE <<Destroy(below)>>
           y == IF above = {} THEN <<>> ELSE <<Destroy(above)>>
<1>1. below \in SUBSET Cells /\ above \in SUBSET Cells BY Zenon DEF Below, Above
<1>2. clear_extra_data(old, new) = x \o y BY Zenon DEF clear_extra_data
<1> HIDE DEF below, above
<1>3. Destroy(below) \in Task /\ Destroy(below).b = "none" /\ Destroy(below).kind = "Destroy" BY <1>1, DestroyTask, Zenon
<1>4. Destroy(above) \in Task /\ Destroy(above).b = "none" /\ Destroy(above).kind = "Destroy" BY <1>1, DestroyTask, Zenon
<1>5. x \in Seq(Task) /\ \A k \in DOMAIN x : x[k].b = "none" /\ x[k].kind = "Destroy" BY <1>3
<1>6. y \in Seq(Task) /\ \A k \in DOMAIN y : y[k].b = "none" /\ y[k].kind = "Destroy" BY <1>4
<1> HIDE DEF x, y
<1>7. x \o y \in Seq(Task) /\ \A k \in DOMAIN (x \o y) : (x \o y)[k].b = "none" /\ (x \o y)[k].kind = "Destroy"
  BY <1>5, <1>6
<1> QED BY <1>2, <1>7, Zenon

\* The positions of a queue that has grown by m tasks and one: old, last, or between.
LEMMA Parts ==
  ASSUME NEW n \in Nat, NEW m \in Nat, NEW k \in 1 .. n + m + 1
  PROVE  k \in 1 .. n \/ k = n + m + 1 \/ k \in n + 1 .. n + m
OBVIOUS

\* r is q, followed by the tasks of x and by t.
IsGrown(q, x, t, r) ==
  /\ r \in Seq(Task) /\ Len(r) \in DOMAIN r /\ r[Len(r)] = t /\ Len(r) \notin DOMAIN q
  /\ DOMAIN q \subseteq DOMAIN r /\ \A k \in DOMAIN q : r[k] = q[k]
  /\ \A k \in DOMAIN r : k \in DOMAIN q \/ k = Len(r) \/ \E j \in DOMAIN x : r[k] = x[j]

\* The queue of PostReady, whose only new Apply task is the last.
LEMMA Grown ==
  ASSUME NEW q \in Seq(Task), NEW x \in Seq(Task), NEW t \in Task, NEW r, r = q \o x \o <<t>>
  PROVE  IsGrown(q, x, t, r)
<1>1. r \in Seq(Task) /\ Len(r) = Len(q) + Len(x) + 1 OBVIOUS
<1>2. \A k \in 1 .. Len(q) : r[k] = q[k] OBVIOUS
<1>3. \A k \in Len(q) + 1 .. Len(q) + Len(x) : r[k] = x[k - Len(q)] /\ k - Len(q) \in DOMAIN x OBVIOUS
<1>4. r[Len(q) + Len(x) + 1] = t OBVIOUS
<1>5. DOMAIN q = 1 .. Len(q) /\ DOMAIN r = 1 .. Len(r) /\ Len(q) \in Nat /\ Len(x) \in Nat BY <1>1
<1>6. /\ Len(r) \in DOMAIN r /\ r[Len(r)] = t /\ Len(r) \notin DOMAIN q
      /\ DOMAIN q \subseteq DOMAIN r /\ \A k \in DOMAIN q : r[k] = q[k]
  BY <1>1, <1>2, <1>4, <1>5
<1>7. ASSUME NEW k \in DOMAIN r PROVE k \in DOMAIN q \/ k = Len(r) \/ \E j \in DOMAIN x : r[k] = x[j]
  <2>1. k \in 1 .. Len(q) \/ k = Len(r) \/ k \in Len(q) + 1 .. Len(q) + Len(x) BY <1>1, <1>5, Parts, Zenon
  <2> QED BY <2>1, <1>3, <1>5, Zenon
<1> QED BY <1>1, <1>6, <1>7, Zenon DEF IsGrown

\* The Raft batch and post_ready keep the invariant: the new task is the only one of its brane.
LEMMA PostKeeps ==
  ASSUME IInv, panic = "no", NEW b \in Branes, NEW more \in 0 .. 1, PostReady(b, more)
  PROVE  IInv'
<1>0. PICK i \in peer[b].pending :
        /\ Newest(b, i) /\ log' = [log EXCEPT ![b] = [last |-> i + more, commit |-> i]]
        /\ queue' = queue \o clear_extra_data(Held(b), Cone[b][i]) \o <<Apply(b)>>
        /\ peer' = [peer EXCEPT ![b] = NewPeer(@.id, i, "Applying")]
  BY Zenon DEF PostReady
<1> DEFINE x == clear_extra_data(Held(b), Cone[b][i])
<1>1. TypeOK /\ peer[b] \in PeerType /\ kv[b] \in KvType /\ PeerRight(b) /\ b # "none"
  BY SnapApplyAssumption, Zenon DEF IInv, TypeOK, SnapApplyAssumption
<1>2. UNCHANGED <<kv, data, files, delayed, cones, job, made, crashes, panic, lost>> /\ peer[b].pc = "written"
  BY Zenon DEF PostReady
<1>3. log' = [log EXCEPT ![b] = [last |-> i + more, commit |-> i]] /\ status' = [status EXCEPT ![b] = "PENDING"]
  BY <1>0, Zenon DEF PostReady
<1>4. queue' = queue \o x \o <<Apply(b)>> BY <1>0, Zenon
<1>5. peer' = [peer EXCEPT ![b] = NewPeer(peer[b].id, i, "Applying")] BY <1>0, <1>1, Zenon DEF TypeOK
<1>6. Free(b)
  <2>1. peer[b].snap # "Applying" /\ ~peer[b].removing BY <1>1, <1>2, Zenon DEF PeerRight
  <2> QED BY <2>1, IdleFree, Zenon
<1>7. i \in Nat \ {0} /\ i \in DOMAIN Cone[b] /\ kv[b].idx = i /\ kv[b].state = "Applying" /\ peer[b].id # 0
  <2>1. /\ peer[b].pending \in SUBSET Snaps(b) /\ kv[b].state = "Applying"
        /\ kv[b].idx \in peer[b].pending /\ kv[b].idx <= i /\ i <= kv[b].idx
    BY <1>0, <1>1, <1>2, Zenon DEF PeerRight, Newest
  <2>2. i \in Nat \ {0} /\ i \in DOMAIN Cone[b] BY <2>1, SnapsNat, Zenon
  <2>3. kv[b].idx = i BY <1>1, <2>1, <2>2 DEF KvType
  <2>4. peer[b].id # 0 BY <1>1, <1>2 DEF PeerRight, Exists, NoPeer
  <2> QED BY <2>1, <2>2, <2>3, <2>4, Zenon
<1>8. x \in Seq(Task) /\ \A k \in DOMAIN x : x[k].b = "none" /\ x[k].kind = "Destroy"
  BY <1>1, HeldCells, ExtraTasks
<1> HIDE DEF x
<1>9. Apply(b) \in Task /\ Apply(b).b = b /\ Apply(b).st = "own" /\ Apply(b).kind = "Apply" BY Zenon DEF Apply, Task
<1>10. /\ queue' \in Seq(Task) /\ Len(queue') \in DOMAIN queue' /\ queue'[Len(queue')] = Apply(b)
       /\ Len(queue') \notin DOMAIN queue
       /\ DOMAIN queue \subseteq DOMAIN queue' /\ \A k \in DOMAIN queue : queue'[k] = queue[k]
       /\ \A k \in DOMAIN queue' : k \in DOMAIN queue \/ k = Len(queue') \/ \E j \in DOMAIN x : queue'[k] = x[j]
  <2>1. queue \in Seq(Task) BY <1>1, Zenon DEF TypeOK
  <2>2. IsGrown(queue, x, Apply(b), queue') BY <2>1, <1>4, <1>8, <1>9, Grown, Zenon
  <2> QED BY <2>2, Zenon DEF IsGrown
<1>11. ASSUME NEW k \in DOMAIN queue', k \notin DOMAIN queue, k # Len(queue')
       PROVE  queue'[k].b = "none" /\ queue'[k].kind = "Destroy"
  <2>1. PICK j \in DOMAIN x : queue'[k] = x[j] BY <1>10, <1>11, Zenon
  <2> QED BY <1>8, <2>1, Zenon
<1>12. \A o \in Branes \ {b} : log'[o] = log[o] /\ status'[o] = status[o] /\ peer'[o] = peer[o]
  BY <1>1, <1>3, <1>5, Zenon DEF TypeOK
<1>13. log'[b] = [last |-> i + more, commit |-> i] /\ status'[b] = "PENDING" /\ peer'[b] = NewPeer(peer[b].id, i, "Applying")
  BY <1>1, <1>3, <1>5, Zenon DEF TypeOK
<1>14. TypeOK'
  <2>1. log'[b] \in LogType BY <1>7, <1>13 DEF LogType
  <2>2. log' \in [Branes -> LogType] BY <2>1, <1>1, <1>3, <1>13, Zenon DEF TypeOK
  <2>3. peer'[b] \in PeerType BY <1>1, <1>7, <1>13, ZenonT(40) DEF PeerType, NewPeer, NoPeer
  <2>4. peer' \in [Branes -> PeerType] BY <2>3, <1>1, <1>5, <1>13, Zenon DEF TypeOK
  <2>5. status' \in [Branes -> Statuses] BY <1>1, <1>3, Zenon DEF TypeOK, Statuses
  <2> QED BY <1>1, <1>2, <1>10, <2>2, <2>4, <2>5, Zenon DEF TypeOK
<1>15. ASSUME NEW o \in Branes PROVE DiskRight(o)'
  <2>1. CASE o = b BY <2>1, <1>2, <1>7, <1>13 DEF IInv, DiskRight
  <2>2. CASE o # b BY <2>2, <1>2, <1>12, RowSame, ZenonT(40) DEF IInv
  <2> QED BY <2>1, <2>2, Zenon
<1>16. ASSUME NEW o \in Branes PROVE PeerRight(o)'
  <2>1. CASE o = b
    <3>1. peer'[b].id = peer[b].id /\ peer'[b].idx = i /\ peer'[b].snap = "Applying" /\ peer'[b].removing = FALSE
          /\ peer'[b].pending = {} /\ peer'[b].pc = "idle"
      BY <1>13, Zenon DEF NewPeer, NoPeer
    <3> QED BY <2>1, <3>1, <1>2, <1>7, <1>13 DEF PeerRight, Exists
  <2>2. CASE o # b BY <2>2, <1>2, <1>12, RowSame, Zenon DEF IInv
  <2> QED BY <2>1, <2>2, Zenon
<1>17. ASSUME NEW o \in Branes PROVE OneTask(o)'
  <2>1. CASE o = b
    <3>1. Own(queue', b) \subseteq {Len(queue')} BY <1>1, <1>6, <1>10, <1>11, Zenon DEF Own, Free
    <3>2. Own(delayed', b) = {} /\ ~(job'.b = b /\ job'.st = "own") BY <1>2, <1>6, Zenon DEF Own, Free
    <3> QED BY <2>1, <3>1, <3>2, Zenon DEF OneTask
  <2>2. CASE o # b
    <3>1. o # "none" BY SnapApplyAssumption, Zenon DEF SnapApplyAssumption
    <3>2. Own(queue', o) = Own(queue, o) BY <2>2, <3>1, <1>9, <1>10, <1>11, Zenon DEF Own
    <3>3. Own(delayed', o) = Own(delayed, o) /\ job' = job BY <1>2, Zenon
    <3> QED BY <3>2, <3>3, Zenon DEF IInv, OneTask
  <2> QED BY <2>1, <2>2, Zenon
<1>18. TasksRight'
  <2>1. ASSUME NEW t \in Task, TaskRight(t), t.b = b => t.st # "own" PROVE TaskRight(t)'
    BY <2>1, <1>2, <1>12, Zenon DEF TaskRight, Dropped, Task
  <2>2. \A k \in DOMAIN queue : queue[k] \in Task BY <1>1, SeqElem, Zenon DEF TypeOK
  <2>3. \A k \in DOMAIN delayed : delayed[k] \in Task BY <1>1, SeqElem, Zenon DEF TypeOK
  <2>4. \A k \in DOMAIN queue : TaskRight(queue[k])' /\ (queue'[k].kind = "Apply" <=> queue'[k].b # "none")
    <3> SUFFICES ASSUME NEW k \in DOMAIN queue
                 PROVE  TaskRight(queue[k])' /\ (queue'[k].kind = "Apply" <=> queue'[k].b # "none")
      BY Zenon
    <3>1. queue'[k] = queue[k] BY <1>10, Zenon
    <3>2. TaskRight(queue[k]) /\ (queue[k].kind = "Apply" <=> queue[k].b # "none") BY Zenon DEF IInv, TasksRight
    <3>3. queue[k].b = b => queue[k].st # "own" BY <1>6, Zenon DEF Free
    <3> QED BY <3>1, <3>2, <3>3, <2>1, <2>2, Zenon
  <2>5. \A k \in DOMAIN delayed' : TaskRight(delayed[k])' /\ delayed'[k].b # "none"
    <3> SUFFICES ASSUME NEW k \in DOMAIN delayed PROVE TaskRight(delayed[k])' /\ delayed'[k].b # "none"
      BY <1>2, Zenon
    <3>1. delayed'[k] = delayed[k] BY <1>2, Zenon
    <3>2. TaskRight(delayed[k]) /\ delayed[k].b # "none" BY Zenon DEF IInv, TasksRight
    <3>3. delayed[k].b = b => delayed[k].st # "own" BY <1>6, Zenon DEF Free
    <3> QED BY <3>1, <3>2, <3>3, <2>1, <2>3, Zenon
  <2>6. TaskRight(queue[Len(queue)])' /\ queue'[Len(queue')].kind = "Apply" /\ queue'[Len(queue')].b # "none"
    <3>1. peer'[b].snap = "Applying" BY <1>13, Zenon DEF NewPeer, NoPeer
    <3>2. queue'[Len(queue')].b = b /\ queue'[Len(queue')].st = "own" /\ queue'[Len(queue')].kind = "Apply"
      BY <1>9, <1>10, Zenon
    <3> QED BY <1>1, <1>2, <1>7, <1>13, <3>1, <3>2, Zenon DEF TaskRight
  <2>7. ASSUME NEW k \in DOMAIN queue', queue'[k].b = "none" /\ queue'[k].kind = "Destroy"
        PROVE  TaskRight(queue[k])' /\ (queue'[k].kind = "Apply" <=> queue'[k].b # "none")
    BY <2>7, Zenon DEF TaskRight
  <2>8. \A k \in DOMAIN queue' : TaskRight(queue[k])' /\ (queue'[k].kind = "Apply" <=> queue'[k].b # "none")
    BY <1>11, <2>4, <2>6, <2>7, Zenon
  <2> QED BY <2>5, <2>8, Zenon DEF TasksRight
<1>19. RunsRight' BY <1>1, <1>2, <1>6, <1>12, Zenon DEF IInv, RunsRight, Dropped, TypeOK, Free, JobType
<1> QED BY <1>2, <1>14, <1>15, <1>16, <1>17, <1>18, <1>19, Zenon DEF IInv

\* A peer that learns that it was removed keeps the invariant: a job that waits is dropped, one that
\* runs is asked to stop, and only then is the peer on its way out.
LEMMA MaybeDestroyKeeps ==
  ASSUME IInv, panic = "no", NEW b \in Branes, MaybeDestroy(b)
  PROVE  IInv'
<1> DEFINE applying == peer[b].snap = "Applying"
           c == IF applying THEN cancel_applying_snap(b)
                ELSE [done |-> TRUE, st |-> status[b], snap |-> peer[b].snap]
           direct == peer[b].idx = 0
<1>0. UNCHANGED <<log, data, files, queue, delayed, cones, job, made, crashes, lost>>
      /\ Exists(b) /\ ~peer[b].removing /\ peer[b].pc = "idle"
  BY Zenon DEF MaybeDestroy, worker
<1>1. TypeOK /\ peer[b] \in PeerType /\ kv[b] \in KvType /\ status[b] \in Statuses /\ PeerRight(b) /\ b # "none"
  BY SnapApplyAssumption, Zenon DEF IInv, TypeOK, SnapApplyAssumption
<1>2. CASE applying /\ status[b] = "FAILED"
  <2>1. panic' = "job" /\ UNCHANGED <<kv, peer, status>> BY <1>2, Zenon DEF MaybeDestroy
  <2>2. TypeOK' BY <1>0, <1>1, <2>1, Zenon DEF TypeOK
  <2>3. \A o \in Branes : DiskRight(o)' BY <1>0, <2>1, Zenon DEF IInv, DiskRight
  <2> QED BY <2>1, <2>2, <2>3, Zenon DEF IInv
<1>3. CASE ~(applying /\ status[b] = "FAILED")
  <2>1. /\ c.done \/ status[b] = "RUNNING"
        /\ status' = [status EXCEPT ![b] = c.st]
        /\ peer' = [peer EXCEPT ![b].snap = c.snap, ![b].removing = c.done,
                                ![b].pc = IF direct THEN "destroyed" ELSE @,
                                ![b].pending = IF direct THEN {} ELSE @]
        /\ kv' = [kv EXCEPT ![b] = IF direct THEN Tombstone(b) ELSE @]
        /\ panic' = panic
    BY <1>3, Zenon DEF MaybeDestroy
  <2>2. applying => ~direct BY <1>1, Zenon DEF PeerRight, PeerType
  <2>3. /\ c.done \in BOOLEAN /\ c.st \in Statuses /\ c.snap \in {"Relax", "Applying", "Aborted"}
        /\ c.snap = "Applying" <=> ~c.done
        /\ \/ Free(b)
           \/ applying /\ status[b] = "PENDING" /\ c = [done |-> TRUE, st |-> "CANCELLING", snap |-> "Aborted"]
           \/ applying /\ status[b] = "RUNNING" /\ c = [done |-> FALSE, st |-> "CANCELLING", snap |-> "Applying"]
    <3>1. CASE ~applying BY <3>1, <1>0, <1>1, IdleFree, Zenon DEF PeerType
    <3>2. CASE applying /\ status[b] = "PENDING" BY <3>2, Zenon DEF cancel_applying_snap, Statuses
    <3>3. CASE applying /\ status[b] = "RUNNING" BY <3>3, Zenon DEF cancel_applying_snap, Statuses
    <3>4. CASE applying /\ status[b] \notin {"PENDING", "RUNNING"}
      <4>1. c = [done |-> check_applying_snap(b) # "Applying", st |-> status[b], snap |-> check_applying_snap(b)]
        BY <3>4, Zenon DEF cancel_applying_snap
      <4> HIDE DEF c
      <4>2. c.done BY <2>1, <3>4, Zenon
      <4>3. check_applying_snap(b) # "Applying" BY <4>1, <4>2, Zenon
      <4>4. Free(b) /\ check_applying_snap(b) \in {"Relax", "Aborted"} BY <1>0, <4>3, CheckFree, Zenon
      <4>5. c.st = status[b] /\ c.snap = check_applying_snap(b) BY <4>1, Zenon
      <4>6. c.done = TRUE BY <4>1, <4>3, Zenon
      <4> QED BY <1>1, <4>3, <4>4, <4>5, <4>6, Zenon
    <3> QED BY <3>1, <3>2, <3>3, <3>4, Zenon
  <2> HIDE DEF c
  <2>4. /\ peer'[b] = [peer[b] EXCEPT !.snap = c.snap, !.removing = c.done, !.pc = IF direct THEN "destroyed" ELSE @,
                                      !.pending = IF direct THEN {} ELSE @]
        /\ status'[b] = c.st /\ kv'[b] = IF direct THEN Tombstone(b) ELSE kv[b]
    BY <1>1, <2>1, Zenon DEF TypeOK
  <2>5. \A o \in Branes \ {b} : kv'[o] = kv[o] /\ peer'[o] = peer[o] /\ status'[o] = status[o]
    BY <1>1, <2>1, Zenon DEF TypeOK
  <2>6. /\ peer'[b].id = peer[b].id /\ peer'[b].idx = peer[b].idx /\ peer'[b].snap = c.snap /\ peer'[b].removing = c.done
        /\ peer'[b].pc = (IF direct THEN "destroyed" ELSE "idle")
        /\ peer'[b].pending = (IF direct THEN {} ELSE peer[b].pending)
    BY <1>0, <1>1, <2>4, Zenon DEF PeerType
  <2>7. Tombstone(b) \in KvType /\ Tombstone(b).state = "Tombstone" /\ Tombstone(b).idx = 0
    BY <1>1, Zenon DEF Tombstone, KvType, PeerType
  <2>8. TypeOK'
    <3>1. peer'[b] \in PeerType BY <1>1, <2>3, <2>4, Zenon DEF PeerType
    <3>2. peer' \in [Branes -> PeerType] BY <3>1, <2>1, <2>4, <1>1, Zenon DEF TypeOK
    <3>3. status' \in [Branes -> Statuses] BY <1>1, <2>1, <2>3, Zenon DEF TypeOK
    <3>4. kv' \in [Branes -> KvType] BY <1>1, <2>1, <2>7, Zenon DEF TypeOK
    <3> QED BY <1>0, <1>1, <2>1, <3>2, <3>3, <3>4, Zenon DEF TypeOK
  <2>9. ASSUME NEW o \in Branes PROVE DiskRight(o)'
    <3>1. CASE o = b BY <3>1, <1>0, <2>4, <2>7, ZenonT(40) DEF IInv, DiskRight
    <3>2. CASE o # b BY <3>2, <1>0, <2>5, RowSame, Zenon DEF IInv
    <3> QED BY <3>1, <3>2, Zenon
  <2>10. ASSUME NEW o \in Branes PROVE PeerRight(o)'
    <3>1. CASE o = b /\ direct
      <4>1. ~applying BY <2>2, <3>1, Zenon
      <4>2. c.done = TRUE BY <4>1, Zenon DEF c
      <4> QED BY <3>1, <4>2, <1>0, <1>1, <2>3, <2>4, <2>6, <2>7, Zenon DEF PeerRight, Exists
    <3>2. CASE o = b /\ ~direct
      <4>1. peer[b].idx > 0 BY <3>2, <1>1 DEF PeerType
      <4> QED BY <3>2, <4>1, <1>0, <1>1, <2>3, <2>4, <2>6, Zenon DEF PeerRight, Exists
    <3>3. CASE o # b BY <3>3, <1>0, <2>5, RowSame, Zenon DEF IInv
    <3> QED BY <3>1, <3>2, <3>3, Zenon
  <2>11. \A o \in Branes : OneTask(o)' BY <1>0, OneTaskSame, Zenon DEF IInv
  <2>12. TasksRight' /\ RunsRight'
    <3>1. CASE Free(b) BY <3>1, <1>0, <2>5, <2>8, FreeSame, Zenon DEF IInv
    <3>2. CASE applying /\ status[b] = "PENDING" /\ c = [done |-> TRUE, st |-> "CANCELLING", snap |-> "Aborted"]
      <4>1. Dropped(b)' BY <3>2, <2>4, <2>6, Zenon DEF Dropped
      <4>2. ASSUME NEW t \in Task, TaskRight(t) PROVE TaskRight(t)'
        <5>1. CASE t.b = b BY <4>1, <4>2, <5>1, <3>2, Zenon DEF TaskRight, Dropped, Task
        <5>2. CASE t.b # b BY <4>2, <5>2, <2>5, Zenon DEF TaskRight, Dropped, Task
        <5> QED BY <5>1, <5>2, Zenon
      <4>3. \A k \in DOMAIN queue : queue[k] \in Task BY <1>1, SeqElem, Zenon DEF TypeOK
      <4>4. \A k \in DOMAIN delayed : delayed[k] \in Task BY <1>1, SeqElem, Zenon DEF TypeOK
      <4>5. TasksRight' BY <1>0, <4>2, <4>3, <4>4, ZenonT(40) DEF IInv, TasksRight
      <4>6. job.b = b => job.st # "own" BY <1>1, <3>2 DEF IInv, RunsRight, Dropped, NoJob
      <4>7. RunsRight' BY <1>0, <1>1, <2>5, <4>6, ZenonT(40) DEF IInv, RunsRight, Dropped, TypeOK, JobType
      <4> QED BY <4>5, <4>7, Zenon
    <3>3. CASE applying /\ status[b] = "RUNNING" /\ c = [done |-> FALSE, st |-> "CANCELLING", snap |-> "Applying"]
      <4>1. peer'[b].snap = "Applying" /\ status'[b] = "CANCELLING" /\ kv'[b] = kv[b] BY <3>3, <2>2, <2>4, <2>6, Zenon
      <4>2. ASSUME NEW t \in Task, TaskRight(t) PROVE TaskRight(t)'
        <5>1. CASE t.b = b BY <1>1, <4>2, <5>1, <3>3, ZenonT(40) DEF TaskRight, Dropped, Task
        <5>2. CASE t.b # b BY <4>2, <5>2, <2>5, Zenon DEF TaskRight, Dropped, Task
        <5> QED BY <5>1, <5>2, Zenon
      <4>3. \A k \in DOMAIN queue : queue[k] \in Task BY <1>1, SeqElem, Zenon DEF TypeOK
      <4>4. \A k \in DOMAIN delayed : delayed[k] \in Task BY <1>1, SeqElem, Zenon DEF TypeOK
      <4>5. TasksRight' BY <1>0, <4>2, <4>3, <4>4, Zenon DEF IInv, TasksRight
      <4>6. CASE job.b = b BY <4>5, <3>3, <1>0, <1>1, <4>1, <4>6, Zenon DEF IInv, RunsRight, Dropped, NoJob
      <4>7. CASE job.b # b BY <4>5, <1>0, <1>1, <2>5, <4>7, ZenonT(40) DEF IInv, RunsRight, Dropped, TypeOK, JobType
      <4> QED BY <4>5, <4>6, <4>7, Zenon
    <3> QED BY <2>3, <3>1, <3>2, <3>3, Zenon
  <2> QED BY <2>1, <2>8, <2>9, <2>10, <2>11, <2>12, Zenon DEF IInv
<1> QED BY <1>2, <1>3, Zenon

\* The kv batch of destroy keeps the invariant; the panic of destroy_peer is not reached.
LEMMA DestroyPeerKeeps ==
  ASSUME IInv, panic = "no", NEW b \in Branes, DestroyPeer(b)
  PROVE  IInv'
<1>1. TypeOK /\ peer[b] \in PeerType /\ kv[b] \in KvType /\ PeerRight(b) BY Zenon DEF IInv, TypeOK
<1>2. UNCHANGED <<log, data, files, status, queue, delayed, cones, job, made, crashes, lost>>
      /\ peer[b].removing /\ peer[b].pc = "idle"
  BY Zenon DEF DestroyPeer, worker
<1>3. peer[b].snap # "Applying" BY <1>1, <1>2, Zenon DEF PeerRight
<1>4. kv' = [kv EXCEPT ![b] = Tombstone(b)] /\ panic' = panic
      /\ peer' = [peer EXCEPT ![b].pc = "destroyed", ![b].pending = {}]
  BY <1>3, Zenon DEF DestroyPeer
<1>5. kv'[b] = Tombstone(b) /\ peer'[b] = [peer[b] EXCEPT !.pc = "destroyed", !.pending = {}] BY <1>1, <1>4, Zenon DEF TypeOK
<1>6. \A o \in Branes \ {b} : kv'[o] = kv[o] /\ peer'[o] = peer[o] BY <1>1, <1>4, Zenon DEF TypeOK
<1>7. Tombstone(b) \in KvType /\ Tombstone(b).state = "Tombstone" /\ Tombstone(b).idx = 0
  BY <1>1, Zenon DEF Tombstone, KvType, PeerType
<1>8. /\ peer'[b].id = peer[b].id /\ peer'[b].idx = peer[b].idx /\ peer'[b].snap = peer[b].snap
      /\ peer'[b].removing = peer[b].removing /\ peer'[b].pc = "destroyed" /\ peer'[b].pending = {}
  BY <1>1, <1>5, Zenon DEF PeerType
<1>9. TypeOK'
  <2>1. peer'[b] \in PeerType BY <1>1, <1>5, Zenon DEF PeerType
  <2>2. peer' \in [Branes -> PeerType] BY <2>1, <1>1, <1>4, <1>5, Zenon DEF TypeOK
  <2>3. kv' \in [Branes -> KvType] BY <1>1, <1>4, <1>7, Zenon DEF TypeOK
  <2> QED BY <1>1, <1>2, <1>4, <2>2, <2>3, Zenon DEF TypeOK
<1>10. ASSUME NEW o \in Branes PROVE DiskRight(o)'
  <2>1. CASE o = b BY <2>1, <1>2, <1>5, <1>7, Zenon DEF IInv, DiskRight
  <2>2. CASE o # b BY <2>2, <1>2, <1>6, RowSame, Zenon DEF IInv
  <2> QED BY <2>1, <2>2, Zenon
<1>11. ASSUME NEW o \in Branes PROVE PeerRight(o)'
  <2>1. CASE o = b
    <3>1. peer[b].id # 0 BY <1>1, <1>2 DEF PeerRight, Exists, NoPeer
    <3> QED BY <2>1, <3>1, <1>1, <1>2, <1>3, <1>5, <1>7, <1>8, Zenon DEF PeerRight, Exists
  <2>2. CASE o # b BY <2>2, <1>2, <1>6, RowSame, Zenon DEF IInv
  <2> QED BY <2>1, <2>2, Zenon
<1>12. \A o \in Branes : OneTask(o)' BY <1>2, OneTaskSame, Zenon DEF IInv
<1>13. TasksRight' /\ RunsRight'
  <2>1. \A o \in Branes : /\ peer'[o].snap = peer[o].snap /\ peer'[o].removing = peer[o].removing
                          /\ peer[o].snap = "Applying" => kv'[o] = kv[o]
    BY <1>3, <1>6, <1>8, Zenon
  <2> QED BY <2>1, <1>2, <1>9, TasksSame, Zenon DEF IInv
<1> QED BY <1>4, <1>9, <1>10, <1>11, <1>12, <1>13, Zenon DEF IInv
-----------------------------------------------------------------------------
(***************************************************************************)
(* The steps of the brane worker: its queues, and the steps of apply_snap. *)
(***************************************************************************)
\* What a queue holds after its first task is taken.
LEMMA TailIs ==
  ASSUME NEW S, NEW s \in Seq(S), s # <<>>
  PROVE  /\ Tail(s) \in Seq(S) /\ 1 \in DOMAIN s /\ Head(s) = s[1]
         /\ \A k \in DOMAIN Tail(s) : k \in Nat \ {0} /\ k + 1 \in DOMAIN s /\ Tail(s)[k] = s[k + 1]
OBVIOUS

\* What a list holds after a task is added.
LEMMA AppendIs ==
  ASSUME NEW S, NEW s \in Seq(S), NEW t \in S
  PROVE  /\ Append(s, t) \in Seq(S) /\ Len(s) + 1 \notin DOMAIN s
         /\ \A k \in DOMAIN Append(s, t) : (k \in DOMAIN s /\ Append(s, t)[k] = s[k]) \/ (k = Len(s) + 1 /\ Append(s, t)[k] = t)
OBVIOUS

\* Taking the first task of a queue leaves at most one that shares the status of brane b.
LEMMA OwnTail ==
  ASSUME NEW s \in Seq(Task), s # <<>>, NEW b, \A k, l \in Own(s, b) : k = l
  PROVE  /\ \A k, l \in Own(Tail(s), b) : k = l
         /\ Own(s, b) = {} => Own(Tail(s), b) = {}
         /\ Head(s).b = b /\ Head(s).st = "own" => Own(Tail(s), b) = {} /\ Own(s, b) # {}
<1>1. \A k \in Own(Tail(s), b) : k \in Nat \ {0} /\ k + 1 \in Own(s, b) BY TailIs, Zenon DEF Own
<1>2. ASSUME NEW k \in Own(Tail(s), b), NEW l \in Own(Tail(s), b) PROVE k = l
  <2>1. k + 1 = l + 1 BY <1>1, Zenon
  <2> QED BY <2>1, <1>1
<1>3. ASSUME Head(s).b = b /\ Head(s).st = "own" PROVE Own(Tail(s), b) = {} /\ Own(s, b) # {}
  <2>1. 1 \in Own(s, b) BY <1>3, TailIs, Zenon DEF Own
  <2>2. ASSUME NEW k \in Own(Tail(s), b) PROVE FALSE
    <3>1. k + 1 = 1 BY <1>1, <2>1, Zenon
    <3> QED BY <3>1, <1>1
  <2> QED BY <2>1, <2>2, Zenon
<1> QED BY <1>1, <1>2, <1>3, Zenon

\* Adding a task to a list that has none for brane b leaves at most one.
LEMMA OwnAppend ==
  ASSUME NEW s \in Seq(Task), NEW t \in Task, NEW b
  PROVE  /\ ~(t.b = b /\ t.st = "own") => Own(Append(s, t), b) \subseteq Own(s, b)
         /\ Own(s, b) = {} => \A k, l \in Own(Append(s, t), b) : k = l
BY AppendIs DEF Own

\* The run of a Destroy task keeps the invariant.
LEMMA TakeDestroyKeeps ==
  ASSUME IInv, panic = "no", TakeDestroy
  PROVE  IInv'
<1>1. TypeOK /\ queue \in Seq(Task) /\ queue # <<>> /\ Head(queue).kind = "Destroy" /\ job = NoJob
  BY Zenon DEF IInv, TypeOK, TakeDestroy
<1>2. UNCHANGED <<kv, log, files, peer, status, delayed, job, made, crashes, panic, lost>> /\ queue' = Tail(queue)
  BY Zenon DEF TakeDestroy
<1>3. Head(queue) \in Task /\ Tail(queue) \in Seq(Task) BY <1>1
<1>4. PICK stale \in SUBSET (cleanup_overlap_cones(Head(queue).cells).left \cup {Head(queue).cells}) :
        /\ cones' = (cleanup_overlap_cones(Head(queue).cells).left \cup {Head(queue).cells}) \ stale
        /\ data' = Cleared(cleanup_overlap_cones(Head(queue).cells).gone \cup UNION stale)
  BY Zenon DEF TakeDestroy
<1>5. TypeOK'
  <2>1. data' \in [Cells -> CellType] BY <1>1, <1>4, ClearedType, Zenon
  <2>2. Head(queue).cells \in SUBSET Cells BY <1>3, Zenon DEF Task
  <2>3. cleanup_overlap_cones(Head(queue).cells).left \subseteq cones BY Zenon DEF cleanup_overlap_cones
  <2>4. cones' \subseteq SUBSET Cells BY <1>1, <1>4, <2>2, <2>3, Zenon DEF TypeOK
  <2> QED BY <1>1, <1>2, <1>3, <2>1, <2>4, Zenon DEF TypeOK
<1>6. \A o \in Branes : DiskRight(o)' /\ PeerRight(o)' BY <1>2, RowSame, Zenon DEF IInv
<1>7. ASSUME NEW o \in Branes PROVE OneTask(o)'
  <2>1. OneTask(o) BY Zenon DEF IInv
  <2> QED BY <1>1, <1>2, <2>1, OwnTail, Zenon DEF OneTask
<1>8. TasksRight'
  <2>1. ASSUME NEW k \in DOMAIN queue' PROVE k + 1 \in DOMAIN queue /\ queue'[k] = queue[k + 1] BY <1>1, <1>2, TailIs, Zenon
  <2>2. ASSUME NEW t \in Task, TaskRight(t) PROVE TaskRight(t)' BY <1>2, <2>2, Zenon DEF TaskRight, Dropped
  <2>3. \A k \in DOMAIN queue : queue[k] \in Task /\ TaskRight(queue[k]) BY <1>1, SeqElem, Zenon DEF IInv, TasksRight
  <2>4. \A k \in DOMAIN delayed : delayed[k] \in Task /\ TaskRight(delayed[k])
    BY <1>1, SeqElem, Zenon DEF IInv, TasksRight, TypeOK
  <2>5. \A k \in DOMAIN queue' : TaskRight(queue[k])' BY <2>1, <2>2, <2>3, Zenon
  <2>6. \A k \in DOMAIN delayed' : TaskRight(delayed[k])' BY <1>2, <2>2, <2>4, Zenon
  <2>7. \A k \in DOMAIN queue' : queue'[k].kind = "Apply" <=> queue'[k].b # "none" BY <2>1, Zenon DEF IInv, TasksRight
  <2>8. \A k \in DOMAIN delayed' : delayed'[k].b # "none" BY <1>2, Zenon DEF IInv, TasksRight
  <2> QED BY <2>5, <2>6, <2>7, <2>8, Zenon DEF TasksRight
<1>9. RunsRight' BY <1>1, <1>2, Zenon DEF RunsRight
<1> QED BY <1>2, <1>5, <1>6, <1>7, <1>8, <1>9, Zenon DEF IInv

\* An Apply task that moves to plightlikeing_applies keeps the invariant.
LEMMA TakeApplyKeeps ==
  ASSUME IInv, panic = "no", TakeApply
  PROVE  IInv'
<1> DEFINE t == Head(queue)
<1>1. TypeOK /\ queue \in Seq(Task) /\ delayed \in Seq(Task) /\ queue # <<>> /\ t.kind = "Apply" /\ job = NoJob
  BY Zenon DEF IInv, TypeOK, TakeApply
<1>2. UNCHANGED <<kv, log, data, files, peer, status, cones, job, made, crashes, panic, lost>>
      /\ queue' = Tail(queue) /\ delayed' = Append(delayed, t)
  BY Zenon DEF TakeApply, disk
<1>3. t \in Task /\ t = queue[1] /\ 1 \in DOMAIN queue /\ Tail(queue) \in Seq(Task) BY <1>1
<1> HIDE DEF t
<1>4. TaskRight(t) /\ t.b # "none" BY <1>1, <1>3, Zenon DEF IInv, TasksRight
<1>5. TypeOK' BY <1>1, <1>2, <1>3, AppendIs, Zenon DEF TypeOK
<1>6. \A o \in Branes : DiskRight(o)' /\ PeerRight(o)' BY <1>2, RowSame, Zenon DEF IInv
<1>7. ASSUME NEW o \in Branes PROVE OneTask(o)'
  <2>1. OneTask(o) BY Zenon DEF IInv
  <2>2. /\ \A k, l \in Own(queue', o) : k = l
        /\ Own(queue, o) = {} => Own(queue', o) = {}
        /\ t.b = o /\ t.st = "own" => Own(queue', o) = {} /\ Own(queue, o) # {}
    <3>1. \A k, l \in Own(queue, o) : k = l BY <2>1, Zenon DEF OneTask
    <3> QED BY <1>1, <1>2, <3>1, OwnTail, ZenonT(40) DEF t
  <2>3. /\ ~(t.b = o /\ t.st = "own") => Own(delayed', o) \subseteq Own(delayed, o)
        /\ Own(delayed, o) = {} => \A k, l \in Own(delayed', o) : k = l
    BY <1>1, <1>2, <1>3, OwnAppend, ZenonT(40)
  <2>4. job'.b # o BY <1>1, <1>2, SnapApplyAssumption, Zenon DEF NoJob, SnapApplyAssumption
  <2> QED BY <2>1, <2>2, <2>3, <2>4, Zenon DEF OneTask
<1>8. TasksRight'
  <2>1. ASSUME NEW k \in DOMAIN queue' PROVE k + 1 \in DOMAIN queue /\ queue'[k] = queue[k + 1] BY <1>1, <1>2, TailIs, Zenon
  <2>2. ASSUME NEW u \in Task, TaskRight(u) PROVE TaskRight(u)' BY <1>2, <2>2, Zenon DEF TaskRight, Dropped
  <2>3. \A k \in DOMAIN queue : queue[k] \in Task /\ TaskRight(queue[k]) BY <1>1, SeqElem, Zenon DEF IInv, TasksRight
  <2>4. \A k \in DOMAIN delayed : delayed[k] \in Task /\ TaskRight(delayed[k]) /\ delayed[k].b # "none"
    BY <1>1, SeqElem, Zenon DEF IInv, TasksRight
  <2>5. \A k \in DOMAIN queue' : TaskRight(queue[k])' BY <2>1, <2>2, <2>3, Zenon
  <2>6. \A k \in DOMAIN delayed' : (k \in DOMAIN delayed /\ delayed'[k] = delayed[k]) \/ delayed'[k] = t
    BY <1>1, <1>2, <1>3, AppendIs, ZenonT(40)
  <2>7. \A k \in DOMAIN delayed' : TaskRight(delayed[k])' /\ delayed'[k].b # "none" BY <1>3, <1>4, <2>2, <2>4, <2>6, Zenon
  <2>8. \A k \in DOMAIN queue' : queue'[k].kind = "Apply" <=> queue'[k].b # "none" BY <2>1, Zenon DEF IInv, TasksRight
  <2> QED BY <2>5, <2>7, <2>8, Zenon DEF TasksRight
<1>9. RunsRight' BY <1>1, <1>2, Zenon DEF RunsRight
<1> QED BY <1>2, <1>5, <1>6, <1>7, <1>8, <1>9, Zenon DEF IInv

\* handle_apply: a task that starts leaves the list, and its brane has no other.
LEMMA StartJobKeeps ==
  ASSUME IInv, panic = "no", StartJob
  PROVE  IInv'
<1> DEFINE t == Head(delayed)
           begins == t.st = "own" /\ status[t.b] = "PENDING"
<1>1. TypeOK /\ queue \in Seq(Task) /\ delayed \in Seq(Task) /\ delayed # <<>> /\ job = NoJob
  BY Zenon DEF IInv, TypeOK, StartJob
<1>2. UNCHANGED <<kv, log, data, files, peer, queue, cones, made, crashes, panic, lost>> /\ delayed' = Tail(delayed)
  BY Zenon DEF StartJob, disk
<1>3. /\ job' = [NoJob EXCEPT !.b = t.b, !.st = t.st, !.step = "read"]
      /\ begins => status' = [status EXCEPT ![t.b] = "RUNNING"]
      /\ ~begins => status' = status
  BY Zenon DEF StartJob
<1>4. t \in Task /\ t = delayed[1] /\ 1 \in DOMAIN delayed /\ Tail(delayed) \in Seq(Task) BY <1>1
<1> HIDE DEF t
<1>5. TaskRight(t) /\ t.b # "none" /\ t.b \in Branes BY <1>1, <1>4, Zenon DEF IInv, TasksRight, Task
<1>6. job'.b = t.b /\ job'.st = t.st /\ job'.step = "read" /\ job' \in JobType
  BY <1>3, <1>4, Zenon DEF NoJob, JobType, Task, Steps
<1>7. \A o \in Branes : o # t.b \/ t.st # "own" => status'[o] = status[o] BY <1>1, <1>3, <1>5, Zenon DEF TypeOK
<1>8. begins => status'[t.b] = "RUNNING" BY <1>1, <1>3, <1>5, Zenon DEF TypeOK
<1>9. TypeOK'
  <2>1. status' \in [Branes -> Statuses] BY <1>1, <1>3, <1>5, Zenon DEF TypeOK, Statuses
  <2> QED BY <1>1, <1>2, <1>4, <1>6, <2>1, Zenon DEF TypeOK
<1>10. \A o \in Branes : DiskRight(o)' /\ PeerRight(o)' BY <1>2, RowSame, Zenon DEF IInv
<1>11. ASSUME NEW o \in Branes PROVE OneTask(o)'
  <2>1. OneTask(o) BY Zenon DEF IInv
  <2>2. /\ \A k, l \in Own(delayed', o) : k = l
        /\ Own(delayed, o) = {} => Own(delayed', o) = {}
        /\ t.b = o /\ t.st = "own" => Own(delayed', o) = {} /\ Own(delayed, o) # {}
    <3>1. \A k, l \in Own(delayed, o) : k = l BY <2>1, Zenon DEF OneTask
    <3> QED BY <1>1, <1>2, <3>1, OwnTail, Zenon DEF t
  <2>3. Own(queue', o) = Own(queue, o) BY <1>2, Zenon
  <2> QED BY <1>6, <2>1, <2>2, <2>3, Zenon DEF OneTask
<1>12. TasksRight'
  <2>1. ASSUME NEW u \in Task, TaskRight(u), u.b = t.b /\ u.st = "own" => t.st # "own" PROVE TaskRight(u)'
    BY <2>1, <1>2, <1>7, Zenon DEF TaskRight, Dropped, Task
  <2>2. OneTask(t.b) BY <1>5, Zenon DEF IInv
  <2>3. t.st = "own" => Own(Tail(delayed), t.b) = {} /\ Own(queue, t.b) = {}
    BY <1>1, <2>2, OwnTail, Zenon DEF OneTask, t
  <2>4. \A k \in DOMAIN queue : queue[k] \in Task /\ TaskRight(queue[k]) BY <1>1, SeqElem, Zenon DEF IInv, TasksRight
  <2>5. \A k \in DOMAIN queue : TaskRight(queue[k])'
    <3> SUFFICES ASSUME NEW k \in DOMAIN queue PROVE TaskRight(queue[k])' BY Zenon
    <3>1. queue[k].b = t.b /\ queue[k].st = "own" => t.st # "own" BY <2>3, Zenon DEF Own
    <3>2. queue'[k] = queue[k] BY <1>2, Zenon
    <3> QED BY <3>1, <3>2, <2>1, <2>4, Zenon
  <2>6. \A k \in DOMAIN delayed' : TaskRight(delayed[k])' /\ delayed'[k].b # "none"
    <3> SUFFICES ASSUME NEW k \in DOMAIN delayed' PROVE TaskRight(delayed[k])' /\ delayed'[k].b # "none" BY Zenon
    <3>1. k + 1 \in DOMAIN delayed /\ delayed'[k] = delayed[k + 1] BY <1>1, <1>2, TailIs, Zenon
    <3>2. delayed[k + 1] \in Task /\ TaskRight(delayed[k + 1]) /\ delayed[k + 1].b # "none"
      BY <1>1, <3>1, SeqElem, Zenon DEF IInv, TasksRight
    <3>3. delayed'[k].b = t.b /\ delayed'[k].st = "own" => t.st # "own" BY <1>2, <2>3, Zenon DEF Own
    <3> QED BY <3>1, <3>2, <3>3, <2>1, Zenon
  <2>7. \A k \in DOMAIN queue' : queue'[k].kind = "Apply" <=> queue'[k].b # "none" BY <1>2, Zenon DEF IInv, TasksRight
  <2> QED BY <1>2, <2>5, <2>6, <2>7, Zenon DEF TasksRight
<1>13. RunsRight'
  <2>1. CASE t.st = "CANCELLING" BY <2>1, <1>5, <1>6, Zenon DEF RunsRight
  <2>2. CASE t.st = "own" /\ Dropped(t.b)
    <3>1. status'[t.b] = "CANCELLING" /\ peer'[t.b].snap = "Aborted" /\ peer'[t.b].removing
      BY <2>2, <1>2, <1>3, Zenon DEF Dropped
    <3> QED BY <2>2, <3>1, <1>5, <1>6, Zenon DEF RunsRight, Dropped
  <2>3. CASE begins /\ peer[t.b].snap = "Applying" /\ kv[t.b].state = "Applying"
    BY <2>3, <1>2, <1>5, <1>6, <1>8, Zenon DEF RunsRight
  <2> QED BY <1>5, <2>1, <2>2, <2>3, Zenon DEF TaskRight
<1> QED BY <1>2, <1>9, <1>10, <1>11, <1>12, <1>13, Zenon DEF IInv

\* The end of a job changes the status of its own peer only, for which no other task waits.
LEMMA EndKeeps ==
  ASSUME IInv, panic = "no", job # NoJob, NEW st \in {"CANCELLED", "FAILED", "FINISHED"}, EndJob(st)
  PROVE  IInv'
<1> DEFINE b == job.b
<1>1. TypeOK /\ job.b \in Branes /\ job.b # "none" BY Zenon DEF IInv, TypeOK, RunsRight, JobType
<1>2. UNCHANGED <<kv, log, data, files, peer, queue, delayed, cones, made, crashes, panic, lost>> /\ job' = NoJob
  BY Zenon DEF EndJob, disk
<1>3. /\ job.st = "own" => status' = [status EXCEPT ![b] = st]
      /\ job.st # "own" => status' = status
  BY Zenon DEF EndJob, SetStatus
<1>4. \A o \in Branes : o # b \/ job.st # "own" => status'[o] = status[o] BY <1>1, <1>3, Zenon DEF TypeOK
<1>5. TypeOK'
  <2>1. status' \in [Branes -> Statuses] BY <1>1, <1>3, Zenon DEF TypeOK, Statuses
  <2>2. NoJob \in JobType BY Zenon DEF NoJob, JobType, Steps
  <2> QED BY <1>1, <1>2, <2>1, <2>2, Zenon DEF TypeOK
<1>6. \A o \in Branes : DiskRight(o)' /\ PeerRight(o)' BY <1>2, RowSame, Zenon DEF IInv
<1>7. \A o \in Branes : OneTask(o)'
  <2> SUFFICES ASSUME NEW o \in Branes PROVE OneTask(o)' BY Zenon
  <2>1. OneTask(o) BY Zenon DEF IInv
  <2>2. job'.b # o BY <1>2, SnapApplyAssumption, Zenon DEF NoJob, SnapApplyAssumption
  <2> QED BY <1>2, <2>1, <2>2 DEF OneTask, Own
<1>8. TasksRight'
  <2>1. ASSUME NEW u \in Task, TaskRight(u), u.b = b /\ u.st = "own" => job.st # "own" PROVE TaskRight(u)'
    BY <2>1, <1>2, <1>4, Zenon DEF TaskRight, Dropped, Task
  <2>2. job.st = "own" => Own(delayed, b) = {} /\ Own(queue, b) = {} BY <1>1, Zenon DEF IInv, OneTask
  <2>3. \A k \in DOMAIN queue : queue[k] \in Task /\ TaskRight(queue[k])
    BY <1>1, SeqElem, Zenon DEF IInv, TasksRight, TypeOK
  <2>4. \A k \in DOMAIN delayed : delayed[k] \in Task /\ TaskRight(delayed[k])
    BY <1>1, SeqElem, Zenon DEF IInv, TasksRight, TypeOK
  <2>5. \A k \in DOMAIN queue : TaskRight(queue[k])'
    <3> SUFFICES ASSUME NEW k \in DOMAIN queue PROVE TaskRight(queue[k])' BY Zenon
    <3>1. queue[k].b = b /\ queue[k].st = "own" => job.st # "own" BY <2>2, Zenon DEF Own
    <3>2. queue'[k] = queue[k] BY <1>2, Zenon
    <3> QED BY <3>1, <3>2, <2>1, <2>3, Zenon
  <2>6. \A k \in DOMAIN delayed : TaskRight(delayed[k])'
    <3> SUFFICES ASSUME NEW k \in DOMAIN delayed PROVE TaskRight(delayed[k])' BY Zenon
    <3>1. delayed[k].b = b /\ delayed[k].st = "own" => job.st # "own" BY <2>2, Zenon DEF Own
    <3>2. delayed'[k] = delayed[k] BY <1>2, Zenon
    <3> QED BY <3>1, <3>2, <2>1, <2>4, Zenon
  <2>7. \A k \in DOMAIN queue' : queue'[k].kind = "Apply" <=> queue'[k].b # "none" BY <1>2, Zenon DEF IInv, TasksRight
  <2>8. \A k \in DOMAIN delayed' : delayed'[k].b # "none" BY <1>2, Zenon DEF IInv, TasksRight
  <2> QED BY <1>2, <2>5, <2>6, <2>7, <2>8, Zenon DEF TasksRight
<1>9. RunsRight' BY <1>2, Zenon DEF RunsRight
<1> QED BY <1>2, <1>5, <1>6, <1>7, <1>8, <1>9, Zenon DEF IInv

\* A step of apply_snap between its read and its write: only the cells and the cones change.
LEMMA GotoKeeps ==
  ASSUME IInv, panic = "no", TypeOK', NEW step \in Steps \ {"none", "read", "finish"},
         job.step \notin {"none", "read", "finish"}, Goto(step),
         UNCHANGED <<kv, log, peer, status, queue, delayed, panic>>
  PROVE  IInv'
<1>1. TypeOK /\ job \in JobType /\ RunsRight BY Zenon DEF IInv, TypeOK
<1>2. job'.b = job.b /\ job'.st = job.st /\ job'.step = step /\ job'.id = job.id BY <1>1, Zenon DEF Goto, JobType
<1>3. \A o \in Branes : DiskRight(o)' /\ PeerRight(o)' BY RowSame, Zenon DEF IInv
<1>4. \A o \in Branes : OneTask(o)' BY <1>2, OneTaskSame, Zenon DEF IInv
<1>5. TasksRight' BY ZenonT(40) DEF IInv, TasksRight, TaskRight, Dropped
<1>6. RunsRight'
  <2>1. job # NoJob BY DEF NoJob
  <2>2. /\ job.b # "none" /\ job.st = "own" /\ peer[job.b].snap = "Applying" /\ status[job.b] \in {"RUNNING", "CANCELLING"}
        /\ kv[job.b].state = "Applying" /\ job.id = kv[job.b].id
    BY <1>1, <2>1, Zenon DEF RunsRight
  <2> QED BY <1>2, <2>2, Zenon DEF RunsRight
<1> QED BY <1>3, <1>4, <1>5, <1>6, Zenon DEF IInv

\* The read of the brane state keeps the invariant: a job that was cancelled before does not get so far.
LEMMA ReadStateKeeps ==
  ASSUME IInv, panic = "no", ReadState
  PROVE  IInv'
<1>1. TypeOK /\ job \in JobType /\ RunsRight /\ job.step = "read" /\ St # "CANCELLING"
  BY Zenon DEF IInv, TypeOK, ReadState, check_abort
<1>2. UNCHANGED <<kv, log, data, files, peer, status, queue, delayed, cones, made, crashes, panic, lost>>
  BY Zenon DEF ReadState, disk
<1>3. /\ job.b # "none" /\ job.st = "own" /\ peer[job.b].snap = "Applying" /\ status[job.b] \in {"RUNNING", "CANCELLING"}
      /\ kv[job.b].state = "Applying"
  <2>1. job # NoJob BY <1>1 DEF NoJob
  <2> QED BY <1>1, <2>1, Zenon DEF RunsRight, St, Dropped
<1>4. job.b \in Branes BY <1>1, <1>3, Zenon DEF JobType
<1>5. kv[job.b] \in KvType BY <1>1, <1>4, Zenon DEF TypeOK
<1>6. job' = [job EXCEPT !.step = "clear", !.id = kv[job.b].id, !.idx = kv[job.b].idx] BY Zenon DEF ReadState
<1>7. job'.b = job.b /\ job'.st = job.st /\ job'.step = "clear" /\ job'.id = kv[job.b].id /\ job' \in JobType
  BY <1>1, <1>5, <1>6, Zenon DEF JobType, KvType, Steps
<1>8. TypeOK' BY <1>1, <1>2, <1>7, Zenon DEF TypeOK
<1>9. \A o \in Branes : DiskRight(o)' /\ PeerRight(o)' BY <1>2, RowSame, Zenon DEF IInv
<1>10. \A o \in Branes : OneTask(o)' BY <1>2, <1>7, OneTaskSame, Zenon DEF IInv
<1>11. TasksRight' BY <1>2, ZenonT(40) DEF IInv, TasksRight, TaskRight, Dropped
<1>12. RunsRight' BY <1>2, <1>3, <1>7, Zenon DEF RunsRight
<1> QED BY <1>2, <1>8, <1>9, <1>10, <1>11, <1>12, Zenon DEF IInv

\* The last write of apply_snap keeps the invariant: it replaces the state Applying it has read, and
\* the log is committed up to the snapshot.
LEMMA WriteNormalKeeps ==
  ASSUME IInv, panic = "no", WriteNormal
  PROVE  IInv'
<1> DEFINE b == job.b
<1>1. TypeOK /\ job \in JobType /\ RunsRight /\ job.step = "write" BY Zenon DEF IInv, TypeOK, WriteNormal
<1>2. UNCHANGED <<log, data, files, peer, status, queue, delayed, cones, made, crashes, panic, lost>>
      /\ Goto("finish")
  BY Zenon DEF WriteNormal
<1>3. /\ b # "none" /\ job.st = "own" /\ peer[b].snap = "Applying" /\ status[b] \in {"RUNNING", "CANCELLING"}
      /\ kv[b].state = "Applying" /\ job.id = kv[b].id
  <2>1. job # NoJob BY <1>1 DEF NoJob
  <2> QED BY <1>1, <2>1, Zenon DEF RunsRight
<1>4. b \in Branes BY <1>1, <1>3, Zenon DEF JobType
<1>5. kv[b] \in KvType /\ log[b] \in LogType /\ peer[b] \in PeerType BY <1>1, <1>4, Zenon DEF TypeOK
<1>6. job'.b = b /\ job'.st = job.st /\ job'.step = "finish" /\ job'.id = job.id /\ job' \in JobType
  BY <1>1, <1>2, Zenon DEF Goto, JobType, Steps
<1>7. kv' = [kv EXCEPT ![b] = [kv[b] EXCEPT !.state = "Normal", !.id = job.id, !.saved = 0]]
  BY Zenon DEF WriteNormal
<1> HIDE DEF b
<1>8. /\ kv'[b].state = "Normal" /\ kv'[b].id = kv[b].id /\ kv'[b].idx = kv[b].idx /\ kv'[b] \in KvType
      /\ \A o \in Branes \ {b} : kv'[o] = kv[o]
  BY <1>1, <1>3, <1>4, <1>5, <1>7, Zenon DEF TypeOK, KvType
<1>9. TypeOK'
  <2>1. kv' \in [Branes -> KvType] BY <1>1, <1>4, <1>7, <1>8, Zenon DEF TypeOK
  <2> QED BY <1>1, <1>2, <1>6, <2>1, Zenon DEF TypeOK
<1>10. PeerRight(b) /\ DiskRight(b) /\ OneTask(b) BY <1>4, Zenon DEF IInv
<1>11. peer[b].idx > 0 /\ peer[b].pc = "idle" /\ kv[b].idx <= log[b].commit BY <1>3, <1>5, <1>10, Zenon DEF PeerRight
<1>12. ASSUME NEW o \in Branes PROVE DiskRight(o)' /\ PeerRight(o)'
  <2>1. CASE o = b
    <3>1. /\ kv'[o].state = "Normal" /\ kv'[o].id = kv[o].id /\ kv'[o].idx = kv[o].idx /\ log'[o] = log[o]
          /\ kv[o].state = "Applying" /\ kv[o].idx <= log[o].commit /\ DiskRight(o)
      BY <2>1, <1>2, <1>3, <1>8, <1>10, <1>11, Zenon
    <3>2. DiskRight(o)' BY <3>1, Zenon DEF DiskRight
    <3>3. PeerRight(o)' BY <2>1, <1>2, <1>5, <1>8, <1>10, <1>11, Zenon DEF PeerRight, Exists, PeerType
    <3> QED BY <3>2, <3>3, Zenon
  <2>2. CASE o # b BY <2>2, <1>2, <1>8, RowSame, Zenon DEF IInv
  <2> QED BY <2>1, <2>2, Zenon
<1>13. \A o \in Branes : OneTask(o)' BY <1>2, <1>6, OneTaskSame, Zenon DEF IInv, b
<1>14. TasksRight'
  <2>1. ASSUME NEW u \in Task, TaskRight(u), ~(u.b = b /\ u.st = "own") PROVE TaskRight(u)'
    BY <2>1, <1>2, <1>8, Zenon DEF TaskRight, Dropped, Task
  <2>2. Own(delayed, b) = {} /\ Own(queue, b) = {} BY <1>3, <1>10, Zenon DEF OneTask, b
  <2>3. \A k \in DOMAIN queue : queue[k] \in Task /\ TaskRight(queue[k]) /\ ~(queue[k].b = b /\ queue[k].st = "own")
    BY <1>1, <2>2, SeqElem, Zenon DEF IInv, TasksRight, TypeOK, Own
  <2>4. \A k \in DOMAIN delayed :
          delayed[k] \in Task /\ TaskRight(delayed[k]) /\ ~(delayed[k].b = b /\ delayed[k].st = "own")
    BY <1>1, <2>2, SeqElem, Zenon DEF IInv, TasksRight, TypeOK, Own
  <2>5. \A k \in DOMAIN queue : TaskRight(queue[k])' BY <1>2, <2>1, <2>3, Zenon
  <2>6. \A k \in DOMAIN delayed : TaskRight(delayed[k])' BY <1>2, <2>1, <2>4, Zenon
  <2>7. \A k \in DOMAIN queue' : queue'[k].kind = "Apply" <=> queue'[k].b # "none" BY <1>2, Zenon DEF IInv, TasksRight
  <2>8. \A k \in DOMAIN delayed' : delayed'[k].b # "none" BY <1>2, Zenon DEF IInv, TasksRight
  <2> QED BY <1>2, <2>5, <2>6, <2>7, <2>8, Zenon DEF TasksRight
<1>15. RunsRight' BY <1>2, <1>3, <1>6, <1>8, Zenon DEF RunsRight
<1> QED BY <1>2, <1>9, <1>12, <1>13, <1>14, <1>15, Zenon DEF IInv

\* Every step of apply_snap keeps the invariant.
LEMMA JobStepKeeps ==
  ASSUME IInv, panic = "no", JobStep
  PROVE  IInv'
<1>1. TypeOK /\ job \in JobType /\ data \in [Cells -> CellType] /\ cones \subseteq SUBSET Cells
  BY Zenon DEF IInv, TypeOK
<1>2. ASSUME NEW step \in Steps, Goto(step) PROVE job' \in JobType BY <1>1, <1>2, Zenon DEF Goto, JobType
<1>3. ASSUME NEW v \in CellType PROVE Loaded(v) \in [Cells -> CellType] BY <1>1, Zenon DEF Loaded
<1>4. CASE AbortJob
  <2>1. job # NoJob BY <1>4 DEF AbortJob, check_abort, NoJob
  <2> QED BY <1>4, <2>1, EndKeeps, Zenon DEF AbortJob
<1>5. CASE FailJob
  <2>1. job # NoJob BY <1>5 DEF FailJob, NoJob
  <2> QED BY <1>5, <2>1, EndKeeps, Zenon DEF FailJob
<1>6. CASE FinishJob
  <2>1. job # NoJob BY <1>6 DEF FinishJob, NoJob
  <2> QED BY <1>6, <2>1, EndKeeps, Zenon DEF FinishJob
<1>7. CASE ReadState BY <1>7, ReadStateKeeps, Zenon
<1>8. CASE WriteNormal BY <1>8, WriteNormalKeeps, Zenon
<1>9. CASE ClearCone
  <2>1. data' \in [Cells -> CellType] BY <1>1, <1>9, ClearedType, Zenon DEF ClearCone
  <2>2. cones' \subseteq cones BY <1>9, Zenon DEF ClearCone, cleanup_overlap_cones
  <2>3. Goto("file") /\ UNCHANGED <<kv, log, files, peer, status, queue, delayed, made, crashes, panic, lost>>
        /\ job.step = "clear"
    BY <1>9, Zenon DEF ClearCone
  <2>4. TypeOK' BY <1>1, <1>2, <2>1, <2>2, <2>3, Zenon DEF TypeOK, Steps
  <2> QED BY <2>3, <2>4, GotoKeeps, Zenon DEF Steps
<1>10. CASE OpenFile
  <2>1. Goto("ingest") /\ UNCHANGED <<kv, log, data, files, peer, status, queue, delayed, cones, made, crashes, panic, lost>>
        /\ job.step = "file"
    BY <1>10, Zenon DEF OpenFile, disk
  <2>2. TypeOK' BY <1>1, <1>2, <2>1, Zenon DEF TypeOK, Steps
  <2> QED BY <2>1, <2>2, GotoKeeps, Zenon DEF Steps
<1>11. CASE IngestSome
  <2>1. Goto("rest") /\ UNCHANGED <<kv, log, files, peer, status, queue, delayed, cones, made, crashes, panic, lost>>
        /\ job.step = "ingest" /\ data' = Loaded(Part)
    BY <1>11, Zenon DEF IngestSome
  <2>2. Part \in CellType BY Zenon DEF Part, CellType
  <2>3. data' \in [Cells -> CellType] BY <1>3, <2>1, <2>2, Zenon
  <2>4. TypeOK' BY <1>1, <1>2, <2>1, <2>3, Zenon DEF TypeOK, Steps
  <2> QED BY <2>1, <2>4, GotoKeeps, Zenon DEF Steps
<1>12. CASE IngestRest
  <2>1. Goto("write") /\ UNCHANGED <<kv, log, files, peer, status, queue, delayed, cones, made, crashes, panic, lost>>
        /\ job.step = "rest" /\ data' = Loaded(<<job.b, job.idx>>)
    BY <1>12, Zenon DEF IngestRest
  <2>2. <<job.b, job.idx>> \in CellType BY <1>1, Zenon DEF CellType, JobType
  <2>3. data' \in [Cells -> CellType] BY <1>3, <2>1, <2>2, Zenon
  <2>4. TypeOK' BY <1>1, <1>2, <2>1, <2>3, Zenon DEF TypeOK, Steps
  <2> QED BY <2>1, <2>4, GotoKeeps, Zenon DEF Steps
<1> QED BY <1>4, <1>5, <1>6, <1>7, <1>8, <1>9, <1>10, <1>11, <1>12, Zenon DEF JobStep

\* The queue after DestroyEnd: the tasks of before, some of them orphaned, and a Destroy task.
LEMMA ConcatIs ==
  ASSUME NEW S, NEW s \in Seq(S), NEW t \in Seq(S)
  PROVE  /\ s \o t \in Seq(S)
         /\ \A k \in DOMAIN (s \o t) : (k \in DOMAIN s /\ (s \o t)[k] = s[k]) \/ \E j \in DOMAIN t : (s \o t)[k] = t[j]
<1>1. s \o t \in Seq(S) OBVIOUS
<1>2. ASSUME NEW k \in DOMAIN (s \o t)
      PROVE  (k \in DOMAIN s /\ (s \o t)[k] = s[k]) \/ \E j \in DOMAIN t : (s \o t)[k] = t[j]
  <2>1. Len(s) \in Nat /\ Len(t) \in Nat /\ DOMAIN s = 1 .. Len(s) /\ DOMAIN t = 1 .. Len(t) OBVIOUS
  <2>2. DOMAIN (s \o t) = 1 .. (Len(s) + Len(t)) OBVIOUS
  <2>3. CASE k <= Len(s) BY <2>1, <2>2, <2>3
  <2>4. CASE k > Len(s)
    <3>1. k - Len(s) \in DOMAIN t BY <2>1, <2>2, <2>4
    <3>2. (s \o t)[k] = t[k - Len(s)] BY <2>1, <2>2, <2>4
    <3> QED BY <3>1, <3>2, Zenon
  <2> QED BY <2>1, <2>2, <2>3, <2>4
<1> QED BY <1>1, <1>2, Zenon

\* The tasks of a queue stay tasks, of the same brane and kind, when their peer goes.
LEMMA OrphanSeq ==
  ASSUME NEW b \in Branes, status[b] \in Statuses, NEW s \in Seq(Task)
  PROVE  /\ [k \in DOMAIN s |-> Orphan(s[k], b)] \in Seq(Task)
         /\ \A k \in DOMAIN s : Orphan(s[k], b) \in Task /\ Orphan(s[k], b).b = s[k].b
                                /\ Orphan(s[k], b).kind = s[k].kind
<1>1. ASSUME NEW t \in Task
      PROVE  Orphan(t, b) \in Task /\ Orphan(t, b).b = t.b /\ Orphan(t, b).kind = t.kind
  BY Zenon DEF Orphan, Task
<1>2. \A k \in DOMAIN s : s[k] \in Task BY SeqElem, Zenon
<1>3. DOMAIN s = 1 .. Len(s) /\ Len(s) \in Nat OBVIOUS
<1>4. [k \in 1 .. Len(s) |-> Orphan(s[k], b)] \in Seq(Task) BY <1>1, <1>2, <1>3
<1> QED BY <1>1, <1>2, <1>3, <1>4, Zenon

\* The end of destroy keeps the invariant: a task that outlives its peer was cancelled.
LEMMA DestroyEndKeeps ==
  ASSUME IInv, panic = "no", NEW b \in Branes, DestroyEnd(b)
  PROVE  IInv'
<1> DEFINE q == [k \in DOMAIN queue |-> Orphan(queue[k], b)]
           x == IF peer[b].idx > 0 THEN <<Destroy(Held(b))>> ELSE <<>>
<1>1. /\ TypeOK /\ peer[b] \in PeerType /\ kv[b] \in KvType /\ status[b] \in Statuses /\ PeerRight(b) /\ b # "none"
      /\ queue \in Seq(Task) /\ delayed \in Seq(Task) /\ job \in JobType
  BY SnapApplyAssumption, Zenon DEF IInv, TypeOK, SnapApplyAssumption
<1>2. UNCHANGED <<kv, data, files, cones, made, crashes, panic, lost>> /\ peer[b].pc = "destroyed"
  BY Zenon DEF DestroyEnd
<1>3. /\ log' = [log EXCEPT ![b] = NoLog] /\ status' = [status EXCEPT ![b] = "none"]
      /\ peer' = [peer EXCEPT ![b] = NoPeer] /\ job' = Orphan(job, b)
      /\ delayed' = [k \in DOMAIN delayed |-> Orphan(delayed[k], b)] /\ queue' = q \o x
  BY Zenon DEF DestroyEnd
<1>4. kv[b].state = "Tombstone" /\ peer[b].snap # "Applying" BY <1>1, <1>2, Zenon DEF PeerRight
<1>5. x \in Seq(Task) /\ \A k \in DOMAIN x : x[k].b = "none" /\ x[k].kind = "Destroy"
  <2>1. Destroy(Held(b)) \in Task /\ Destroy(Held(b)).b = "none" /\ Destroy(Held(b)).kind = "Destroy"
    BY <1>1, HeldCells, DestroyTask, Zenon
  <2>2. CASE peer[b].idx > 0 BY <2>1, <2>2
  <2>3. CASE ~(peer[b].idx > 0) BY <2>3
  <2> QED BY <2>2, <2>3, Zenon
<1>6. q \in Seq(Task) /\ delayed' \in Seq(Task) BY <1>1, <1>3, OrphanSeq, Zenon
<1>7. DOMAIN q = DOMAIN queue /\ DOMAIN delayed' = DOMAIN delayed
      /\ (\A k \in DOMAIN queue : q[k] = Orphan(queue[k], b))
      /\ (\A k \in DOMAIN delayed : delayed'[k] = Orphan(delayed[k], b))
  BY <1>3, Zenon
<1> HIDE DEF q, x
<1>8. /\ queue' \in Seq(Task)
      /\ \A k \in DOMAIN queue' : \/ k \in DOMAIN queue /\ queue'[k] = Orphan(queue[k], b)
                                  \/ queue'[k].b = "none" /\ queue'[k].kind = "Destroy"
  BY <1>3, <1>5, <1>6, <1>7, ConcatIs
<1>9. \A o \in Branes \ {b} : log'[o] = log[o] /\ status'[o] = status[o] /\ peer'[o] = peer[o]
  BY <1>1, <1>3, Zenon DEF TypeOK
<1>10. log'[b] = NoLog /\ status'[b] = "none" /\ peer'[b] = NoPeer BY <1>1, <1>3, Zenon DEF TypeOK
<1>11. ASSUME NEW t \in Task, TaskRight(t), NEW u, u = Orphan(t, b)
       PROVE  /\ TaskRight(u)' /\ u.b = t.b /\ u.kind = t.kind
              /\ ~(u.b = b /\ u.st = "own") /\ (t.b # b => u = t)
  <2>1. CASE t.b = b /\ t.st = "own"
    <3>1. status[b] = "CANCELLING" BY <2>1, <1>1, <1>4, <1>11, Zenon DEF TaskRight, Dropped
    <3>2. u = [t EXCEPT !.st = "CANCELLING"] BY <2>1, <3>1, <1>11, Zenon DEF Orphan
    <3>3. u.b = t.b /\ u.kind = t.kind /\ u.st = "CANCELLING" BY <3>2, Zenon DEF Task
    <3> QED BY <2>1, <3>3, Zenon DEF TaskRight
  <2>2. CASE ~(t.b = b /\ t.st = "own")
    <3>1. u = t BY <2>2, <1>11, Zenon DEF Orphan
    <3>2. TaskRight(t)' BY <2>2, <1>1, <1>2, <1>9, <1>11, ZenonT(40) DEF TaskRight, Dropped, Task
    <3> QED BY <2>2, <3>1, <3>2, Zenon
  <2> QED BY <2>1, <2>2, Zenon
<1>12. \A k \in DOMAIN queue' :
         \/ /\ k \in DOMAIN queue /\ TaskRight(queue[k])' /\ queue'[k].b = queue[k].b /\ queue'[k].kind = queue[k].kind
            /\ ~(queue'[k].b = b /\ queue'[k].st = "own") /\ (queue[k].b # b => queue'[k] = queue[k])
         \/ queue'[k].b = "none" /\ queue'[k].kind = "Destroy"
  <2> SUFFICES ASSUME NEW k \in DOMAIN queue', ~(queue'[k].b = "none" /\ queue'[k].kind = "Destroy")
               PROVE  /\ k \in DOMAIN queue /\ TaskRight(queue[k])' /\ queue'[k].b = queue[k].b /\ queue'[k].kind = queue[k].kind
                      /\ ~(queue'[k].b = b /\ queue'[k].st = "own") /\ (queue[k].b # b => queue'[k] = queue[k])
    BY Zenon
  <2>1. k \in DOMAIN queue /\ queue'[k] = Orphan(queue[k], b) BY <1>8, Zenon
  <2>2. queue[k] \in Task /\ TaskRight(queue[k]) BY <1>1, <2>1, SeqElem, Zenon DEF IInv, TasksRight
  <2> QED BY <2>1, <2>2, <1>11, Zenon
<1>13. \A k \in DOMAIN delayed' :
          /\ k \in DOMAIN delayed /\ TaskRight(delayed[k])' /\ delayed'[k].b = delayed[k].b
          /\ ~(delayed'[k].b = b /\ delayed'[k].st = "own") /\ (delayed[k].b # b => delayed'[k] = delayed[k])
  <2> SUFFICES ASSUME NEW k \in DOMAIN delayed'
               PROVE  /\ k \in DOMAIN delayed /\ TaskRight(delayed[k])' /\ delayed'[k].b = delayed[k].b
                      /\ ~(delayed'[k].b = b /\ delayed'[k].st = "own") /\ (delayed[k].b # b => delayed'[k] = delayed[k])
    BY Zenon
  <2>1. k \in DOMAIN delayed /\ delayed'[k] = Orphan(delayed[k], b) BY <1>7, Zenon
  <2>2. delayed[k] \in Task /\ TaskRight(delayed[k]) BY <1>1, <2>1, SeqElem, ZenonT(40) DEF IInv, TasksRight
  <2> QED BY <2>1, <2>2, <1>11, Zenon
<1>14. /\ job' \in JobType /\ job'.b = job.b /\ ~(job'.b = b /\ job'.st = "own")
       /\ job.b # b => job' = job
       /\ RunsRight'
  <2>1. CASE job.b = b /\ job.st = "own"
    <3>1. RunsRight /\ job # NoJob BY <1>1, <2>1 DEF IInv, NoJob
    <3>2. job.step = "read" /\ status[b] = "CANCELLING" BY <2>1, <3>1, <1>4, Zenon DEF RunsRight, Dropped
    <3>3. job' = [job EXCEPT !.st = "CANCELLING"] BY <1>3, <2>1, <3>2, Zenon DEF Orphan
    <3>4. job' \in JobType /\ job'.b = job.b /\ job'.st = "CANCELLING" /\ job'.step = "read"
      BY <1>1, <3>2, <3>3, ZenonT(40) DEF JobType, Statuses
    <3> QED BY <2>1, <3>4, <1>1, Zenon DEF RunsRight
  <2>2. CASE ~(job.b = b /\ job.st = "own")
    <3>1. job' = job BY <1>3, <2>2, Zenon DEF Orphan
    <3>2. RunsRight BY Zenon DEF IInv
    <3>3. RunsRight' BY <3>1, <3>2, <2>2, <1>1, <1>2, <1>9, ZenonT(40) DEF RunsRight, Dropped, JobType
    <3> QED BY <1>1, <2>2, <3>1, <3>3, ZenonT(40)
  <2> QED BY <2>1, <2>2, Zenon
<1>15. TypeOK'
  <2>1. log' \in [Branes -> LogType] BY <1>1, <1>3, Zenon DEF TypeOK, LogType, NoLog
  <2>2. NoPeer \in PeerType BY Zenon DEF NoPeer, PeerType
  <2>3. peer' \in [Branes -> PeerType] BY <1>1, <1>3, <2>2, ZenonT(40) DEF TypeOK
  <2>4. status' \in [Branes -> Statuses] BY <1>1, <1>3, Zenon DEF TypeOK, Statuses
  <2> QED BY <1>1, <1>2, <1>6, <1>8, <1>14, <2>1, <2>3, <2>4, ZenonT(40) DEF TypeOK
<1>16. ASSUME NEW o \in Branes PROVE DiskRight(o)'
  <2>1. CASE o = b BY SMTT(30), <2>1, <1>2, <1>4, <1>10 DEF IInv, DiskRight, NoLog
  <2>2. CASE o # b BY <2>2, <1>2, <1>9, ZenonT(40) DEF IInv, DiskRight
  <2> QED BY <2>1, <2>2, ZenonT(40)
<1>17. ASSUME NEW o \in Branes PROVE PeerRight(o)'
  <2>1. CASE o = b BY <2>1, <1>2, <1>4, <1>10 DEF PeerRight, Exists, NoPeer
  <2>2. CASE o # b BY <2>2, <1>2, <1>9, RowSame, ZenonT(40) DEF IInv
  <2> QED BY <2>1, <2>2, Zenon
<1>18. ASSUME NEW o \in Branes PROVE OneTask(o)'
  <2>1. o # "none" /\ OneTask(o) BY SnapApplyAssumption, Zenon DEF IInv, SnapApplyAssumption
  <2>2. CASE o = b
    <3>1. Own(queue', b) = {} BY <1>1, <1>12, Zenon DEF Own
    <3>2. Own(delayed', b) = {} BY <1>13, Zenon DEF Own
    <3> QED BY <2>2, <3>1, <3>2, <1>14, Zenon DEF OneTask
  <2>3. CASE o # b
    <3>1. Own(queue', o) \subseteq Own(queue, o) BY <2>1, <2>3, <1>12, Zenon DEF Own
    <3>2. Own(delayed', o) \subseteq Own(delayed, o) BY <2>3, <1>13, Zenon DEF Own
    <3>3. job'.b = o => job.b = o /\ job' = job BY <2>3, <1>14, Zenon
    <3> QED BY <2>1, <3>1, <3>2, <3>3, Zenon DEF OneTask
  <2> QED BY <2>2, <2>3, Zenon
<1>19. TasksRight'
  <2>1. ASSUME NEW k \in DOMAIN queue'
        PROVE  TaskRight(queue[k])' /\ (queue'[k].kind = "Apply" <=> queue'[k].b # "none")
    <3>1. CASE queue'[k].b = "none" /\ queue'[k].kind = "Destroy" BY <3>1, Zenon DEF TaskRight
    <3>2. CASE k \in DOMAIN queue /\ TaskRight(queue[k])' /\ queue'[k].b = queue[k].b /\ queue'[k].kind = queue[k].kind
      BY <3>2, Zenon DEF IInv, TasksRight
    <3> QED BY <1>12, <3>1, <3>2, Zenon
  <2>2. \A k \in DOMAIN delayed' : TaskRight(delayed[k])' /\ delayed'[k].b # "none" BY <1>13, Zenon DEF IInv, TasksRight
  <2> QED BY <2>1, <2>2, Zenon DEF TasksRight
<1> QED BY <1>2, <1>14, <1>15, <1>16, <1>17, <1>18, <1>19, ZenonT(40) DEF IInv

\* The tasks that the store schedules at its start, one for each brane in state Applying.
LEMMA StartTasks ==
  ASSUME NEW S \in SUBSET Branes, NEW q \in {[k \in DOMAIN s |-> Apply(s[k])] : s \in Orders(S)}
  PROVE  /\ q \in Seq(Task)
         /\ \A k \in DOMAIN q : q[k].b \in S /\ q[k].st = "own" /\ q[k].kind = "Apply"
         /\ \A b : \A k, l \in Own(q, b) : k = l
<1>1. Cardinality(S) \in Nat BY SnapApplyAssumption, Zenon DEF SnapApplyAssumption
<1>2. PICK s \in Orders(S) : q = [k \in DOMAIN s |-> Apply(s[k])] BY Zenon
<1>3. /\ s \in [1 .. Cardinality(S) -> S]
      /\ \A i, j \in 1 .. Cardinality(S) : i # j => s[i] # s[j]
  BY Zenon DEF Orders
<1>4. ASSUME NEW b \in Branes PROVE Apply(b) \in Task /\ Apply(b).b = b /\ Apply(b).st = "own" /\ Apply(b).kind = "Apply"
  BY Zenon DEF Apply, Task
<1>5. q = [k \in 1 .. Cardinality(S) |-> Apply(s[k])] BY <1>2, <1>3, Zenon
<1>6. \A k \in 1 .. Cardinality(S) : s[k] \in S /\ s[k] \in Branes BY <1>3, Zenon
<1>7. \A k \in 1 .. Cardinality(S) : q[k] \in Task /\ q[k].b = s[k] /\ q[k].st = "own" /\ q[k].kind = "Apply"
  BY <1>4, <1>5, <1>6, ZenonT(40)
<1>8. DOMAIN q = 1 .. Cardinality(S) BY <1>5, Zenon
<1>9. q \in Seq(Task)
  <2>1. q \in [1 .. Cardinality(S) -> Task] BY <1>5, <1>7, Zenon
  <2> QED BY <1>1, <2>1
<1>10. ASSUME NEW b, NEW k \in Own(q, b), NEW l \in Own(q, b) PROVE k = l
  <2>1. k \in 1 .. Cardinality(S) /\ l \in 1 .. Cardinality(S) /\ q[k].b = q[l].b BY <1>8, Zenon DEF Own
  <2>2. s[k] = s[l] BY <2>1, <1>7, Zenon
  <2> QED BY <2>1, <2>2, <1>3, Zenon
<1> QED BY <1>6, <1>7, <1>8, <1>9, <1>10, Zenon

\* The Raft state a brane starts with agrees with its kv state, given that validate_states accepts it.
LEMMA StartLogRight ==
  ASSUME TypeOK, NEW b \in Branes, DiskRight(b)
  PROVE  /\ StartLog(b) \in LogType /\ StartLog(b).commit <= StartLog(b).last
         /\ kv[b].state = "Normal" => StartLog(b) = log[b]
         /\ Starts(b) /\ Live(b) => kv[b].idx <= StartLog(b).commit
<1>1. kv[b] \in KvType /\ log[b] \in LogType BY Zenon DEF TypeOK
<1>2. CASE kv[b].state = "Tombstone"
  <2>1. StartLog(b) = NoLog BY <1>2, Zenon DEF StartLog
  <2> QED BY <1>2, <2>1 DEF NoLog, LogType, Live
<1>3. CASE kv[b].state = "Applying"
  <2>1. StartLog(b) = recover_from_applying_state(b) BY <1>3, Zenon DEF StartLog
  <2>2. CASE kv[b].saved > log[b].last
    <3>1. StartLog(b) = [last |-> kv[b].saved, commit |-> kv[b].saved]
      BY <2>1, <2>2, Zenon DEF recover_from_applying_state
    <3> QED BY <1>1, <1>3, <3>1 DEF LogType, KvType, DiskRight
  <2>3. CASE ~(kv[b].saved > log[b].last)
    <3>1. StartLog(b) = log[b] BY <2>1, <2>3, Zenon DEF recover_from_applying_state
    <3>2. Starts(b) => kv[b].idx <= StartLog(b).commit BY <1>3, Zenon DEF Starts, Live, validate_states
    <3> QED BY <1>1, <1>3, <3>1, <3>2, ZenonT(40) DEF DiskRight
  <2> QED BY <2>2, <2>3, Zenon
<1>4. CASE kv[b].state \notin {"Tombstone", "Applying"}
  <2>1. StartLog(b) = log[b] BY <1>4, Zenon DEF StartLog
  <2> QED BY <1>1, <1>4, <2>1, Zenon DEF DiskRight, Live
<1> QED BY <1>2, <1>3, <1>4, Zenon

\* A crash keeps the kv engine, and the store builds the rest from it.
LEMMA CrashKeeps ==
  ASSUME IInv, panic = "no", Crash
  PROVE  IInv'
<1> DEFINE A == {b \in Branes : kv[b].state = "Applying"}
           P(b) == NewPeer(kv[b].id, kv[b].idx, IF b \in A THEN "Applying" ELSE "Relax")
<1>1. TypeOK /\ \A b \in Branes : DiskRight(b) /\ kv[b] \in KvType BY Zenon DEF IInv, TypeOK
<1>2. UNCHANGED <<kv, files, made, lost>> /\ crashes' = crashes + 1 /\ delayed' = <<>> /\ cones' = {} /\ job' = NoJob
  BY Zenon DEF Crash
<1>3. /\ peer' = [b \in Branes |-> IF Live(b) THEN P(b) ELSE NoPeer]
      /\ log' = [b \in Branes |-> StartLog(b)]
      /\ status' = [b \in Branes |-> IF b \in A THEN "PENDING" ELSE "none"]
      /\ queue' \in {[k \in DOMAIN s |-> Apply(s[k])] : s \in Orders(A)}
      /\ panic' = IF \A b \in Branes : Starts(b) THEN panic ELSE "start"
  BY Zenon DEF Crash
<1>4. PICK C : data' = Cleared(C) BY Zenon DEF Crash
<1>5. /\ queue' \in Seq(Task)
      /\ \A k \in DOMAIN queue' : queue'[k].b \in A /\ queue'[k].st = "own" /\ queue'[k].kind = "Apply"
      /\ \A b : \A k, l \in Own(queue', b) : k = l
  BY <1>3, StartTasks, Zenon
<1>6. panic' \in {"no", "start"} /\ (panic' = "no" => \A b \in Branes : Starts(b)) BY <1>3, Zenon
<1>7. \A b \in Branes : log'[b] = StartLog(b) /\ (b \in A => status'[b] = "PENDING")
                        /\ (Live(b) => peer'[b] = P(b)) /\ (~Live(b) => peer'[b] = NoPeer)
  BY <1>3, Zenon
<1>8. \A b \in Branes : /\ P(b) \in PeerType /\ P(b).id = kv[b].id /\ P(b).idx = kv[b].idx
                        /\ (P(b).snap = "Applying" <=> b \in A) /\ P(b).removing = FALSE
                        /\ P(b).pending = {} /\ P(b).pc = "idle"
  BY <1>1, Zenon DEF NewPeer, NoPeer, PeerType, KvType
<1>9. \A b \in A : b \in Branes /\ kv[b].state = "Applying" /\ Live(b) BY Zenon DEF Live
<1>10. NoPeer \in PeerType /\ NoPeer.id = 0 /\ NoPeer.idx = 0 /\ NoPeer.snap = "Relax" /\ NoPeer.pending = {}
       /\ NoPeer.pc = "idle"
  BY Zenon DEF NoPeer, PeerType
<1>11. TypeOK'
  <2>1. data' \in [Cells -> CellType] BY <1>1, <1>4, ClearedType, Zenon
  <2>2. peer' \in [Branes -> PeerType] BY <1>3, <1>8, <1>10, Zenon
  <2>3. log' \in [Branes -> LogType] BY <1>1, <1>3, StartLogRight, Zenon
  <2>4. status' \in [Branes -> Statuses] BY <1>3, Zenon DEF Statuses
  <2>5. NoJob \in JobType BY Zenon DEF NoJob, JobType, Steps
  <2>6. crashes' \in Nat /\ delayed' \in Seq(Task) /\ cones' \subseteq SUBSET Cells BY <1>1, <1>2 DEF TypeOK
  <2> QED BY <1>1, <1>2, <1>5, <1>6, <2>1, <2>2, <2>3, <2>4, <2>5, <2>6, ZenonT(40) DEF TypeOK
<1>12. ASSUME NEW b \in Branes PROVE DiskRight(b)'
  <2>1. DiskRight(b) /\ log'[b] = StartLog(b) /\ kv'[b] = kv[b] BY <1>1, <1>2, <1>7, Zenon
  <2>2. StartLog(b).commit <= StartLog(b).last /\ (kv[b].state = "Normal" => StartLog(b) = log[b])
    BY <1>1, StartLogRight, Zenon
  <2> QED BY <2>1, <2>2, Zenon DEF DiskRight
<1> HIDE DEF P
<1>13. ASSUME panic' = "no", NEW b \in Branes PROVE PeerRight(b)'
  <2>1. DiskRight(b) /\ kv[b] \in KvType /\ kv'[b] = kv[b] /\ log'[b] = StartLog(b) BY <1>1, <1>2, <1>7, Zenon
  <2>2. CASE Live(b)
    <3>1. kv[b].id > 0 /\ kv[b].idx > 0 /\ kv[b].idx \in DOMAIN Cone[b] BY <2>1, <2>2 DEF DiskRight, Live, KvType
    <3>2. kv[b].idx <= log'[b].commit BY <1>1, <1>6, <1>13, <2>1, <2>2, StartLogRight, Zenon
    <3>3. peer'[b] = P(b) BY <1>7, <2>2, Zenon
    <3>4. peer'[b].id # 0 /\ ~(peer'[b].idx = 0) BY <3>1, <3>3, <1>8, <2>1 DEF KvType
    <3> QED BY <2>1, <2>2, <3>1, <3>2, <3>3, <3>4, <1>8, ZenonT(40) DEF PeerRight, Exists, Live
  <2>3. CASE ~Live(b)
    <3>1. peer'[b] = NoPeer BY <1>7, <2>3, Zenon
    <3>2. kv[b].state \in {"None", "Tombstone"} BY <2>1, <2>3, Zenon DEF Live, KvType
    <3> QED BY <2>1, <3>1, <3>2, <1>10 DEF PeerRight, Exists
  <2> QED BY <2>2, <2>3, Zenon
<1>14. ASSUME NEW b \in Branes PROVE OneTask(b)'
  <2>1. job'.b # b BY <1>2, SnapApplyAssumption, Zenon DEF NoJob, SnapApplyAssumption
  <2>2. Own(delayed', b) = {} BY <1>2 DEF Own
  <2> QED BY <1>5, <2>1, <2>2, Zenon DEF OneTask
<1>15. TasksRight'
  <2>1. ASSUME NEW k \in DOMAIN queue' PROVE TaskRight(queue[k])' /\ queue'[k].b # "none"
    <3>1. queue'[k].b \in A /\ queue'[k].st = "own" BY <1>5, Zenon
    <3>2. \A o \in A : status'[o] = "PENDING" /\ peer'[o].snap = "Applying" /\ kv'[o].state = "Applying" /\ o # "none"
      BY <1>2, <1>7, <1>8, <1>9, SnapApplyAssumption, ZenonT(40) DEF SnapApplyAssumption
    <3> QED BY <3>1, <3>2, Zenon DEF TaskRight
  <2>2. DOMAIN delayed' = {} BY <1>2
  <2> QED BY <1>5, <2>1, <2>2, Zenon DEF TasksRight
<1>16. RunsRight' BY <1>2, Zenon DEF RunsRight
<1> QED BY <1>6, <1>11, <1>12, <1>13, <1>14, <1>15, <1>16, ZenonT(40) DEF IInv

\* Every step keeps the invariant.
LEMMA NextKeeps ==
  ASSUME IInv, [Next]_vars
  PROVE  IInv'
<1>1. CASE UNCHANGED vars
  <2>1. UNCHANGED <<kv, log, peer, status, queue, delayed, job, panic, data, files, cones, made, crashes, lost>>
    BY <1>1, Zenon DEF vars, disk, worker
  <2>2. TypeOK' BY <2>1, Zenon DEF IInv, TypeOK
  <2> QED BY <2>1, <2>2, Frame, Zenon
<1>2. CASE Next
  <2>1. panic = "no" BY <1>2, Zenon DEF Next
  <2>2. ASSUME NEW b \in Branes, NEW id \in Ids, maybe_create_peer(b, id) PROVE IInv'
    BY <2>1, <2>2, CreateKeeps, Zenon
  <2>3. ASSUME NEW b \in Branes, NEW i \in Snaps(b),
               Receive(b, i) \/ on_snapshot_message(b, i) \/ handle_snap_mgr_gc(b, i)
        PROVE  IInv'
    BY <2>1, <2>3, ReceiveKeeps, MessageKeeps, GcKeeps, Zenon
  <2>4. ASSUME NEW b \in Branes, PeerStep(b) PROVE IInv'
    BY <2>1, <2>4, ReadyKeeps, DestroyPeerKeeps, DestroyEndKeeps, PostKeeps, Zenon DEF PeerStep
  <2>5. ASSUME NEW b \in Branes, Append_(b) \/ MaybeDestroy(b) PROVE IInv'
    BY <2>1, <2>5, AppendKeeps, MaybeDestroyKeeps, Zenon
  <2>6. CASE WorkerStep BY <2>1, <2>6, TakeApplyKeeps, TakeDestroyKeeps, StartJobKeeps, JobStepKeeps, Zenon DEF WorkerStep
  <2>7. CASE clean_stale_cones BY <2>7, CleanKeeps, Zenon
  <2>8. CASE Crash BY <2>1, <2>8, CrashKeeps, Zenon
  <2> QED BY <1>2, <2>2, <2>3, <2>4, <2>5, <2>6, <2>7, <2>8, ZenonT(40) DEF Next
<1> QED BY <1>1, <1>2, Zenon
=============================================================================

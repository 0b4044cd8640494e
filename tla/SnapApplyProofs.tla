--------------------------- MODULE SnapApplyProofs ---------------------------
(***************************************************************************)
(* IInv is an invariant of SnapApply, and what follows from it for every   *)
(* set of branes, cones and ids, and every number of creations and         *)
(* crashes. Then DInv, about the data in the cells, the files of the       *)
(* snapshots and the deletions under way: every action keeps it too.       *)
(***************************************************************************)
EXTENDS SnapStepProofs

\* The inductive invariant holds in every reachable state.
THEOREM Invariance == Spec => []IInv
BY InitIInv, NextKeeps, PTL DEF Spec

\* For any number of branes, any cones and any number of crashes: a crash between any two steps
\* leaves the two engines in a state that recover_from_applying_state and validate_states accept,
\* except where the old log reaches the snapshot without being committed so far.
THEOREM RecoversAlways == Spec => []Recovers
<1>1. IInv => Recovers
  <2> SUFFICES ASSUME IInv, NEW b \in Branes PROVE Starts(b) \/ OldLog(b) BY Zenon DEF Recovers
  <2>1. TypeOK /\ DiskRight(b) /\ kv[b] \in KvType /\ log[b] \in LogType BY Zenon DEF IInv, TypeOK
  <2>2. CASE ~Live(b) BY <2>2, Zenon DEF Starts
  <2>3. CASE kv[b].state = "Normal"
    <3>1. StartLog(b) = log[b] BY <2>3, Zenon DEF StartLog
    <3> QED BY <2>1, <2>3, <3>1, Zenon DEF Starts, validate_states, DiskRight
  <2>4. CASE kv[b].state = "Applying"
    <3>1. StartLog(b) = recover_from_applying_state(b) BY <2>4, Zenon DEF StartLog
    <3>2. CASE kv[b].saved > log[b].last
      <4>1. StartLog(b) = [last |-> kv[b].saved, commit |-> kv[b].saved]
        BY <3>1, <3>2, Zenon DEF recover_from_applying_state
      <4> QED BY <2>1, <2>4, <4>1 DEF Starts, validate_states, DiskRight, KvType
    <3>3. CASE ~(kv[b].saved > log[b].last)
      <4>1. StartLog(b) = log[b] BY <3>1, <3>3, Zenon DEF recover_from_applying_state
      <4> QED BY <2>1, <2>4, <3>3, <4>1 DEF Starts, OldLog, validate_states, DiskRight, KvType, LogType
    <3> QED BY <3>2, <3>3, Zenon
  <2> QED BY <2>2, <2>3, <2>4, Zenon DEF Live
<1> QED BY <1>1, Invariance, PTL

\* Only the kv batch of a Ready with a snapshot replaces a tombstone: the write of apply_snap finds
\* its own state Applying, and the other writes make a tombstone.
LEMMA ReplacesTombstone ==
  ASSUME IInv, Next, NEW b \in Branes, kv[b].state = "Tombstone", kv'[b].state # "Tombstone"
  PROVE  kv'[b].id > kv[b].id
<1>1. TypeOK /\ panic = "no" /\ \A o \in Branes : PeerRight(o) /\ peer[o] \in PeerType /\ kv[o] \in KvType
  BY Zenon DEF IInv, TypeOK, Next
<1>2. kv' # kv BY Zenon
<1>3. ASSUME NEW o \in Branes, HandleReady(o) PROVE kv'[b].id > kv[b].id
  <2>1. PICK i : kv' = [kv EXCEPT ![o] = apply_snapshot(o, i)] /\ peer[o].pc = "idle" /\ Exists(o)
    BY <1>2, <1>3, Zenon DEF HandleReady
  <2>2. o = b BY <1>1, <2>1, Zenon DEF TypeOK
  <2>3. kv'[b].id = peer[b].id BY <1>1, <2>1, <2>2, Zenon DEF TypeOK, apply_snapshot
  <2>4. peer[b].idx \in Nat /\ ~(peer[b].idx > 0) BY <1>1, <2>1, <2>2, Zenon DEF PeerRight, PeerType
  <2>5. peer[b].idx = 0 /\ peer[b].pc = "idle" /\ Exists(b) BY <2>1, <2>2, <2>4
  <2>6. peer[b].id > kv[b].id BY <1>1, <2>5, Zenon DEF PeerRight
  <2> QED BY <2>3, <2>6, Zenon
<1>4. ASSUME NEW o \in Branes, kv' = [kv EXCEPT ![o] = Tombstone(o)] PROVE FALSE
  BY <1>1, <1>4, Zenon DEF TypeOK, Tombstone
<1>5. ASSUME NEW o \in Branes, DestroyPeer(o) PROVE FALSE BY <1>2, <1>4, <1>5, Zenon DEF DestroyPeer
<1>6. ASSUME NEW o \in Branes, MaybeDestroy(o) PROVE FALSE
  <2>1. PICK direct \in BOOLEAN : kv' = [kv EXCEPT ![o] = IF direct THEN Tombstone(o) ELSE kv[o]]
    BY <1>2, <1>6, Zenon DEF MaybeDestroy
  <2>2. CASE direct BY <1>4, <2>1, <2>2, Zenon
  <2>3. CASE ~direct BY <1>1, <1>2, <2>1, <2>3, Zenon DEF TypeOK
  <2> QED BY <2>2, <2>3, Zenon
<1>7. ASSUME WriteNormal PROVE FALSE
  <2>1. job # NoJob /\ job \in JobType /\ RunsRight BY <1>1, <1>7 DEF WriteNormal, NoJob, IInv, TypeOK
  <2>2. job.b # "none" /\ kv[job.b].state = "Applying" BY <2>1, <1>7, Zenon DEF RunsRight, WriteNormal
  <2>3. job.b # b BY <2>2, Zenon
  <2>4. kv'[b] = kv[b] BY <1>1, <1>7, <2>3, Zenon DEF WriteNormal, TypeOK
  <2> QED BY <2>4, Zenon
<1>8. ASSUME JobStep, ~WriteNormal PROVE FALSE
  BY <1>2, <1>8, Zenon DEF JobStep, AbortJob, FailJob, FinishJob, EndJob, ReadState, ClearCone, OpenFile, IngestSome,
                    IngestRest, disk
<1>9. ASSUME TakeApply \/ TakeDestroy \/ StartJob \/ clean_stale_cones \/ Crash PROVE FALSE
  BY <1>2, <1>9, Zenon DEF TakeApply, TakeDestroy, StartJob, clean_stale_cones, Crash, disk
<1>10. ASSUME NEW o \in Branes, DestroyEnd(o) \/ Append_(o) \/ \E more \in 0 .. 1 : PostReady(o, more) PROVE FALSE
  BY <1>2, <1>10, Zenon DEF DestroyEnd, Append_, PostReady
<1>11. ASSUME NEW o \in Branes, NEW i \in Snaps(o),
              Receive(o, i) \/ on_snapshot_message(o, i) \/ handle_snap_mgr_gc(o, i)
       PROVE  FALSE
  BY <1>2, <1>11, Zenon DEF Receive, on_snapshot_message, handle_snap_mgr_gc
<1>12. ASSUME NEW o \in Branes, NEW id \in Ids, maybe_create_peer(o, id) PROVE FALSE
  BY <1>2, <1>12, Zenon DEF maybe_create_peer, disk
<1>13. ASSUME NEW o \in Branes, PeerStep(o) PROVE kv'[b].id > kv[b].id
  BY <1>3, <1>5, <1>10, <1>13, Zenon DEF PeerStep
<1>14. ASSUME WorkerStep PROVE FALSE BY <1>7, <1>8, <1>9, <1>14, Zenon DEF WorkerStep
<1> QED BY <1>6, <1>9, <1>10, <1>11, <1>12, <1>13, <1>14, ZenonT(40) DEF Next

\* A destroyed peer never comes back, in any instance: no step of a peer, of the brane worker or of
\* a restart replaces a tombstone, but for the first snapshot of a peer with a greater id.
THEOREM DestroyedStaysAlways == Spec => DestroyedStays
<1> DEFINE A == \A b \in Branes : kv[b].state = "Tombstone" /\ kv'[b].state # "Tombstone" => kv'[b].id > kv[b].id
<1>1. ASSUME IInv, [Next]_vars PROVE [A]_vars BY <1>1, ReplacesTombstone, Zenon
<1> QED BY <1>1, Invariance, PTL DEF Spec, DestroyedStays

\* destroy never meets a snapshot that is being applied (the panic of destroy_peer is not reached),
\* and the state keeps its types.
THEOREM NoDestroyPanic == Spec => [](TypeOK /\ panic # "destroy")
<1>1. IInv => TypeOK /\ panic # "destroy" BY Zenon DEF IInv
<1> QED BY <1>1, Invariance, PTL
-----------------------------------------------------------------------------
\* What DInv says beside IInv, while the store has not panicked.
LEMMA DataParts ==
  ASSUME IInv, DInv, panic = "no"
  PROVE  /\ TypeOK /\ DataRight /\ Apart /\ DestroysRight /\ ConesRight /\ LoadRight /\ TasksRight /\ RunsRight
         /\ \A b \in Branes :
              /\ DiskRight(b) /\ PeerRight(b) /\ FilesRight(b) /\ b # "none" /\ Cone[b] \in Seq(SUBSET Cells)
              /\ kv[b] \in KvType /\ peer[b] \in PeerType /\ status[b] \in Statuses
              /\ status[b] = "FAILED" => b \in lost
<1>1. \A b \in Branes : b # "none" /\ Cone[b] \in Seq((SUBSET Cells) \ {{}}) BY SnapApplyAssumption, Zenon DEF SnapApplyAssumption
<1>2. \A b \in Branes : Cone[b] \in Seq(SUBSET Cells) BY <1>1
<1> QED BY <1>1, <1>2, Zenon DEF IInv, DInv, JobRight, TypeOK

\* What the steps below have to show.
LEMMA DataNext ==
  ASSUME IInv', DataRight', Apart', \A b \in Branes : FilesRight(b)', DestroysRight', ConesRight', LoadRight',
         panic' = "no", \A b \in Branes : status'[b] = "FAILED" => b \in lost'
  PROVE  DInv'
BY Zenon DEF IInv, DInv, JobRight

\* A step after which a failed job makes the store panic.
LEMMA DataPanic ==
  ASSUME IInv', DInv, UNCHANGED <<kv, data, status, lost>>, panic' = "job", NEW b \in Branes, status[b] = "FAILED"
  PROVE  DInv'
<1>1. b \in lost /\ \A o \in Branes : status[o] = "FAILED" => o \in lost BY Zenon DEF DInv, JobRight
<1>2. DataRight' BY Zenon DEF DInv, DataRight
<1> QED BY <1>1, <1>2, Zenon DEF IInv, DInv, JobRight

\* A brane that is not moved holds the cells it held.
LEMMA HeldSame ==
  ASSUME NEW b, peer'[b].idx = peer[b].idx
  PROVE  Held(b)' = Held(b)
BY Zenon DEF Held

\* Fewer pending snapshots claim fewer cells.
LEMMA ClaimedLess ==
  ASSUME NEW b, peer'[b].pending \subseteq peer[b].pending
  PROVE  Claimed(b)' \subseteq Claimed(b)
BY Zenon DEF Claimed

\* The brane of a state on disk has its cells in memory.
LEMMA OnDisk ==
  ASSUME NEW b \in Branes, PeerRight(b), FilesRight(b), DiskRight(b), kv[b] \in KvType, peer[b] \in PeerType, Live(b)
  PROVE  /\ kv[b].state = "Normal" => peer[b].pc = "idle"
         /\ peer[b].pc = "idle" => peer[b].idx = kv[b].idx /\ peer[b].idx > 0 /\ Held(b) = Cone[b][kv[b].idx]
         /\ Cone[b][kv[b].idx] \subseteq Held(b) \cup Claimed(b)
         /\ kv[b].idx # 0
<1>1. peer[b].idx = 0 \/ peer[b].idx > 0 BY DEF PeerType
<1>2. kv[b].state # "Tombstone" /\ kv[b].state # "None" BY Zenon DEF Live
<1>3. peer[b].pc = "idle" => peer[b].idx > 0 BY <1>1, <1>2, Zenon DEF PeerRight
<1>4. peer[b].pc = "idle" => peer[b].idx = kv[b].idx BY <1>3, Zenon DEF FilesRight
<1>5. kv[b].idx # 0 BY DEF DiskRight, Live, KvType
<1>6. peer[b].pc = "idle" => Held(b) = Cone[b][kv[b].idx] BY <1>4, <1>5, Zenon DEF Held
<1>7. peer[b].pc \in {"idle", "written"} BY <1>2, Zenon DEF PeerRight, PeerType
<1>8. peer[b].pc = "written" => kv[b].idx \in peer[b].pending /\ kv[b].state # "Normal" BY Zenon DEF PeerRight
<1>9. peer[b].pc = "written" => Cone[b][kv[b].idx] \subseteq Claimed(b) BY <1>8, Zenon DEF Claimed
<1> QED BY <1>3, <1>4, <1>5, <1>6, <1>7, <1>8, <1>9, Zenon

\* Branes stay apart when each has only cells that it held or claimed before.
LEMMA ApartKept ==
  ASSUME Apart, \A o \in Branes : Held(o)' \subseteq Held(o) \cup Claimed(o) /\ Claimed(o)' \subseteq Held(o) \cup Claimed(o)
  PROVE  Apart'
<1> SUFFICES ASSUME NEW b \in Branes, NEW o \in Branes, b # o,
                    NEW c, c \in Held(b)' \/ c \in Claimed(b)', c \in Held(o)' \/ c \in Claimed(o)'
             PROVE  FALSE
  BY Zenon DEF Apart
<1>1. c \in Held(b) \cup Claimed(b) /\ c \in Held(o) \cup Claimed(o) BY Zenon
<1> QED BY <1>1, Zenon DEF Apart

\* What FilesRight says of a brane that a step leaves alone.
LEMMA FilesKept ==
  ASSUME NEW o, FilesRight(o), kv'[o] = kv[o], peer'[o] = peer[o], status'[o] = status[o],
         files \subseteq files', lost \subseteq lost'
  PROVE  FilesRight(o)'
BY Zenon DEF FilesRight

\* The steps that leave the cells and the worker alone, and move no brane.
LEMMA Unmoved ==
  ASSUME DataRight, DestroysRight, ConesRight, LoadRight, UNCHANGED <<data, queue, cones, job>>,
         \A o \in Branes : /\ peer'[o].idx = peer[o].idx
                           /\ kv'[o] = kv[o] \/ (kv'[o].state # "Normal" /\ ~Runs(o))
  PROVE  DataRight' /\ DestroysRight' /\ ConesRight' /\ LoadRight'
<1>1. \A o \in Branes : Held(o)' = Held(o) BY HeldSame, Zenon
<1>2. \A o \in Branes : Runs(o)' = Runs(o) BY Zenon DEF Runs
<1>3. DataRight' BY Zenon DEF DataRight
<1>4. DestroysRight' BY <1>1, ZenonT(40) DEF DestroysRight, Own
<1>5. ConesRight'
  <2> SUFFICES ASSUME NEW D \in cones, NEW b \in Branes, D \cap Held(b)' # {}
               PROVE  kv'[b].state # "Normal" /\ (Runs(b) => job.step = "clear")
    BY <1>2, Zenon DEF ConesRight
  <2>1. kv[b].state # "Normal" /\ (Runs(b) => job.step = "clear") BY <1>1, Zenon DEF ConesRight
  <2> QED BY <2>1, Zenon
<1>6. LoadRight'
  <2> SUFFICES ASSUME NEW b \in Branes, Runs(b)
               PROVE  /\ job.idx = kv'[b].idx
                      /\ job.step = "write" => \A c \in Cone[b][kv'[b].idx] : data[c] = <<b, kv'[b].idx>>
                      /\ job.step = "finish" => kv'[b].state = "Normal"
    BY <1>2, Zenon DEF LoadRight
  <2>1. kv'[b] = kv[b] BY Zenon
  <2> QED BY <2>1, ZenonT(40) DEF LoadRight
<1> QED BY <1>3, <1>4, <1>5, <1>6, Zenon

\* What no peer, and no job, look like.
LEMMA Absent ==
  /\ NoPeer.idx = 0 /\ NoPeer.pending = {} /\ NoPeer.pc = "idle" /\ NoPeer.snap = "Relax"
  /\ NoKv.state = "None" /\ NoJob.step = "none"
BY Zenon DEF NoPeer, NoKv, NoJob

\* A job past its read is the one that a peer waits for.
LEMMA Running ==
  ASSUME IInv, panic = "no", job.step \notin {"none", "read"}
  PROVE  /\ job.b \in Branes /\ Runs(job.b) /\ job.st = "own" /\ peer[job.b].snap = "Applying" /\ peer[job.b].pc = "idle"
         /\ status[job.b] \in {"RUNNING", "CANCELLING"}
         /\ job.step # "finish" => kv[job.b].state = "Applying"
<1>1. job # NoJob BY Absent, Zenon
<1>2. RunsRight /\ job \in JobType BY Zenon DEF IInv, TypeOK
<1>3. /\ job.b # "none" /\ job.st = "own" /\ peer[job.b].snap = "Applying" /\ status[job.b] \in {"RUNNING", "CANCELLING"}
      /\ job.step # "finish" => kv[job.b].state = "Applying"
  BY <1>1, <1>2, Zenon DEF RunsRight
<1>4. job.b \in Branes BY <1>2, <1>3, Zenon DEF JobType
<1>5. PeerRight(job.b) BY <1>4, Zenon DEF IInv
<1> QED BY <1>3, <1>4, <1>5, Zenon DEF Runs, PeerRight

\* The job that runs for a brane is its own.
LEMMA RunsOf ==
  ASSUME NEW b, Runs(b)
  PROVE  job.b = b /\ job.step \notin {"none", "read"}
BY Zenon DEF Runs

\* A created peer (maybe_create_peer) has no cells yet.
LEMMA CreateData ==
  ASSUME IInv, IInv', DInv, panic = "no", NEW b \in Branes, NEW id \in Ids, maybe_create_peer(b, id)
  PROVE  DInv'
<1>1. TypeOK /\ DataRight /\ Apart /\ DestroysRight /\ ConesRight /\ LoadRight
      /\ \A o \in Branes : FilesRight(o) /\ PeerRight(o) /\ (status[o] = "FAILED" => o \in lost)
  BY DataParts, Zenon
<1>2. /\ UNCHANGED <<kv, data, files, status, queue, cones, job, panic, lost>>
      /\ peer' = [peer EXCEPT ![b] = NewPeer(id, 0, "Relax")] /\ peer[b].id = 0 /\ kv[b].state \in {"None", "Tombstone"}
  BY Zenon DEF maybe_create_peer, check_msg, disk, worker, Exists
<1>3. peer[b] = NoPeer BY <1>1, <1>2, Zenon DEF PeerRight, Exists
<1>4. peer'[b] = NewPeer(id, 0, "Relax") /\ \A o \in Branes \ {b} : peer'[o] = peer[o] BY <1>1, <1>2, Zenon DEF TypeOK
<1>5. /\ peer'[b].idx = 0 /\ peer'[b].pending = {} /\ peer'[b].snap = "Relax"
      /\ peer[b].idx = 0 /\ peer[b].pending = {}
  <2>1. NewPeer(id, 0, "Relax").idx = 0 /\ NewPeer(id, 0, "Relax").pending = {} /\ NewPeer(id, 0, "Relax").snap = "Relax"
    BY Zenon DEF NewPeer, NoPeer
  <2> QED BY <1>3, <1>4, <2>1, Absent, Zenon
<1>6. \A o \in Branes : peer'[o].idx = peer[o].idx /\ peer'[o].pending \subseteq peer[o].pending BY <1>4, <1>5, Zenon
<1>7. DataRight' /\ DestroysRight' /\ ConesRight' /\ LoadRight' BY <1>1, <1>2, <1>6, Unmoved, Zenon
<1>8. Apart' BY <1>1, <1>6, HeldSame, ClaimedLess, ApartKept, Zenon
<1>9. ASSUME NEW o \in Branes PROVE FilesRight(o)'
  <2>1. CASE o = b
    <3>1. ~(peer'[b].idx > 0) BY <1>5
    <3>2. kv'[b].state # "Normal" /\ kv'[b].state # "Applying" BY <1>2, Zenon
    <3> QED BY <2>1, <1>5, <3>1, <3>2, Zenon DEF FilesRight
  <2>2. CASE o # b BY <1>1, <1>2, <1>4, <2>2, FilesKept, Zenon
  <2> QED BY <2>1, <2>2, Zenon
<1>10. \A o \in Branes : status'[o] = "FAILED" => o \in lost' BY <1>1, <1>2, Zenon
<1> QED BY <1>2, <1>7, <1>8, <1>9, <1>10, DataNext, Zenon

\* A file may come, and entries of the log.
LEMMA ReceiveData ==
  ASSUME IInv, IInv', DInv, panic = "no", UNCHANGED <<kv, data, peer, status, queue, cones, job, panic, lost>>,
         files \subseteq files'
  PROVE  DInv'
<1>1. DataRight /\ Apart /\ DestroysRight /\ ConesRight /\ LoadRight
      /\ \A o \in Branes : FilesRight(o) /\ (status[o] = "FAILED" => o \in lost)
  BY DataParts, Zenon
<1>2. \A o \in Branes : peer'[o].idx = peer[o].idx /\ peer'[o].pending \subseteq peer[o].pending BY Zenon
<1>3. DataRight' /\ DestroysRight' /\ ConesRight' /\ LoadRight' BY <1>1, <1>2, Unmoved, Zenon
<1>4. Apart' BY <1>1, <1>2, HeldSame, ClaimedLess, ApartKept, Zenon
<1>5. \A o \in Branes : FilesRight(o)' BY <1>1, FilesKept, Zenon
<1>6. \A o \in Branes : status'[o] = "FAILED" => o \in lost' BY <1>1, Zenon
<1> QED BY <1>3, <1>4, <1>5, <1>6, DataNext, Zenon

\* check_snapshot lets a brane in only where no other is, and never drops the file of a snapshot
\* that its brane has taken: the brane's own cells were free for it.
LEMMA MessageData ==
  ASSUME IInv, IInv', DInv, panic = "no", NEW b \in Branes, NEW i \in Snaps(b), on_snapshot_message(b, i)
  PROVE  DInv'
<1>1. /\ TypeOK /\ DataRight /\ Apart /\ DestroysRight /\ ConesRight /\ LoadRight
      /\ \A o \in Branes : /\ FilesRight(o) /\ PeerRight(o) /\ DiskRight(o) /\ kv[o] \in KvType /\ peer[o] \in PeerType
                           /\ status[o] = "FAILED" => o \in lost
  BY DataParts, Zenon
<1>2. UNCHANGED <<kv, data, status, queue, cones, job, panic, lost>> /\ peer[b].pc = "idle" /\ <<b, i>> \in files
  BY Zenon DEF on_snapshot_message, worker
<1>3. \A o \in Branes : status'[o] = "FAILED" => o \in lost' BY <1>1, <1>2, Zenon
<1>4. CASE check_snapshot(b, i)
  <2>1. /\ i > peer[b].idx /\ files' = files /\ peer' = [peer EXCEPT ![b].pending = @ \cup {i}]
    BY <1>4, Zenon DEF on_snapshot_message
  <2>2. /\ peer'[b] = [peer[b] EXCEPT !.pending = @ \cup {i}] /\ \A o \in Branes \ {b} : peer'[o] = peer[o]
    BY <1>1, <2>1, Zenon DEF TypeOK
  <2>3. /\ peer'[b].pending = peer[b].pending \cup {i} /\ peer'[b].idx = peer[b].idx /\ peer'[b].pc = peer[b].pc
        /\ peer'[b].snap = peer[b].snap
    BY <1>1, <2>2, Zenon DEF PeerType
  <2>4. \A o \in Branes : peer'[o].idx = peer[o].idx BY <2>2, <2>3, Zenon
  <2>5. DataRight' /\ DestroysRight' /\ ConesRight' /\ LoadRight' BY <1>1, <1>2, <2>4, Unmoved, Zenon
  <2>6. Apart'
    <3>1. \A o \in Branes : Held(o)' = Held(o) BY <2>4, HeldSame, Zenon
    <3>2. \A o \in Branes \ {b} : Claimed(o)' = Claimed(o) BY <2>2, Zenon DEF Claimed
    <3>3. Claimed(b)' \subseteq Claimed(b) \cup Cone[b][i] BY <2>3, Zenon DEF Claimed
    <3>4. \A o \in Branes \ {b} : Cone[b][i] \cap (Held(o) \cup Claimed(o)) = {} BY <1>4, Zenon DEF check_snapshot, FreeFor
    <3>5. ASSUME NEW o \in Branes, o # b, NEW c, c \in Held(b)' \/ c \in Claimed(b)', c \in Held(o)' \/ c \in Claimed(o)'
          PROVE  FALSE
      <4>1. c \in Held(o) \cup Claimed(o) BY <3>1, <3>2, <3>5, Zenon
      <4>2. c \in Held(b) \cup Claimed(b) \/ c \in Cone[b][i] BY <3>1, <3>3, <3>5, Zenon
      <4> QED BY <1>1, <3>4, <3>5, <4>1, <4>2, Zenon DEF Apart
    <3>6. ASSUME NEW o \in Branes, NEW n \in Branes, o # n, o # b, n # b PROVE (Held(o)' \cup Claimed(o)') \cap (Held(n)' \cup Claimed(n)') = {}
      <4>1. (Held(o) \cup Claimed(o)) \cap (Held(n) \cup Claimed(n)) = {} BY <1>1, <3>6, Zenon DEF Apart
      <4>2. Held(o)' = Held(o) /\ Claimed(o)' = Claimed(o) /\ Held(n)' = Held(n) /\ Claimed(n)' = Claimed(n)
        BY <3>1, <3>2, <3>6, Zenon
      <4> QED BY <4>1, <4>2, Zenon
    <3>7. \A o \in Branes : o # b => (Held(b)' \cup Claimed(b)') \cap (Held(o)' \cup Claimed(o)') = {}
                                     /\ (Held(o)' \cup Claimed(o)') \cap (Held(b)' \cup Claimed(b)') = {}
      BY <3>5, Zenon
    <3> QED BY <3>6, <3>7, Zenon DEF Apart
  <2>7. ASSUME NEW o \in Branes PROVE FilesRight(o)'
    <3>1. CASE o = b BY <1>1, <1>2, <2>1, <2>3, <3>1, ZenonT(40) DEF FilesRight
    <3>2. CASE o # b BY <1>1, <1>2, <2>1, <2>2, <3>2, FilesKept, Zenon
    <3> QED BY <3>1, <3>2, Zenon
  <2> QED BY <1>2, <1>3, <2>5, <2>6, <2>7, DataNext, Zenon
<1>5. CASE ~check_snapshot(b, i)
  <2>1. files' = files \ {<<b, i>>} /\ peer' = peer BY <1>5, Zenon DEF on_snapshot_message
  <2>2. \A o \in Branes : peer'[o].idx = peer[o].idx /\ peer'[o].pending \subseteq peer[o].pending BY <2>1, Zenon
  <2>3. DataRight' /\ DestroysRight' /\ ConesRight' /\ LoadRight' BY <1>1, <1>2, <2>2, Unmoved, Zenon
  <2>4. Apart' BY <1>1, <2>2, HeldSame, ClaimedLess, ApartKept, Zenon
  <2>5. PICK o \in Branes \ {b} : Cone[b][i] \cap (Held(o) \cup Claimed(o)) # {} BY <1>5, Zenon DEF check_snapshot, FreeFor
  <2>6. ~(Cone[b][i] \subseteq Held(b) \cup Claimed(b)) BY <1>1, <2>5, Zenon DEF Apart
  <2>7. i \notin peer[b].pending BY <2>6, Zenon DEF Claimed
  <2>8. ~(kv[b].state = "Applying" /\ kv[b].idx = i) BY <1>1, <2>6, OnDisk, Zenon DEF Live
  <2>9. ASSUME NEW n \in Branes PROVE FilesRight(n)'
    <3>1. \A j : <<n, j>> \in files => <<n, j>> \in files' \/ (n = b /\ j = i) BY <2>1, Zenon
    <3>2. FilesRight(n) /\ peer'[n] = peer[n] /\ kv'[n] = kv[n] /\ status'[n] = status[n] /\ lost' = lost BY <1>1, <1>2, <2>1, Zenon
    <3>3. \A j \in peer[n].pending : j > peer[n].idx /\ <<n, j>> \in files' BY <2>7, <3>1, <3>2, Zenon DEF FilesRight
    <3>4. kv[n].state = "Applying" => n \in lost \/ <<n, kv[n].idx>> \in files' BY <2>8, <3>1, <3>2, Zenon DEF FilesRight
    <3> QED BY <3>2, <3>3, <3>4, Zenon DEF FilesRight
  <2> QED BY <1>2, <1>3, <2>3, <2>4, <2>9, DataNext, Zenon
<1> QED BY <1>4, <1>5, Zenon

\* The file that a job needs is collected only when an earlier one for it was cancelled.
LEMMA GcData ==
  ASSUME IInv, IInv', DInv, panic = "no", NEW b \in Branes, NEW i \in Snaps(b), handle_snap_mgr_gc(b, i)
  PROVE  DInv'
<1>1. /\ TypeOK /\ DataRight /\ Apart /\ DestroysRight /\ ConesRight /\ LoadRight
      /\ \A o \in Branes : /\ FilesRight(o) /\ PeerRight(o) /\ DiskRight(o) /\ kv[o] \in KvType /\ peer[o] \in PeerType
                           /\ status[o] = "FAILED" => o \in lost
  BY DataParts, Zenon
<1>2. /\ UNCHANGED <<kv, data, peer, status, queue, cones, job, panic>> /\ files' = files \ {<<b, i>>}
      /\ peer[b].id = 0 \/ (peer[b].pc = "idle" /\ on_gc_snap(b, i))
      /\ lost' = IF kv[b].state = "Applying" /\ kv[b].idx = i /\ peer[b].snap = "Aborted" THEN lost \cup {b} ELSE lost
  BY Zenon DEF handle_snap_mgr_gc, worker, Exists
<1>3. \A o \in Branes : peer'[o].idx = peer[o].idx /\ peer'[o].pending \subseteq peer[o].pending BY <1>2, Zenon
<1>4. DataRight' /\ DestroysRight' /\ ConesRight' /\ LoadRight' BY <1>1, <1>2, <1>3, Unmoved, Zenon
<1>5. Apart' BY <1>1, <1>3, HeldSame, ClaimedLess, ApartKept, Zenon
<1>6. lost \subseteq lost' BY <1>2, Zenon
<1>7. \A o \in Branes : status'[o] = "FAILED" => o \in lost' BY <1>1, <1>2, <1>6, Zenon
<1>8. i \in Nat BY SnapsNat, Zenon
<1>9. i \notin peer[b].pending
  <2>1. CASE peer[b].id = 0
    <3>1. peer[b] = NoPeer BY <1>1, <2>1, Zenon DEF PeerRight, Exists
    <3> QED BY <3>1, Absent, Zenon
  <2>2. CASE on_gc_snap(b, i)
    <3>1. ~(i > peer[b].idx) BY <1>1, <1>8, <2>2 DEF on_gc_snap, PeerType
    <3> QED BY <1>1, <3>1, Zenon DEF FilesRight
  <2> QED BY <1>2, <2>1, <2>2, Zenon
<1>10. kv[b].state = "Applying" /\ kv[b].idx = i => peer[b].snap = "Aborted"
  <2> SUFFICES ASSUME kv[b].state = "Applying", kv[b].idx = i PROVE peer[b].snap = "Aborted" BY Zenon
  <2>1. peer[b].pc = "idle" BY <1>1, <1>2, Absent, Zenon DEF PeerRight, Exists
  <2>2. peer[b].idx = i /\ peer[b].idx > 0 BY <1>1, <2>1, OnDisk, Zenon DEF Live
  <2>3. peer[b].id # 0
    <3> SUFFICES ASSUME peer[b] = NoPeer PROVE FALSE BY <1>1, Zenon DEF PeerRight, Exists
    <3>1. peer[b].idx = 0 BY Absent, Zenon
    <3> QED BY <2>2, <3>1
  <2>4. on_gc_snap(b, i) BY <1>2, <2>3, Zenon
  <2>5. peer[b].snap # "Applying" BY <1>8, <2>2, <2>4 DEF on_gc_snap
  <2>6. peer[b].snap # "Relax" BY <1>1, <2>1, Zenon DEF FilesRight
  <2> QED BY <1>1, <2>5, <2>6, Zenon DEF PeerType
<1>11. ASSUME NEW n \in Branes PROVE FilesRight(n)'
  <2>1. \A j : <<n, j>> \in files => <<n, j>> \in files' \/ (n = b /\ j = i) BY <1>2, Zenon
  <2>2. FilesRight(n) /\ peer'[n] = peer[n] /\ kv'[n] = kv[n] /\ status'[n] = status[n] BY <1>1, <1>2, Zenon
  <2>3. \A j \in peer[n].pending : j > peer[n].idx /\ <<n, j>> \in files' BY <1>9, <2>1, <2>2, Zenon DEF FilesRight
  <2>4. kv[n].state = "Applying" => n \in lost' \/ <<n, kv[n].idx>> \in files'
    BY <1>2, <1>6, <1>10, <2>1, <2>2, Zenon DEF FilesRight
  <2> QED BY <2>2, <2>3, <2>4, Zenon DEF FilesRight
<1> QED BY <1>2, <1>4, <1>5, <1>7, <1>11, DataNext, Zenon

\* A Ready takes a snapshot only when no job runs for its brane, and then the file is there.
LEMMA ReadyData ==
  ASSUME IInv, IInv', DInv, panic = "no", NEW b \in Branes, HandleReady(b)
  PROVE  DInv'
<1> DEFINE s == check_applying_snap(b)
<1>1. /\ TypeOK /\ DataRight /\ Apart /\ DestroysRight /\ ConesRight /\ LoadRight
      /\ \A o \in Branes : /\ FilesRight(o) /\ kv[o] \in KvType /\ peer[o] \in PeerType
                           /\ status[o] = "FAILED" => o \in lost
  BY DataParts, Zenon
<1>2. UNCHANGED <<data, files, status, queue, cones, job, lost>> /\ peer[b].pc = "idle" BY Zenon DEF HandleReady, worker
<1>3. \A o \in Branes : status'[o] = "FAILED" => o \in lost' BY <1>1, <1>2, Zenon
<1>4. /\ s # peer[b].snap => /\ peer[b].snap = "Applying"
                             /\ (s = "Relax" /\ status[b] = "FINISHED") \/ (s = "Aborted" /\ status[b] = "CANCELLED")
      /\ s # "Applying" => peer[b].snap # "Applying" \/ status[b] \in {"FINISHED", "CANCELLED"}
  BY Zenon DEF check_applying_snap
<1>5. s # "Applying" => ~Runs(b)
  <2> SUFFICES ASSUME s # "Applying", Runs(b) PROVE FALSE BY Zenon
  <2>1. job.b = b /\ job.step \notin {"none", "read"} BY RunsOf, Zenon
  <2>2. peer[b].snap = "Applying" /\ status[b] \in {"RUNNING", "CANCELLING"} BY <2>1, Running, Zenon
  <2> QED BY <1>4, <2>2, Zenon
<1> HIDE DEF s
<1>6. CASE Failed(b)
  <2>0. s = "Applying" BY <1>6, Zenon DEF Failed, check_applying_snap, s
  <2>1. panic' = "job" /\ kv' = kv BY <1>6, <2>0, Zenon DEF HandleReady, s
  <2>2. status[b] = "FAILED" BY <1>6, Zenon DEF Failed
  <2> QED BY <1>2, <2>1, <2>2, DataPanic, Zenon
<1>7. CASE ~Failed(b) /\ s # "Applying" /\ peer[b].pending # {}
  <2>1. PICK i \in peer[b].pending : kv' = [kv EXCEPT ![b] = apply_snapshot(b, i)]
    BY <1>7, Zenon DEF HandleReady, s
  <2>2. peer' = [peer EXCEPT ![b].snap = s, ![b].pc = "written"] /\ panic' = panic
    BY <1>7, Zenon DEF HandleReady, s
  <2>3. /\ peer'[b] = [peer[b] EXCEPT !.snap = s, !.pc = "written"] /\ kv'[b] = apply_snapshot(b, i)
        /\ \A o \in Branes \ {b} : peer'[o] = peer[o] /\ kv'[o] = kv[o]
    BY <1>1, <2>1, <2>2, Zenon DEF TypeOK
  <2>4. /\ peer'[b].idx = peer[b].idx /\ peer'[b].pending = peer[b].pending /\ peer'[b].pc = "written"
        /\ kv'[b].state = "Applying" /\ kv'[b].idx = i
    <3>1. apply_snapshot(b, i).state = "Applying" /\ apply_snapshot(b, i).idx = i BY Zenon DEF apply_snapshot
    <3>2. peer[b] \in PeerType BY <1>1, Zenon
    <3>3. peer'[b].idx = peer[b].idx /\ peer'[b].pending = peer[b].pending /\ peer'[b].pc = "written"
      BY <2>3, <3>2 DEF PeerType
    <3> QED BY <2>3, <3>1, <3>3, Zenon
  <2>5. \A o \in Branes : peer'[o].idx = peer[o].idx /\ peer'[o].pending \subseteq peer[o].pending BY <2>3, <2>4, Zenon
  <2>6. \A o \in Branes : kv'[o] = kv[o] \/ (kv'[o].state # "Normal" /\ ~Runs(o)) BY <1>5, <1>7, <2>3, <2>4, Zenon
  <2>7. DataRight' /\ DestroysRight' /\ ConesRight' /\ LoadRight' BY <1>1, <1>2, <2>5, <2>6, Unmoved, Zenon
  <2>8. Apart' BY <1>1, <2>5, HeldSame, ClaimedLess, ApartKept, Zenon
  <2>9. ASSUME NEW o \in Branes PROVE FilesRight(o)'
    <3>1. CASE o = b
      <4>1. \A j \in peer[b].pending : j > peer[b].idx /\ <<b, j>> \in files BY <1>1, Zenon DEF FilesRight
      <4> QED BY <1>2, <2>4, <3>1, <4>1, Zenon DEF FilesRight
    <3>2. CASE o # b BY <1>1, <1>2, <2>3, <3>2, FilesKept, Zenon
    <3> QED BY <3>1, <3>2, Zenon
  <2> QED BY <1>3, <2>2, <2>7, <2>8, <2>9, DataNext, Zenon
<1>8. CASE ~Failed(b) /\ ~(s # "Applying" /\ peer[b].pending # {})
  <2>1. s # peer[b].snap /\ peer' = [peer EXCEPT ![b].snap = s] /\ kv' = kv /\ panic' = panic
    BY <1>8, Zenon DEF HandleReady, s
  <2>2. peer'[b] = [peer[b] EXCEPT !.snap = s] /\ \A o \in Branes \ {b} : peer'[o] = peer[o] BY <1>1, <2>1, Zenon DEF TypeOK
  <2>3. /\ peer'[b].idx = peer[b].idx /\ peer'[b].pending = peer[b].pending /\ peer'[b].pc = peer[b].pc /\ peer'[b].snap = s
    BY <1>1, <2>2, Zenon DEF PeerType
  <2>4. \A o \in Branes : peer'[o].idx = peer[o].idx /\ peer'[o].pending \subseteq peer[o].pending BY <2>2, <2>3, Zenon
  <2>5. DataRight' /\ DestroysRight' /\ ConesRight' /\ LoadRight' BY <1>1, <1>2, <2>1, <2>4, Unmoved, Zenon
  <2>6. Apart' BY <1>1, <2>4, HeldSame, ClaimedLess, ApartKept, Zenon
  <2>7. ASSUME NEW o \in Branes PROVE FilesRight(o)'
    <3>1. CASE o = b
      <4>1. FilesRight(b) BY <1>1, Zenon
      <4>2. kv[b].state = "Applying" => s = "Aborted" BY <1>2, <1>4, <2>1, <4>1, Zenon DEF FilesRight
      <4>3. status[b] # "PENDING" /\ status[b] # "CANCELLING" BY <1>4, <2>1, Zenon
      <4> QED BY <1>2, <2>1, <2>3, <3>1, <4>1, <4>2, <4>3, Zenon DEF FilesRight
    <3>2. CASE o # b BY <1>1, <1>2, <2>1, <2>2, <3>2, FilesKept, Zenon
    <3> QED BY <3>1, <3>2, Zenon
  <2> QED BY <1>3, <2>1, <2>5, <2>6, <2>7, DataNext, Zenon
<1> QED BY <1>6, <1>7, <1>8, Zenon

\* The ranges that clear_extra_data deletes lie in the old cone, if that is an interval and the new
\* one meets it.
LEMMA RangesOld ==
  ASSUME NEW old \in SUBSET Cells, NEW new, old = {} \/ old \cap new # {},
         \A v, w \in old, d \in Cells : v <= d /\ d <= w => d \in old
  PROVE  Below(old, new) \subseteq old /\ Above(old, new) \subseteq old
<1>1. Cells \subseteq Nat BY SnapApplyAssumption, Zenon DEF SnapApplyAssumption
<1>2. ASSUME NEW c \in Below(old, new) PROVE c \in old
  <2>1. c \in Cells /\ (\E o \in old : o <= c) /\ \A n \in new : c < n BY Zenon DEF Below
  <2>2. PICK o \in old : o <= c BY <2>1, Zenon
  <2>3. PICK m \in old : m \in new BY <2>2, Zenon
  <2>4. c < m BY <2>1, <2>3, Zenon
  <2>5. c <= m BY <1>1, <2>1, <2>4
  <2> QED BY <2>1, <2>2, <2>5, Zenon
<1>3. ASSUME NEW c \in Above(old, new) PROVE c \in old
  <2>1. c \in Cells /\ (\E o \in old : c <= o) /\ \A n \in new : n < c BY Zenon DEF Above
  <2>2. PICK o \in old : c <= o BY <2>1, Zenon
  <2>3. PICK m \in old : m \in new BY <2>2, Zenon
  <2>4. m < c BY <2>1, <2>3, Zenon
  <2>5. m <= c BY <1>1, <2>1, <2>4
  <2> QED BY <2>1, <2>2, <2>5, Zenon
<1> QED BY <1>2, <1>3, Zenon

\* The cells of the extra data a snapshot leaves over were the peer's.
LEMMA ExtraCells ==
  ASSUME NEW old \in SUBSET Cells, NEW new, Below(old, new) \subseteq old, Above(old, new) \subseteq old,
         NEW k \in DOMAIN clear_extra_data(old, new)
  PROVE  clear_extra_data(old, new)[k].cells \subseteq old
<1> DEFINE below == Below(old, new)
           above == Above(old, new)
           x == IF below = {} THEN <<>> ELSE <<Destroy(below)>>
           y == IF above = {} THEN <<>> ELSE <<Destroy(above)>>
<1>1. clear_extra_data(old, new) = x \o y BY Zenon DEF clear_extra_data
<1>2. Destroy(below).cells \subseteq old /\ Destroy(above).cells \subseteq old BY Zenon DEF Destroy
<1>3. below \subseteq Cells /\ above \subseteq Cells BY Zenon
<1>4. Destroy(below) \in Task /\ Destroy(above) \in Task BY <1>3, DestroyTask, Zenon
<1> HIDE DEF below, above
<1>5. x \in Seq(Task) /\ \A j \in DOMAIN x : x[j].cells \subseteq old
  <2>1. CASE below = {} BY <2>1
  <2>2. CASE below # {} BY <1>2, <1>4, <2>2
  <2> QED BY <2>1, <2>2, Zenon
<1>6. y \in Seq(Task) /\ \A j \in DOMAIN y : y[j].cells \subseteq old
  <2>1. CASE above = {} BY <2>1
  <2>2. CASE above # {} BY <1>2, <1>4, <2>2
  <2> QED BY <2>1, <2>2, Zenon
<1> HIDE DEF x, y
<1>7. PICK z : z = x \o y BY Zenon
<1>8. k \in DOMAIN z BY <1>1, <1>7, Zenon
<1>9. (k \in DOMAIN x /\ z[k] = x[k]) \/ \E j \in DOMAIN y : z[k] = y[j]
  <2>1. \A l \in DOMAIN (x \o y) : (l \in DOMAIN x /\ (x \o y)[l] = x[l]) \/ \E j \in DOMAIN y : (x \o y)[l] = y[j]
    <3>1. x \in Seq(Task) /\ y \in Seq(Task) BY <1>5, <1>6, Zenon
    <3> QED BY <3>1, ConcatIs
  <2> QED BY <1>7, <1>8, <2>1, Zenon
<1>10. z[k].cells \subseteq old BY <1>5, <1>6, <1>9, Zenon
<1> QED BY <1>1, <1>7, <1>10, Zenon

\* A position of a sequence other than the last comes before it.
LEMMA BeforeLast == ASSUME NEW S, NEW r \in Seq(S), NEW k \in DOMAIN r PROVE k < Len(r) \/ k = Len(r)
OBVIOUS

\* A snapshot moves its brane to cells it had claimed. What it deletes was its own, and comes
\* before the task that loads the new data.
LEMMA PostData ==
  ASSUME IInv, IInv', DInv, panic = "no", NEW b \in Branes, NEW more \in 0 .. 1, PostReady(b, more)
  PROVE  DInv'
<1>0. PICK i \in peer[b].pending :
        /\ Newest(b, i) /\ queue' = queue \o clear_extra_data(Held(b), Cone[b][i]) \o <<Apply(b)>>
        /\ peer' = [peer EXCEPT ![b] = NewPeer(@.id, i, "Applying")]
  BY Zenon DEF PostReady
<1> DEFINE x == clear_extra_data(Held(b), Cone[b][i])
<1>1. /\ TypeOK /\ DataRight /\ Apart /\ DestroysRight /\ ConesRight /\ LoadRight
      /\ \A o \in Branes : /\ FilesRight(o) /\ PeerRight(o) /\ kv[o] \in KvType /\ peer[o] \in PeerType
                           /\ status[o] \in Statuses /\ (status[o] = "FAILED" => o \in lost)
  BY DataParts, Zenon
<1>2. /\ UNCHANGED <<kv, data, files, cones, job, panic, lost>> /\ peer[b].pc = "written"
      /\ status' = [status EXCEPT ![b] = "PENDING"]
  BY Zenon DEF PostReady
<1>3. kv[b].idx \in peer[b].pending /\ kv[b].idx \in Nat /\ i \in Nat /\ i # 0 /\ kv[b].state = "Applying"
  <2>1. peer[b].pending \subseteq Snaps(b) /\ kv[b].idx \in peer[b].pending /\ kv[b].state = "Applying"
    BY <1>1, <1>2, Zenon DEF PeerRight
  <2>2. \A j \in peer[b].pending : j \in Nat /\ j # 0 BY <2>1, SnapsNat, Zenon
  <2> QED BY <2>1, <2>2, Zenon
<1>4. i = kv[b].idx
  <2>1. i <= kv[b].idx BY <1>1, <1>2, Zenon DEF PeerRight, Newest
  <2>2. kv[b].idx <= i BY <1>0, <1>3, Zenon DEF Newest
  <2> QED BY <1>3, <2>1, <2>2
<1>5. /\ peer'[b] = NewPeer(peer[b].id, i, "Applying") /\ status'[b] = "PENDING"
      /\ \A o \in Branes \ {b} : peer'[o] = peer[o] /\ status'[o] = status[o]
  BY <1>0, <1>1, <1>2, Zenon DEF TypeOK
<1>6. peer'[b].idx = i /\ peer'[b].pending = {} /\ peer'[b].pc = "idle" /\ peer'[b].snap = "Applying"
  BY <1>5, Zenon DEF NewPeer, NoPeer
<1>7. Held(b)' = Cone[b][i] /\ Claimed(b)' = {} /\ Cone[b][i] \subseteq Claimed(b) BY <1>3, <1>6, Zenon DEF Held, Claimed
<1>8. \A o \in Branes \ {b} : Held(o)' = Held(o) /\ Claimed(o)' = Claimed(o) BY <1>5, Zenon DEF Held, Claimed
<1>9. Apart' BY <1>1, <1>7, <1>8, ApartKept, Zenon
<1>10. \A o \in Branes : status'[o] = "FAILED" => o \in lost' BY <1>1, <1>2, <1>5, Zenon
<1>11. DataRight' BY <1>1, <1>2, Zenon DEF DataRight
<1>12. \A o \in Branes : Runs(o)' = Runs(o) BY <1>2, Zenon DEF Runs
<1>13. ~Runs(b)
  <2> SUFFICES ASSUME Runs(b) PROVE FALSE BY Zenon
  <2>1. job.b = b /\ job.step \notin {"none", "read"} BY RunsOf, Zenon
  <2> QED BY <1>2, <2>1, Running, Zenon
<1>14. ConesRight'
  <2> SUFFICES ASSUME NEW D \in cones, NEW o \in Branes, D \cap Held(o)' # {}
               PROVE  kv[o].state # "Normal" /\ (Runs(o) => job.step = "clear")
    BY <1>2, <1>12, Zenon DEF ConesRight
  <2>1. CASE o = b BY <1>3, <1>13, <2>1, Zenon
  <2>2. CASE o # b BY <1>1, <1>8, <2>2, Zenon DEF ConesRight
  <2> QED BY <2>1, <2>2, Zenon
<1>15. LoadRight' BY <1>1, <1>2, <1>12, Zenon DEF LoadRight
<1>16. ASSUME NEW o \in Branes PROVE FilesRight(o)'
  <2>1. CASE o = b
    <3>1. b \in lost \/ <<b, kv[b].idx>> \in files BY <1>1, <1>3, Zenon DEF FilesRight
    <3> QED BY <1>2, <1>3, <1>4, <1>5, <1>6, <2>1, <3>1, Zenon DEF FilesRight
  <2>2. CASE o # b BY <1>1, <1>2, <1>5, <2>2, FilesKept, Zenon
  <2> QED BY <2>1, <2>2, Zenon
<1>17. Held(b) \in SUBSET Cells BY <1>1, HeldCells, Zenon
<1>17a. Below(Held(b), Cone[b][i]) \subseteq Held(b) /\ Above(Held(b), Cone[b][i]) \subseteq Held(b)
  <2>1. peer[b].idx \in {0} \cup DOMAIN Cone[b] /\ i \in Snaps(b) BY <1>1, Zenon DEF PeerRight
  <2>2. i \in DOMAIN Cone[b] BY <2>1, Zenon DEF Snaps
  <2>3. Held(b) = {} \/ Held(b) \cap Cone[b][i] # {} BY <2>1, <2>2, ConesAssumption, Zenon DEF ConesAssumption, Held
  <2>4. \A v, w \in Held(b), d \in Cells : v <= d /\ d <= w => d \in Held(b)
    <3>1. CASE peer[b].idx = 0 BY <3>1, Zenon DEF Held
    <3>2. CASE peer[b].idx # 0
      <4>1. Held(b) = Cone[b][peer[b].idx] /\ peer[b].idx \in DOMAIN Cone[b] BY <2>1, <3>2, Zenon DEF Held
      <4>2. \A j \in DOMAIN Cone[b] : \A v, w \in Cone[b][j], d \in Cells : v <= d /\ d <= w => d \in Cone[b][j]
        BY ConesAssumption, Zenon DEF ConesAssumption
      <4>3. \A v, w \in Cone[b][peer[b].idx], d \in Cells : v <= d /\ d <= w => d \in Cone[b][peer[b].idx]
        BY <4>1, <4>2, Zenon
      <4> QED BY <4>1, <4>3, Zenon
    <3> QED BY <3>1, <3>2, Zenon
  <2> QED BY <1>17, <2>3, <2>4, RangesOld, Zenon
<1>18. x \in Seq(Task) /\ \A k \in DOMAIN x : x[k].cells \subseteq Held(b) BY <1>17, <1>17a, ExtraTasks, ExtraCells, Zenon
<1>19. Apply(b) \in Task /\ Apply(b).b = b /\ Apply(b).st = "own" /\ Apply(b).cells = {} BY Zenon DEF Apply, Task
<1>20. queue' = queue \o x \o <<Apply(b)>> BY <1>0, Zenon
<1> HIDE DEF x
<1>21. IsGrown(queue, x, Apply(b), queue') BY <1>1, <1>18, <1>19, <1>20, Grown, Zenon DEF TypeOK
<1>22. DestroysRight'
  <2> SUFFICES ASSUME NEW k \in DOMAIN queue', NEW o \in Branes, queue'[k].cells \cap Held(o)' # {}
               PROVE  \E l \in Own(queue', o) : k < l
    BY Zenon DEF DestroysRight, Own
  <2>1. Len(queue') \in DOMAIN queue' /\ queue'[Len(queue')] = Apply(b) /\ queue' \in Seq(Task)
    BY <1>21, Zenon DEF IsGrown
  <2>2. k # Len(queue') BY <1>19, <2>1, Zenon
  <2>3. k < Len(queue') BY <2>1, <2>2, BeforeLast, Zenon
  <2>4. CASE o = b
    <3>1. Len(queue') \in Own(queue', b) BY <1>19, <2>1, Zenon DEF Own
    <3> QED BY <2>3, <2>4, <3>1, Zenon
  <2>5. CASE o # b
    <3>1. Held(o)' = Held(o) BY <1>8, <2>5, Zenon
    <3>2. k \in DOMAIN queue
      <4> SUFFICES ASSUME NEW j \in DOMAIN x, queue'[k] = x[j] PROVE FALSE BY <1>21, <2>2, Zenon DEF IsGrown
      <4>1. Held(b) \cap Held(o) # {} BY <1>18, <3>1, Zenon
      <4> QED BY <1>1, <2>5, <4>1, Zenon DEF Apart
    <3>3. queue'[k] = queue[k] BY <1>21, <3>2, Zenon DEF IsGrown
    <3>4. PICK l \in Own(queue, o) : k < l BY <1>1, <3>1, <3>2, <3>3, Zenon DEF DestroysRight
    <3>5. l \in DOMAIN queue /\ queue[l].b = o /\ queue[l].st = "own" BY Zenon DEF Own
    <3>6. l \in DOMAIN queue' /\ queue'[l] = queue[l] BY <1>21, <3>5, Zenon DEF IsGrown
    <3>7. l \in Own(queue', o) BY <3>5, <3>6, Zenon DEF Own
    <3> QED BY <3>4, <3>7, Zenon
  <2> QED BY <2>4, <2>5, Zenon
<1> QED BY <1>2, <1>9, <1>10, <1>11, <1>14, <1>15, <1>16, <1>22, DataNext, Zenon

\* What cancel_applying_snap does to the state of a peer whose snapshot is being applied.
LEMMA Cancelled ==
  ASSUME NEW b \in Branes, NEW c, c = cancel_applying_snap(b), status[b] # "FAILED", peer[b].snap = "Applying",
         c.done \/ status[b] = "RUNNING"
  PROVE  \/ status[b] = "PENDING" /\ c.st = "CANCELLING" /\ c.snap = "Aborted"
         \/ status[b] = "RUNNING" /\ c.st = "CANCELLING" /\ c.snap = "Applying"
         \/ status[b] = "FINISHED" /\ c.st = "FINISHED" /\ c.snap = "Relax"
         \/ status[b] = "CANCELLED" /\ c.st = "CANCELLED" /\ c.snap = "Aborted"
<1>1. CASE status[b] = "PENDING"
  <2>1. c = [done |-> TRUE, st |-> "CANCELLING", snap |-> "Aborted"] BY <1>1, Zenon DEF cancel_applying_snap
  <2>2. c.st = "CANCELLING" /\ c.snap = "Aborted" BY <2>1
  <2> QED BY <1>1, <2>2, Zenon
<1>2. CASE status[b] = "RUNNING"
  <2>1. c = [done |-> FALSE, st |-> "CANCELLING", snap |-> "Applying"] BY <1>2, Zenon DEF cancel_applying_snap
  <2>2. c.st = "CANCELLING" /\ c.snap = "Applying" BY <2>1
  <2> QED BY <1>2, <2>2, Zenon
<1>3. CASE status[b] # "PENDING" /\ status[b] # "RUNNING"
  <2>1. c = [done |-> check_applying_snap(b) # "Applying", st |-> status[b], snap |-> check_applying_snap(b)]
    BY <1>3, Zenon DEF cancel_applying_snap
  <2>2. c.done = (check_applying_snap(b) # "Applying") /\ c.st = status[b] /\ c.snap = check_applying_snap(b) BY <2>1
  <2>3. check_applying_snap(b) # "Applying" BY <1>3, <2>2, Zenon
  <2>4. \/ status[b] = "FINISHED" /\ check_applying_snap(b) = "Relax"
        \/ status[b] = "CANCELLED" /\ check_applying_snap(b) = "Aborted"
    BY <2>3, Zenon DEF check_applying_snap
  <2> QED BY <2>2, <2>4, Zenon
<1> QED BY <1>1, <1>2, <1>3, Zenon

\* The first part of a longer queue.
LEMMA ConcatLeft ==
  ASSUME NEW S, NEW s \in Seq(S), NEW t \in Seq(S)
  PROVE  \A k \in DOMAIN s : k \in DOMAIN (s \o t) /\ (s \o t)[k] = s[k]
OBVIOUS

\* A peer on its way out keeps its cells and its data, and the cancelled job has loaded nothing or is
\* still waited for.
LEMMA MaybeDestroyData ==
  ASSUME IInv, IInv', DInv, panic = "no", NEW b \in Branes, MaybeDestroy(b)
  PROVE  DInv'
<1> DEFINE applying == peer[b].snap = "Applying"
           c == IF applying THEN cancel_applying_snap(b)
                ELSE [done |-> TRUE, st |-> status[b], snap |-> peer[b].snap]
           direct == peer[b].idx = 0
<1>0. UNCHANGED <<data, files, queue, cones, job, lost>> /\ peer[b].pc = "idle" BY Zenon DEF MaybeDestroy, worker
<1>1. /\ TypeOK /\ DataRight /\ Apart /\ DestroysRight /\ ConesRight /\ LoadRight
      /\ \A o \in Branes : /\ FilesRight(o) /\ PeerRight(o) /\ kv[o] \in KvType /\ peer[o] \in PeerType
                           /\ status[o] = "FAILED" => o \in lost
  BY DataParts, Zenon
<1>2. CASE applying /\ status[b] = "FAILED"
  <2>1. panic' = "job" /\ UNCHANGED <<kv, status>> BY <1>2, Zenon DEF MaybeDestroy
  <2> QED BY <1>0, <1>2, <2>1, DataPanic, Zenon
<1>3. CASE ~(applying /\ status[b] = "FAILED")
  <2>1. /\ c.done \/ status[b] = "RUNNING"
        /\ status' = [status EXCEPT ![b] = c.st]
        /\ peer' = [peer EXCEPT ![b].snap = c.snap, ![b].removing = c.done,
                                ![b].pc = IF direct THEN "destroyed" ELSE @,
                                ![b].pending = IF direct THEN {} ELSE @]
        /\ kv' = [kv EXCEPT ![b] = IF direct THEN Tombstone(b) ELSE @]
        /\ panic' = panic
    BY <1>3, Zenon DEF MaybeDestroy
  <2>2. applying => ~direct BY <1>1, Zenon DEF PeerRight, PeerType
  <2>3. \/ ~applying /\ c.st = status[b] /\ c.snap = peer[b].snap
        \/ status[b] = "PENDING" /\ c.st = "CANCELLING" /\ c.snap = "Aborted"
        \/ status[b] = "RUNNING" /\ c.st = "CANCELLING" /\ c.snap = "Applying"
        \/ applying /\ status[b] = "FINISHED" /\ c.st = "FINISHED" /\ c.snap = "Relax"
        \/ status[b] = "CANCELLED" /\ c.st = "CANCELLED" /\ c.snap = "Aborted"
    <3>1. CASE applying
      <4>1. c = cancel_applying_snap(b) BY <3>1, Zenon
      <4> HIDE DEF c
      <4> QED BY <1>3, <2>1, <3>1, <4>1, Cancelled, ZenonT(40)
    <3>2. CASE ~applying BY <3>2, Zenon
    <3> QED BY <3>1, <3>2, Zenon
  <2> HIDE DEF c
  <2>4. /\ peer'[b] = [peer[b] EXCEPT !.snap = c.snap, !.removing = c.done, !.pc = IF direct THEN "destroyed" ELSE @,
                                      !.pending = IF direct THEN {} ELSE @]
        /\ status'[b] = c.st /\ kv'[b] = IF direct THEN Tombstone(b) ELSE kv[b]
    BY <1>1, <2>1, Zenon DEF TypeOK
  <2>5. \A o \in Branes \ {b} : kv'[o] = kv[o] /\ peer'[o] = peer[o] /\ status'[o] = status[o]
    BY <1>1, <2>1, Zenon DEF TypeOK
  <2>6. /\ peer'[b].idx = peer[b].idx /\ peer'[b].snap = c.snap /\ peer'[b].pc = (IF direct THEN "destroyed" ELSE "idle")
        /\ peer'[b].pending \subseteq peer[b].pending
    BY <1>0, <1>1, <2>4, Zenon DEF PeerType
  <2>7. Tombstone(b).state = "Tombstone" BY Zenon DEF Tombstone
  <2>8. direct => ~Runs(b)
    <3> SUFFICES ASSUME direct, Runs(b) PROVE FALSE BY Zenon
    <3>1. job.b = b /\ job.step \notin {"none", "read"} BY RunsOf, Zenon
    <3> QED BY <2>2, <3>1, Running, Zenon
  <2>9. \A o \in Branes : peer'[o].idx = peer[o].idx /\ peer'[o].pending \subseteq peer[o].pending BY <2>5, <2>6, Zenon
  <2>10. \A o \in Branes : kv'[o] = kv[o] \/ (kv'[o].state # "Normal" /\ ~Runs(o)) BY <2>4, <2>5, <2>7, <2>8, Zenon
  <2>11. DataRight' /\ DestroysRight' /\ ConesRight' /\ LoadRight' BY <1>0, <1>1, <2>9, <2>10, Unmoved, Zenon
  <2>12. Apart' BY <1>1, <2>9, HeldSame, ClaimedLess, ApartKept, Zenon
  <2>13. \A o \in Branes : status'[o] = "FAILED" => o \in lost'
    <3>1. c.st = "FAILED" => status[b] = "FAILED" BY <2>3, Zenon
    <3> QED BY <1>0, <1>1, <2>4, <2>5, <3>1, Zenon
  <2>14. ASSUME NEW o \in Branes PROVE FilesRight(o)'
    <3>1. CASE o = b /\ direct
      <4>1. ~(peer'[b].idx > 0) /\ kv'[b].state = "Tombstone" BY <2>4, <2>6, <2>7, <3>1
      <4>2. \A i \in peer'[b].pending : i > peer'[b].idx /\ <<b, i>> \in files' BY <1>0, <1>1, <2>6, Zenon DEF FilesRight
      <4> QED BY <3>1, <4>1, <4>2, Zenon DEF FilesRight
    <3>2. CASE o = b /\ ~direct
      <4>1. FilesRight(b) /\ kv'[b] = kv[b] BY <1>1, <2>4, <3>2, Zenon
      <4>2. \A i \in peer'[b].pending : i > peer'[b].idx /\ <<b, i>> \in files' BY <1>0, <2>6, <4>1, Zenon DEF FilesRight
      <4>3. kv[b].state = "Applying" => c.snap # "Relax" /\ (c.snap = "Applying" => c.st # "FINISHED")
        BY <1>0, <2>3, <4>1, Zenon DEF FilesRight
      <4>4. c.st = "PENDING" \/ (c.st = "CANCELLING" /\ c.snap = "Aborted") => kv[b].state # "Normal"
        BY <2>3, <4>1, Zenon DEF FilesRight
      <4> QED BY <1>0, <2>4, <2>6, <3>2, <4>1, <4>2, <4>3, <4>4, Zenon DEF FilesRight
    <3>3. CASE o # b BY <1>0, <1>1, <2>5, <3>3, FilesKept, Zenon
    <3> QED BY <3>1, <3>2, <3>3, Zenon
  <2> QED BY <2>1, <2>11, <2>12, <2>13, <2>14, DataNext, Zenon
<1> QED BY <1>2, <1>3, Zenon

\* The tombstone.
LEMMA DestroyPeerData ==
  ASSUME IInv, IInv', DInv, panic = "no", NEW b \in Branes, DestroyPeer(b)
  PROVE  DInv'
<1>1. /\ TypeOK /\ DataRight /\ Apart /\ DestroysRight /\ ConesRight /\ LoadRight
      /\ \A o \in Branes : /\ FilesRight(o) /\ PeerRight(o) /\ peer[o] \in PeerType
                           /\ status[o] = "FAILED" => o \in lost
  BY DataParts, Zenon
<1>2. /\ UNCHANGED <<data, files, status, queue, cones, job, lost>> /\ peer[b].removing
  BY Zenon DEF DestroyPeer, worker
<1>3. peer[b].snap # "Applying" BY <1>1, <1>2, Zenon DEF PeerRight
<1>4. /\ kv' = [kv EXCEPT ![b] = Tombstone(b)] /\ panic' = panic
      /\ peer' = [peer EXCEPT ![b].pc = "destroyed", ![b].pending = {}]
  BY <1>3, Zenon DEF DestroyPeer
<1>5. /\ peer'[b] = [peer[b] EXCEPT !.pc = "destroyed", !.pending = {}] /\ kv'[b].state = "Tombstone"
      /\ \A o \in Branes \ {b} : peer'[o] = peer[o] /\ kv'[o] = kv[o]
  BY <1>1, <1>4, Zenon DEF TypeOK, Tombstone
<1>6. peer'[b].idx = peer[b].idx /\ peer'[b].pending = {} /\ peer'[b].pc = "destroyed" BY <1>1, <1>5, Zenon DEF PeerType
<1>7. ~Runs(b)
  <2> SUFFICES ASSUME Runs(b) PROVE FALSE BY Zenon
  <2>1. job.b = b /\ job.step \notin {"none", "read"} BY RunsOf, Zenon
  <2> QED BY <1>3, <2>1, Running, Zenon
<1>8. \A o \in Branes : peer'[o].idx = peer[o].idx /\ peer'[o].pending \subseteq peer[o].pending BY <1>5, <1>6, Zenon
<1>9. \A o \in Branes : kv'[o] = kv[o] \/ (kv'[o].state # "Normal" /\ ~Runs(o)) BY <1>5, <1>7, Zenon
<1>10. DataRight' /\ DestroysRight' /\ ConesRight' /\ LoadRight' BY <1>1, <1>2, <1>8, <1>9, Unmoved, Zenon
<1>11. Apart' BY <1>1, <1>8, HeldSame, ClaimedLess, ApartKept, Zenon
<1>12. \A o \in Branes : status'[o] = "FAILED" => o \in lost' BY <1>1, <1>2, Zenon
<1>13. ASSUME NEW o \in Branes PROVE FilesRight(o)'
  <2>1. CASE o = b BY <1>5, <1>6, <2>1, Zenon DEF FilesRight
  <2>2. CASE o # b BY <1>1, <1>2, <1>5, <2>2, FilesKept, Zenon
  <2> QED BY <2>1, <2>2, Zenon
<1> QED BY <1>4, <1>10, <1>11, <1>12, <1>13, DataNext, Zenon

\* The cells that a destroyed peer leaves to be deleted are no other brane's.
LEMMA DestroyEndData ==
  ASSUME IInv, IInv', DInv, panic = "no", NEW b \in Branes, DestroyEnd(b)
  PROVE  DInv'
<1> DEFINE q == [k \in DOMAIN queue |-> Orphan(queue[k], b)]
           x == IF peer[b].idx > 0 THEN <<Destroy(Held(b))>> ELSE <<>>
<1>1. /\ TypeOK /\ DataRight /\ Apart /\ DestroysRight /\ ConesRight /\ LoadRight /\ b # "none"
      /\ \A o \in Branes : /\ FilesRight(o) /\ PeerRight(o) /\ peer[o] \in PeerType /\ status[o] \in Statuses
                           /\ status[o] = "FAILED" => o \in lost
  BY DataParts, Zenon
<1>2. UNCHANGED <<kv, data, files, cones, panic, lost>> /\ peer[b].pc = "destroyed" BY Zenon DEF DestroyEnd
<1>3. /\ status' = [status EXCEPT ![b] = "none"] /\ peer' = [peer EXCEPT ![b] = NoPeer] /\ job' = Orphan(job, b)
      /\ queue' = q \o x
  BY Zenon DEF DestroyEnd
<1>4. kv[b].state = "Tombstone" BY <1>1, <1>2, Zenon DEF PeerRight
<1>5. /\ peer'[b] = NoPeer /\ status'[b] = "none" /\ \A o \in Branes \ {b} : peer'[o] = peer[o] /\ status'[o] = status[o]
  BY <1>1, <1>3, Zenon DEF TypeOK
<1>6. peer'[b].idx = 0 /\ peer'[b].pending = {} BY <1>5, Absent, Zenon
<1>7. Held(b)' = {} /\ Claimed(b)' = {} BY <1>6, Zenon DEF Held, Claimed
<1>8. \A o \in Branes \ {b} : Held(o)' = Held(o) /\ Claimed(o)' = Claimed(o) BY <1>5, Zenon DEF Held, Claimed
<1>9. Apart' BY <1>1, <1>7, <1>8, ApartKept, Zenon
<1>10. DataRight' BY <1>1, <1>2, Zenon DEF DataRight
<1>11. \A o \in Branes : status'[o] = "FAILED" => o \in lost' BY <1>1, <1>2, <1>5, Zenon
<1>12. \A o \in Branes : Runs(o)' => o # b /\ job' = job
  <2>1. CASE job.b = b /\ job.st = "own"
    <3>1. job' = [job EXCEPT !.st = status[b]] /\ job \in JobType BY <1>1, <1>3, <2>1, Zenon DEF Orphan, TypeOK
    <3>2. job'.st = status[b] BY <3>1, Zenon DEF JobType
    <3>3. status[b] # "own" BY <1>1, Zenon DEF Statuses
    <3> QED BY <3>2, <3>3, Zenon DEF Runs
  <2>2. CASE ~(job.b = b /\ job.st = "own") BY <1>3, <2>2, Zenon DEF Orphan, Runs
  <2> QED BY <2>1, <2>2, Zenon
<1>13. \A o \in Branes : Runs(o)' => Runs(o) BY <1>12, Zenon DEF Runs
<1>14. ConesRight'
  <2> SUFFICES ASSUME NEW D \in cones, NEW o \in Branes, D \cap Held(o)' # {}
               PROVE  kv[o].state # "Normal" /\ (Runs(o)' => job'.step = "clear")
    BY <1>2, Zenon DEF ConesRight
  <2>1. o # b BY <1>7, Zenon
  <2>2. kv[o].state # "Normal" /\ (Runs(o) => job.step = "clear") BY <1>1, <1>8, <2>1, Zenon DEF ConesRight
  <2> QED BY <1>12, <1>13, <2>2, Zenon
<1>15. LoadRight' BY <1>1, <1>2, <1>12, <1>13, Zenon DEF LoadRight
<1>16. ASSUME NEW o \in Branes PROVE FilesRight(o)'
  <2>1. CASE o = b
    <3>1. ~(peer'[b].idx > 0) BY <1>6
    <3> QED BY <1>2, <1>4, <1>5, <1>6, <2>1, <3>1, Zenon DEF FilesRight
  <2>2. CASE o # b BY <1>1, <1>2, <1>5, <2>2, FilesKept, Zenon
  <2> QED BY <2>1, <2>2, Zenon
<1>17. Held(b) \in SUBSET Cells BY <1>1, HeldCells, Zenon
<1>18. x \in Seq(Task) /\ \A k \in DOMAIN x : x[k].cells \subseteq Held(b)
  <2>1. Destroy(Held(b)) \in Task BY <1>17, DestroyTask, Zenon
  <2>2. Destroy(Held(b)).cells \subseteq Held(b) BY Zenon DEF Destroy
  <2>3. CASE peer[b].idx > 0 BY <2>1, <2>2, <2>3
  <2>4. CASE ~(peer[b].idx > 0) BY <2>4
  <2> QED BY <2>3, <2>4, Zenon
<1>19. q \in Seq(Task) /\ DOMAIN q = DOMAIN queue /\ \A k \in DOMAIN queue : q[k] = Orphan(queue[k], b) /\ queue[k] \in Task
  BY <1>1, OrphanSeq, SeqElem, Zenon DEF TypeOK
<1>20. ASSUME NEW t \in Task PROVE Orphan(t, b).b = t.b /\ Orphan(t, b).cells = t.cells /\ (t.b # b => Orphan(t, b) = t)
  BY Zenon DEF Orphan, Task
<1> HIDE DEF q, x
<1>21. \A k \in DOMAIN q : k \in DOMAIN queue' /\ queue'[k] = q[k] BY <1>3, <1>18, <1>19, ConcatLeft
<1>22. DestroysRight'
  <2> SUFFICES ASSUME NEW k \in DOMAIN queue', NEW o \in Branes, queue'[k].cells \cap Held(o)' # {}
               PROVE  \E l \in Own(queue', o) : k < l
    BY Zenon DEF DestroysRight, Own
  <2>1. o # b /\ Held(o)' = Held(o) BY <1>7, <1>8, Zenon
  <2>2. k \in DOMAIN q
    <3> SUFFICES ASSUME NEW j \in DOMAIN x, queue'[k] = x[j] PROVE FALSE BY <1>3, <1>18, <1>19, ConcatIs, ZenonT(40)
    <3>1. Held(b) \cap Held(o) # {} BY <1>18, <2>1, Zenon
    <3> QED BY <1>1, <2>1, <3>1, Zenon DEF Apart
  <2>3. queue'[k].cells = queue[k].cells /\ k \in DOMAIN queue BY <1>19, <1>20, <1>21, <2>2, ZenonT(40)
  <2>4. PICK l \in Own(queue, o) : k < l BY <1>1, <2>1, <2>3, Zenon DEF DestroysRight
  <2>5. l \in DOMAIN queue /\ queue[l].b = o /\ queue[l].st = "own" BY Zenon DEF Own
  <2>6. l \in DOMAIN queue' /\ queue'[l] = queue[l] BY <1>19, <1>20, <1>21, <2>1, <2>5, Zenon
  <2>7. l \in Own(queue', o) BY <2>5, <2>6, Zenon DEF Own
  <2> QED BY <2>4, <2>7, Zenon
<1> QED BY <1>2, <1>9, <1>10, <1>11, <1>14, <1>15, <1>16, <1>22, DataNext, Zenon

\* Where a task of a queue is after the first was taken.
LEMMA TailShift ==
  ASSUME NEW S, NEW s \in Seq(S), s # <<>>, NEW l \in DOMAIN s, NEW k \in Nat \ {0}, k + 1 < l
  PROVE  l - 1 \in DOMAIN Tail(s) /\ Tail(s)[l - 1] = s[l] /\ k < l - 1
OBVIOUS

\* Taking the first task from the queue keeps the others in order.
LEMMA DestroysTail ==
  ASSUME DestroysRight, queue \in Seq(Task), queue # <<>>, queue' = Tail(queue), \A o \in Branes : Held(o)' = Held(o)
  PROVE  DestroysRight'
<1> SUFFICES ASSUME NEW k \in DOMAIN queue', NEW o \in Branes, queue'[k].cells \cap Held(o)' # {}
             PROVE  \E l \in Own(queue', o) : k < l
  BY Zenon DEF DestroysRight, Own
<1>1. k \in Nat \ {0} /\ k + 1 \in DOMAIN queue /\ queue'[k] = queue[k + 1] BY TailIs, Zenon
<1>2. PICK l \in Own(queue, o) : k + 1 < l BY <1>1, Zenon DEF DestroysRight
<1>3. l \in DOMAIN queue /\ queue[l].b = o /\ queue[l].st = "own" BY Zenon DEF Own
<1>4. l - 1 \in DOMAIN queue' /\ queue'[l - 1] = queue[l] /\ k < l - 1 BY <1>1, <1>2, <1>3, TailShift, Zenon
<1>5. l - 1 \in Own(queue', o) BY <1>3, <1>4, Zenon DEF Own
<1> QED BY <1>4, <1>5, Zenon

\* The steps of the worker leave the peers and, but for its end, the engines' states alone.
LEMMA WorkerFrame ==
  ASSUME Apart, UNCHANGED <<kv, peer, status, files, lost>>,
         \A o \in Branes : FilesRight(o) /\ (status[o] = "FAILED" => o \in lost)
  PROVE  /\ Apart' /\ \A o \in Branes : FilesRight(o)' /\ Held(o)' = Held(o) /\ (status'[o] = "FAILED" => o \in lost')
<1>1. \A o \in Branes : peer'[o].idx = peer[o].idx /\ peer'[o].pending \subseteq peer[o].pending BY Zenon
<1>2. \A o \in Branes : Held(o)' = Held(o) /\ Claimed(o)' \subseteq Claimed(o) BY <1>1, HeldSame, ClaimedLess, Zenon
<1>3. Apart' BY <1>2, ApartKept, Zenon
<1>4. \A o \in Branes : FilesRight(o)' BY FilesKept, Zenon
<1> QED BY <1>2, <1>3, <1>4, Zenon

\* A write to cells that no loaded brane has.
LEMMA DataUncovered ==
  ASSUME IInv, DInv, panic = "no", NEW C, \A c \in Cells : c \notin C => data'[c] = data[c],
         \A o \in Branes : kv[o].state = "Normal" => C \cap Held(o) = {},
         \A o \in Branes : kv'[o].state = "Normal" => kv'[o] = kv[o]
  PROVE  DataRight'
<1> SUFFICES ASSUME NEW o \in Branes, kv'[o].state = "Normal"
             PROVE  kv'[o].idx > 0 /\ \A c \in Cone[o][kv'[o].idx] : data'[c] = <<o, kv'[o].idx>>
  BY Zenon DEF DataRight
<1>1. kv'[o] = kv[o] /\ kv[o].state = "Normal" BY Zenon
<1>2. DataRight /\ DiskRight(o) /\ PeerRight(o) /\ FilesRight(o) /\ kv[o] \in KvType /\ peer[o] \in PeerType
  BY DataParts, Zenon
<1>3. Held(o) = Cone[o][kv[o].idx] BY <1>1, <1>2, OnDisk, Zenon DEF Live
<1>4. Held(o) \subseteq Cells BY <1>2, HeldCells, Zenon
<1>5. kv[o].idx > 0 /\ \A c \in Cone[o][kv[o].idx] : data[c] = <<o, kv[o].idx>> BY <1>1, <1>2, Zenon DEF DataRight
<1>6. \A c \in Cone[o][kv[o].idx] : data'[c] = data[c] BY <1>1, <1>3, <1>4, Zenon
<1> QED BY <1>1, <1>5, <1>6, Zenon

\* No deletion that was put off is about loaded cells.
LEMMA ConesUncovered ==
  ASSUME ConesRight, NEW S \in SUBSET cones, NEW o \in Branes, kv[o].state = "Normal"
  PROVE  (UNION S) \cap Held(o) = {}
<1> SUFFICES ASSUME NEW c \in Held(o), NEW D \in S, c \in D PROVE FALSE BY Zenon
<1>1. D \in cones /\ D \cap Held(o) # {} BY Zenon
<1> QED BY <1>1, Zenon DEF ConesRight

\* Without a job none runs.
LEMMA NoRuns == ASSUME job = NoJob PROVE \A b \in Branes : ~Runs(b)
BY Zenon DEF Runs, NoJob

\* An Apply task joins those that wait.
LEMMA TakeApplyData ==
  ASSUME IInv, IInv', DInv, panic = "no", TakeApply
  PROVE  DInv'
<1>1. /\ TypeOK /\ DataRight /\ Apart /\ DestroysRight /\ ConesRight /\ LoadRight
      /\ \A o \in Branes : FilesRight(o) /\ (status[o] = "FAILED" => o \in lost)
  BY DataParts, Zenon
<1>2. UNCHANGED <<kv, data, files, peer, status, cones, job, panic, lost>> /\ queue # <<>> /\ queue' = Tail(queue)
  BY Zenon DEF TakeApply, disk
<1>3. Apart' /\ \A o \in Branes : FilesRight(o)' /\ Held(o)' = Held(o) /\ (status'[o] = "FAILED" => o \in lost')
  BY <1>1, <1>2, WorkerFrame, Zenon
<1>4. DestroysRight' BY <1>1, <1>2, <1>3, DestroysTail, Zenon DEF TypeOK
<1>5. \A o \in Branes : Runs(o)' = Runs(o) BY <1>2, Zenon DEF Runs
<1>6. DataRight' BY <1>1, <1>2, Zenon DEF DataRight
<1>7. ConesRight' BY <1>1, <1>2, <1>3, <1>5, Zenon DEF ConesRight
<1>8. LoadRight' BY <1>1, <1>2, <1>5, Zenon DEF LoadRight
<1> QED BY <1>2, <1>3, <1>4, <1>6, <1>7, <1>8, DataNext, Zenon

\* A deletion is registered while the brane that has the cells now still waits for its data, and
\* only cells that no brane has loaded are deleted.
LEMMA TakeDestroyData ==
  ASSUME IInv, IInv', DInv, panic = "no", TakeDestroy
  PROVE  DInv'
<1> DEFINE C == Head(queue).cells
<1>1. /\ TypeOK /\ DataRight /\ Apart /\ DestroysRight /\ ConesRight /\ LoadRight /\ TasksRight
      /\ \A o \in Branes : FilesRight(o) /\ (status[o] = "FAILED" => o \in lost) /\ o # "none"
  BY DataParts, Zenon
<1>2. /\ UNCHANGED <<kv, files, peer, status, job, panic, lost>> /\ job = NoJob /\ queue # <<>> /\ queue' = Tail(queue)
  BY Zenon DEF TakeDestroy
<1>3. PICK stale \in SUBSET (cleanup_overlap_cones(C).left \cup {C}) :
        /\ cones' = (cleanup_overlap_cones(C).left \cup {C}) \ stale
        /\ data' = Cleared(cleanup_overlap_cones(C).gone \cup UNION stale)
  BY Zenon DEF TakeDestroy
<1>4. Apart' /\ \A o \in Branes : FilesRight(o)' /\ Held(o)' = Held(o) /\ (status'[o] = "FAILED" => o \in lost')
  BY <1>1, <1>2, WorkerFrame, Zenon
<1>5. DestroysRight' BY <1>1, <1>2, <1>4, DestroysTail, Zenon DEF TypeOK
<1>6. \A o \in Branes : ~Runs(o) /\ ~Runs(o)' BY <1>2, NoRuns, Zenon DEF Runs
<1>7. ASSUME NEW o \in Branes, C \cap Held(o) # {} PROVE kv[o].state # "Normal"
  <2>1. 1 \in DOMAIN queue /\ queue[1] = Head(queue) BY <1>1, <1>2, TailIs, Zenon DEF TypeOK
  <2>2. PICK l \in Own(queue, o) : 1 < l BY <1>1, <1>7, <2>1, Zenon DEF DestroysRight
  <2>3. l \in DOMAIN queue /\ queue[l].b = o /\ queue[l].st = "own" BY Zenon DEF Own
  <2>4. TaskRight(queue[l]) BY <1>1, <2>3, Zenon DEF TasksRight
  <2>5. Dropped(o) \/ status[o] = "PENDING" BY <1>1, <2>3, <2>4, Zenon DEF TaskRight
  <2> QED BY <1>1, <2>5, Zenon DEF FilesRight, Dropped
<1>8. cleanup_overlap_cones(C).left \subseteq cones /\ cleanup_overlap_cones(C).gone \subseteq UNION cones
  BY Zenon DEF cleanup_overlap_cones, drain_overlap_cones
<1> HIDE DEF C
<1>9. ConesRight'
  <2> SUFFICES ASSUME NEW D \in cones', NEW o \in Branes, D \cap Held(o)' # {} PROVE kv'[o].state # "Normal"
    BY <1>6, Zenon DEF ConesRight
  <2>1. D \in cones \/ D = C BY <1>3, <1>8, Zenon
  <2>2. D \cap Held(o) # {} BY <1>4, Zenon
  <2>3. kv[o].state # "Normal" BY <1>1, <1>7, <2>1, <2>2, Zenon DEF ConesRight
  <2> QED BY <1>2, <2>3, Zenon
<1>10. LoadRight' BY <1>6, Zenon DEF LoadRight
<1>11. DataRight'
  <2> DEFINE X == (UNION cones) \cup C
  <2>1. cleanup_overlap_cones(C).gone \cup UNION stale \subseteq X BY <1>8, Zenon
  <2>2. \A c \in Cells : c \notin X => data'[c] = data[c] BY <1>3, <2>1, Zenon DEF Cleared
  <2>3. ASSUME NEW o \in Branes, kv[o].state = "Normal" PROVE X \cap Held(o) = {}
    <3>1. (UNION cones) \cap Held(o) = {} BY <1>1, <2>3, ConesUncovered, Zenon
    <3>2. C \cap Held(o) = {} BY <1>7, <2>3, Zenon
    <3> QED BY <3>1, <3>2, Zenon
  <2> HIDE DEF X
  <2> QED BY <1>2, <2>2, <2>3, DataUncovered, Zenon
<1> QED BY <1>2, <1>4, <1>5, <1>9, <1>10, <1>11, DataNext, Zenon

\* Nor does the timer delete others.
LEMMA CleanData ==
  ASSUME IInv, IInv', DInv, panic = "no", clean_stale_cones
  PROVE  DInv'
<1>1. /\ DataRight /\ Apart /\ DestroysRight /\ ConesRight /\ LoadRight
      /\ \A o \in Branes : FilesRight(o) /\ (status[o] = "FAILED" => o \in lost)
  BY DataParts, Zenon
<1>2. UNCHANGED <<kv, files, peer, status, queue, job, panic, lost>> /\ job = NoJob BY Zenon DEF clean_stale_cones
<1>3. PICK stale \in SUBSET cones : cones' = cones \ stale /\ data' = Cleared(UNION stale) BY Zenon DEF clean_stale_cones
<1>4. Apart' /\ \A o \in Branes : FilesRight(o)' /\ Held(o)' = Held(o) /\ (status'[o] = "FAILED" => o \in lost')
  BY <1>1, <1>2, WorkerFrame, Zenon
<1>5. \A o \in Branes : ~Runs(o) /\ ~Runs(o)' BY <1>2, NoRuns, Zenon DEF Runs
<1>6. DestroysRight' BY <1>1, <1>2, <1>4, Zenon DEF DestroysRight, Own
<1>7. ConesRight' BY <1>1, <1>2, <1>3, <1>4, <1>5, Zenon DEF ConesRight
<1>8. LoadRight' BY <1>5, Zenon DEF LoadRight
<1>9. DataRight'
  <2>1. \A c \in Cells : c \notin UNION stale => data'[c] = data[c] BY <1>3, Zenon DEF Cleared
  <2>2. \A o \in Branes : kv[o].state = "Normal" => (UNION stale) \cap Held(o) = {} BY <1>1, ConesUncovered, Zenon
  <2> QED BY <1>2, <2>1, <2>2, DataUncovered, Zenon
<1> QED BY <1>2, <1>4, <1>6, <1>7, <1>8, <1>9, DataNext, Zenon

\* The start and the end of a job: no job is past its read then, and only the status of its peer changes.
LEMMA StatusData ==
  ASSUME IInv, IInv', DInv, panic = "no", UNCHANGED <<kv, data, files, peer, queue, cones, panic, lost>>,
         job'.step \in {"none", "read"}, NEW b,
         status' = status \/ \E st \in {"RUNNING", "CANCELLED", "FAILED", "FINISHED"} :
           /\ b \in Branes /\ status' = [status EXCEPT ![b] = st]
           /\ st = "FAILED" => b \in lost
           /\ st = "FINISHED" => kv[b].state # "Applying"
  PROVE  DInv'
<1>1. /\ TypeOK /\ DataRight /\ Apart /\ DestroysRight /\ ConesRight /\ LoadRight
      /\ \A o \in Branes : FilesRight(o) /\ (status[o] = "FAILED" => o \in lost)
  BY DataParts, Zenon
<1>2. \A o \in Branes : peer'[o].idx = peer[o].idx /\ peer'[o].pending \subseteq peer[o].pending BY Zenon
<1>3. \A o \in Branes : Held(o)' = Held(o) BY <1>2, HeldSame, Zenon
<1>4. Apart' BY <1>1, <1>2, HeldSame, ClaimedLess, ApartKept, Zenon
<1>5. \A o \in Branes : ~Runs(o)' BY Zenon DEF Runs
<1>6. DataRight' BY <1>1, Zenon DEF DataRight
<1>7. DestroysRight' BY <1>1, <1>3, ZenonT(40) DEF DestroysRight, Own
<1>8. ConesRight' BY <1>1, <1>3, <1>5, Zenon DEF ConesRight
<1>9. LoadRight' BY <1>5, Zenon DEF LoadRight
<1>10. ASSUME NEW o \in Branes
       PROVE  \/ status'[o] = status[o]
              \/ /\ status'[o] \in {"RUNNING", "CANCELLED", "FAILED", "FINISHED"}
                 /\ status'[o] = "FAILED" => o \in lost
                 /\ status'[o] = "FINISHED" => kv[o].state # "Applying"
  <2>1. CASE status' = status BY <2>1, Zenon
  <2>2. CASE status' # status
    <3>1. PICK st \in {"RUNNING", "CANCELLED", "FAILED", "FINISHED"} :
            /\ b \in Branes /\ status' = [status EXCEPT ![b] = st]
            /\ st = "FAILED" => b \in lost
            /\ st = "FINISHED" => kv[b].state # "Applying"
      BY <2>2, Zenon
    <3>2. status'[b] = st /\ (o # b => status'[o] = status[o]) BY <1>1, <3>1, Zenon DEF TypeOK
    <3> QED BY <3>1, <3>2, Zenon
  <2> QED BY <2>1, <2>2, Zenon
<1>11. \A o \in Branes : status'[o] = "FAILED" => o \in lost' BY <1>1, <1>10, Zenon
<1>12. ASSUME NEW o \in Branes PROVE FilesRight(o)'
  <2>1. FilesRight(o) /\ kv'[o] = kv[o] /\ peer'[o] = peer[o] BY <1>1, Zenon
  <2>2. CASE status'[o] = status[o] BY <2>1, <2>2, FilesKept, Zenon
  <2>3. CASE status'[o] # status[o]
    <3>1. status'[o] \in {"RUNNING", "CANCELLED", "FAILED", "FINISHED"} /\ (status'[o] = "FINISHED" => kv[o].state # "Applying")
      BY <1>10, <2>3, Zenon
    <3>2. status'[o] # "PENDING" /\ status'[o] # "CANCELLING" BY <3>1, Zenon
    <3> QED BY <2>1, <3>1, <3>2, Zenon DEF FilesRight
  <2> QED BY <2>2, <2>3, Zenon
<1> QED BY <1>4, <1>6, <1>7, <1>8, <1>9, <1>11, <1>12, DataNext, Zenon

\* StartJob only begins: the job has yet to read its state.
LEMMA StartJobData ==
  ASSUME IInv, IInv', DInv, panic = "no", StartJob
  PROVE  DInv'
<1> DEFINE t == Head(delayed)
<1>1. UNCHANGED <<kv, data, files, peer, queue, cones, panic, lost>> /\ delayed # <<>> BY Zenon DEF StartJob, disk
<1>2. job' = [NoJob EXCEPT !.b = t.b, !.st = t.st, !.step = "read"] BY Zenon DEF StartJob
<1>3. job'.step = "read" BY <1>2, Zenon DEF NoJob
<1>4. status' = status \/ status' = [status EXCEPT ![t.b] = "RUNNING"] BY Zenon DEF StartJob
<1>5. TypeOK /\ TasksRight BY Zenon DEF IInv
<1>6. 1 \in DOMAIN delayed /\ t = delayed[1] /\ t \in Task
  <2>1. delayed \in Seq(Task) BY <1>5, Zenon DEF TypeOK
  <2>2. 1 \in DOMAIN delayed /\ t = delayed[1] BY <1>1, <2>1, TailIs, Zenon
  <2> QED BY <2>1, <2>2, SeqElem, Zenon
<1>7. t.b \in Branes BY <1>5, <1>6, Zenon DEF TasksRight, Task
<1> HIDE DEF t
<1> QED BY <1>1, <1>3, <1>4, <1>7, StatusData, Zenon

\* The end of a job whose result is right: FAILED only for a lost file, FINISHED only once the
\* state is Normal.
LEMMA EndData ==
  ASSUME IInv, IInv', DInv, panic = "no", NEW st \in {"CANCELLED", "FAILED", "FINISHED"}, EndJob(st),
         job.b \in Branes, job.st = "own" /\ st = "FAILED" => job.b \in lost,
         job.st = "own" /\ st = "FINISHED" => kv[job.b].state # "Applying"
  PROVE  DInv'
<1>1. /\ UNCHANGED <<kv, data, files, peer, queue, cones, panic, lost>> /\ job' = NoJob
      /\ status' = status \/ (job.st = "own" /\ status' = [status EXCEPT ![job.b] = st])
  BY Zenon DEF EndJob, SetStatus, disk
<1>2. job'.step = "none" BY <1>1, Zenon DEF NoJob
<1>3. PICK b : b = job.b BY Zenon
<1> QED BY <1>1, <1>2, <1>3, StatusData, Zenon

\* A job at work has a brane.
LEMMA JobBrane ==
  ASSUME IInv, panic = "no", job.step # "none"
  PROVE  job.b \in Branes /\ job # NoJob
<1>1. job # NoJob BY Absent, Zenon
<1>2. job.b # "none" /\ job \in JobType BY <1>1, Zenon DEF IInv, RunsRight, TypeOK
<1> QED BY <1>1, <1>2, Zenon DEF JobType

\* A job fails only when its file was collected after an earlier one was cancelled, and a job that
\* ends well has written its state.
LEMMA JobEndsData ==
  ASSUME IInv, IInv', DInv, panic = "no", AbortJob \/ FailJob \/ FinishJob
  PROVE  DInv'
<1>1. CASE AbortJob
  <2>1. job.step # "none" /\ EndJob("CANCELLED") BY <1>1, Zenon DEF AbortJob, check_abort
  <2> QED BY <2>1, JobBrane, EndData, Zenon
<1>2. CASE FailJob
  <2>1. /\ job.step # "none" /\ EndJob("FAILED") /\ ~check_abort
        /\ \/ job.step = "read" /\ kv[job.b].state = "None"
           \/ job.step = "file" /\ (kv[job.b].idx = 0 \/ <<job.b, kv[job.b].idx>> \notin files)
    BY <1>2, Zenon DEF FailJob
  <2>2. job.b \in Branes /\ job # NoJob BY <2>1, JobBrane, Zenon
  <2>3. job.st = "own" => job.b \in lost
    <3> SUFFICES ASSUME job.st = "own" PROVE job.b \in lost BY Zenon
    <3>1. CASE job.step = "read" /\ kv[job.b].state = "None"
      <4>1. RunsRight BY Zenon DEF IInv
      <4>2. Dropped(job.b) BY <2>2, <3>1, <4>1, Zenon DEF RunsRight
      <4>3. check_abort BY <3>1, <4>2, Zenon DEF check_abort, St, Dropped
      <4> QED BY <2>1, <4>3, Zenon
    <3>2. CASE job.step = "file" /\ (kv[job.b].idx = 0 \/ <<job.b, kv[job.b].idx>> \notin files)
      <4>1. kv[job.b].state = "Applying" BY <3>2, Running, Zenon
      <4>2. /\ FilesRight(job.b) /\ PeerRight(job.b) /\ DiskRight(job.b) /\ kv[job.b] \in KvType /\ peer[job.b] \in PeerType
        BY <2>2, DataParts, Zenon
      <4>3. kv[job.b].idx # 0 BY <2>2, <4>1, <4>2, OnDisk, Zenon DEF Live
      <4> QED BY <3>2, <4>1, <4>2, <4>3, Zenon DEF FilesRight
    <3> QED BY <2>1, <3>1, <3>2, Zenon
  <2> QED BY <2>1, <2>2, <2>3, EndData, Zenon
<1>3. CASE FinishJob
  <2>1. job.step = "finish" /\ EndJob("FINISHED") BY <1>3, Zenon DEF FinishJob
  <2>2. job.b \in Branes /\ Runs(job.b) BY <2>1, Running, Zenon
  <2>3. kv[job.b].state = "Normal" BY <2>1, <2>2, DataParts, Zenon DEF LoadRight
  <2> QED BY <2>1, <2>2, <2>3, EndData, Zenon
<1> QED BY <1>1, <1>2, <1>3, Zenon

\* What a job reads on disk is what it loads.
LEMMA ReadStateData ==
  ASSUME IInv, IInv', DInv, panic = "no", ReadState
  PROVE  DInv'
<1>1. /\ TypeOK /\ DataRight /\ Apart /\ DestroysRight /\ ConesRight /\ LoadRight
      /\ \A o \in Branes : FilesRight(o) /\ (status[o] = "FAILED" => o \in lost)
  BY DataParts, Zenon
<1>2. /\ UNCHANGED <<kv, data, files, peer, status, queue, cones, panic, lost>>
      /\ job' = [job EXCEPT !.step = "clear", !.id = kv[job.b].id, !.idx = kv[job.b].idx]
  BY Zenon DEF ReadState, disk
<1>3. job'.step = "clear" /\ job'.idx = kv[job.b].idx /\ job'.b = job.b BY <1>1, <1>2, Zenon DEF TypeOK, JobType
<1>4. Apart' /\ \A o \in Branes : FilesRight(o)' /\ Held(o)' = Held(o) /\ (status'[o] = "FAILED" => o \in lost')
  BY <1>1, <1>2, WorkerFrame, Zenon
<1>5. DestroysRight' BY <1>1, <1>2, <1>4, Zenon DEF DestroysRight, Own
<1>6. DataRight' BY <1>1, <1>2, Zenon DEF DataRight
<1>7. ConesRight' BY <1>1, <1>2, <1>3, <1>4, Zenon DEF ConesRight
<1>8. LoadRight' BY <1>2, <1>3, Zenon DEF LoadRight, Runs
<1> QED BY <1>2, <1>4, <1>5, <1>6, <1>7, <1>8, DataNext, Zenon

\* The cells that a job writes are those of its brane, which has no data to lose.
LEMMA JobCells ==
  ASSUME IInv, DInv, panic = "no", job.step \notin {"none", "read", "finish"}
  PROVE  /\ job.b \in Branes /\ Runs(job.b) /\ kv[job.b].state = "Applying" /\ job.idx = kv[job.b].idx
         /\ JobCone = Held(job.b) /\ JobCone = Cone[job.b][kv[job.b].idx] /\ JobCone \subseteq Cells
         /\ \A o \in Branes : kv[o].state = "Normal" => JobCone \cap Held(o) = {}
<1>1. job.b \in Branes /\ Runs(job.b) /\ peer[job.b].pc = "idle" /\ kv[job.b].state = "Applying" BY Running, Zenon
<1>2. /\ FilesRight(job.b) /\ PeerRight(job.b) /\ DiskRight(job.b) /\ kv[job.b] \in KvType /\ peer[job.b] \in PeerType
      /\ LoadRight /\ Apart
  BY <1>1, DataParts, Zenon
<1>3. kv[job.b].idx # 0 /\ Held(job.b) = Cone[job.b][kv[job.b].idx] BY <1>1, <1>2, OnDisk, Zenon DEF Live
<1>4. job.idx = kv[job.b].idx BY <1>1, <1>2, Zenon DEF LoadRight
<1>5. JobCone = Cone[job.b][kv[job.b].idx] BY <1>3, <1>4, Zenon DEF JobCone
<1>6. Held(job.b) \subseteq Cells BY <1>1, <1>2, HeldCells, Zenon
<1>7. ASSUME NEW o \in Branes, kv[o].state = "Normal" PROVE JobCone \cap Held(o) = {}
  <2>1. o # job.b BY <1>1, <1>7, Zenon
  <2>2. Held(job.b) \cap Held(o) = {} BY <1>1, <1>2, <2>1, Zenon DEF Apart
  <2> QED BY <1>3, <1>5, <2>2, Zenon
<1> QED BY <1>1, <1>3, <1>4, <1>5, <1>6, <1>7, Zenon

\* The steps of a job between its read and its write.
LEMMA GotoData ==
  ASSUME IInv, IInv', DInv, panic = "no", UNCHANGED <<kv, files, peer, status, queue, panic, lost>>,
         job.step \notin {"none", "read", "finish"}, NEW step \in {"file", "ingest", "rest", "write"}, Goto(step),
         \A c \in Cells : c \notin JobCone \cup UNION cones => data'[c] = data[c],
         \A D \in cones' : D \in cones /\ (D \cap JobCone = {} \/ job.step # "clear"),
         step = "write" => \A c \in JobCone : data'[c] = <<job.b, job.idx>>
  PROVE  DInv'
<1>1. /\ TypeOK /\ DataRight /\ Apart /\ DestroysRight /\ ConesRight /\ LoadRight
      /\ \A o \in Branes : FilesRight(o) /\ (status[o] = "FAILED" => o \in lost)
  BY DataParts, Zenon
<1>2. /\ job.b \in Branes /\ Runs(job.b) /\ kv[job.b].state = "Applying" /\ job.idx = kv[job.b].idx
      /\ JobCone = Held(job.b) /\ JobCone = Cone[job.b][kv[job.b].idx]
      /\ \A o \in Branes : kv[o].state = "Normal" => JobCone \cap Held(o) = {}
  BY JobCells, Zenon
<1>3. job'.step = step /\ job'.b = job.b /\ job'.st = job.st /\ job'.idx = job.idx BY <1>1, Zenon DEF Goto, TypeOK, JobType
<1>4. Apart' /\ \A o \in Branes : FilesRight(o)' /\ Held(o)' = Held(o) /\ (status'[o] = "FAILED" => o \in lost')
  BY <1>1, WorkerFrame, Zenon
<1>5. DestroysRight' BY <1>1, <1>4, ZenonT(40) DEF DestroysRight, Own
<1>6. DataRight'
  <2> DEFINE X == JobCone \cup UNION cones
  <2>1. \A o \in Branes : kv[o].state = "Normal" => (UNION cones) \cap Held(o) = {} BY <1>1, ConesUncovered, Zenon
  <2>2. \A o \in Branes : kv[o].state = "Normal" => X \cap Held(o) = {} BY <1>2, <2>1, Zenon
  <2>3. \A c \in Cells : c \notin X => data'[c] = data[c] BY Zenon
  <2> HIDE DEF X
  <2> QED BY <2>2, <2>3, DataUncovered, Zenon
<1>7. \A o \in Branes : Runs(o)' => o = job.b BY <1>3, Zenon DEF Runs
<1>8. ConesRight'
  <2> SUFFICES ASSUME NEW D \in cones', NEW o \in Branes, D \cap Held(o)' # {}
               PROVE  kv[o].state # "Normal" /\ ~Runs(o)'
    BY Zenon DEF ConesRight
  <2>1. D \in cones /\ D \cap Held(o) # {} BY <1>4, Zenon
  <2>2. kv[o].state # "Normal" /\ (Runs(o) => job.step = "clear") BY <1>1, <2>1, Zenon DEF ConesRight
  <2>3. o # job.b BY <1>2, <2>1, <2>2, Zenon
  <2> QED BY <1>7, <2>2, <2>3, Zenon
<1>9. LoadRight'
  <2> SUFFICES ASSUME NEW o \in Branes, Runs(o)'
               PROVE  /\ job'.idx = kv[o].idx
                      /\ job'.step = "write" => \A c \in Cone[o][kv[o].idx] : data'[c] = <<o, kv[o].idx>>
                      /\ job'.step # "finish"
    BY Zenon DEF LoadRight
  <2>1. o = job.b BY <1>7, Zenon
  <2> QED BY <1>2, <1>3, <2>1, Zenon
<1> QED BY <1>4, <1>5, <1>6, <1>8, <1>9, DataNext, Zenon

\* The write of the state Normal comes when all the data is there, and no deletion that was put off
\* is about it.
LEMMA WriteNormalData ==
  ASSUME IInv, IInv', DInv, panic = "no", WriteNormal
  PROVE  DInv'
<1> DEFINE b == job.b
<1>1. /\ TypeOK /\ DataRight /\ Apart /\ DestroysRight /\ ConesRight /\ LoadRight
      /\ \A o \in Branes : FilesRight(o) /\ kv[o] \in KvType /\ (status[o] = "FAILED" => o \in lost)
  BY DataParts, Zenon
<1>2. /\ UNCHANGED <<data, files, peer, status, queue, cones, panic, lost>> /\ job.step = "write" /\ Goto("finish")
      /\ kv' = [kv EXCEPT ![b] = [@ EXCEPT !.state = "Normal", !.id = job.id, !.saved = 0]]
  BY Zenon DEF WriteNormal
<1>3. /\ b \in Branes /\ Runs(b) /\ kv[b].state = "Applying" /\ job.idx = kv[b].idx /\ JobCone = Held(b)
  BY <1>2, JobCells, Zenon
<1>4. peer[b].snap = "Applying" /\ peer[b].pc = "idle" /\ status[b] \in {"RUNNING", "CANCELLING"} BY <1>2, Running, Zenon
<1>5. job'.step = "finish" /\ job'.b = b /\ job'.st = job.st /\ job'.idx = job.idx BY <1>1, <1>2, Zenon DEF Goto, TypeOK, JobType
<1> HIDE DEF b
<1>6. /\ kv'[b] = [kv[b] EXCEPT !.state = "Normal", !.id = job.id, !.saved = 0]
      /\ \A o \in Branes \ {b} : kv'[o] = kv[o]
  BY <1>1, <1>2, <1>3, Zenon DEF TypeOK
<1>7. kv'[b].state = "Normal" /\ kv'[b].idx = kv[b].idx BY <1>1, <1>3, <1>6, Zenon DEF KvType
<1>8. \A o \in Branes : peer'[o].idx = peer[o].idx /\ peer'[o].pending \subseteq peer[o].pending BY <1>2, Zenon
<1>9. \A o \in Branes : Held(o)' = Held(o) BY <1>8, HeldSame, Zenon
<1>10. Apart' BY <1>1, <1>8, HeldSame, ClaimedLess, ApartKept, Zenon
<1>11. DestroysRight' BY <1>1, <1>2, <1>9, Zenon DEF DestroysRight, Own
<1>12. DataRight'
  <2> SUFFICES ASSUME NEW o \in Branes, kv'[o].state = "Normal"
               PROVE  kv'[o].idx > 0 /\ \A c \in Cone[o][kv'[o].idx] : data'[c] = <<o, kv'[o].idx>>
    BY Zenon DEF DataRight
  <2>1. CASE o = b
    <3>1. kv[b].idx > 0 BY <1>3, Zenon DEF IInv, DiskRight
    <3>2. \A c \in Cone[b][kv[b].idx] : data[c] = <<b, kv[b].idx>> BY <1>1, <1>2, <1>3, Zenon DEF LoadRight
    <3> QED BY <1>2, <1>7, <2>1, <3>1, <3>2, Zenon
  <2>2. CASE o # b
    <3>1. kv'[o] = kv[o] /\ data' = data BY <1>2, <1>6, <2>2, Zenon
    <3> QED BY <1>1, <3>1, Zenon DEF DataRight
  <2> QED BY <2>1, <2>2, Zenon
<1>13. \A o \in Branes : Runs(o)' <=> Runs(o)
  BY <1>2, <1>3, <1>5, Zenon DEF Runs, b
<1>14. \A o \in Branes : Runs(o) => o = b BY Zenon DEF Runs, b
<1>15. ConesRight'
  <2> SUFFICES ASSUME NEW D \in cones, NEW o \in Branes, D \cap Held(o)' # {}
               PROVE  kv'[o].state # "Normal" /\ ~Runs(o)
    BY <1>2, <1>13, Zenon DEF ConesRight
  <2>1. kv[o].state # "Normal" /\ (Runs(o) => job.step = "clear") BY <1>1, <1>9, Zenon DEF ConesRight
  <2>2. ~Runs(o) BY <1>2, <2>1, Zenon
  <2>3. o # b BY <1>3, <2>2, Zenon
  <2> QED BY <1>6, <2>1, <2>2, <2>3, Zenon
<1>16. LoadRight'
  <2> SUFFICES ASSUME NEW o \in Branes, Runs(o)'
               PROVE  job'.idx = kv'[o].idx /\ job'.step # "write" /\ kv'[o].state = "Normal"
    BY Zenon DEF LoadRight
  <2>1. o = b BY <1>13, <1>14, Zenon
  <2> QED BY <1>3, <1>5, <1>7, <2>1, Zenon
<1>17. ASSUME NEW o \in Branes PROVE FilesRight(o)'
  <2>1. CASE o = b
    <3>1. FilesRight(b) /\ peer'[b] = peer[b] /\ status'[b] = status[b] BY <1>1, <1>2, <1>3, Zenon
    <3>2. status[b] # "PENDING" /\ peer[b].snap # "Aborted" BY <1>4, Zenon DEF b
    <3> QED BY <1>2, <1>7, <2>1, <3>1, <3>2, Zenon DEF FilesRight
  <2>2. CASE o # b BY <1>1, <1>2, <1>6, <2>2, FilesKept, Zenon
  <2> QED BY <2>1, <2>2, Zenon
<1>18. \A o \in Branes : status'[o] = "FAILED" => o \in lost' BY <1>1, <1>2, Zenon
<1> QED BY <1>2, <1>10, <1>11, <1>12, <1>15, <1>16, <1>17, <1>18, DataNext, Zenon

\* Every step of a job.
LEMMA JobStepData ==
  ASSUME IInv, IInv', DInv, panic = "no", JobStep
  PROVE  DInv'
<1>1. CASE AbortJob \/ FailJob \/ FinishJob BY <1>1, JobEndsData, Zenon
<1>2. CASE ReadState BY <1>2, ReadStateData, Zenon
<1>3. CASE WriteNormal BY <1>3, WriteNormalData, Zenon
<1>4. CASE ClearCone
  <2>1. /\ UNCHANGED <<kv, files, peer, status, queue, panic, lost>> /\ job.step = "clear" /\ Goto("file")
        /\ cones' = cleanup_overlap_cones(JobCone).left
        /\ data' = Cleared(cleanup_overlap_cones(JobCone).gone \cup JobCone)
    BY <1>4, Zenon DEF ClearCone
  <2>2. /\ cleanup_overlap_cones(JobCone).left = cones \ drain_overlap_cones(JobCone)
        /\ cleanup_overlap_cones(JobCone).gone = UNION drain_overlap_cones(JobCone)
    BY Zenon DEF cleanup_overlap_cones
  <2>3. \A D \in cones' : D \in cones /\ D \cap JobCone = {} BY <2>1, <2>2, Zenon DEF drain_overlap_cones
  <2>4. cleanup_overlap_cones(JobCone).gone \subseteq UNION cones BY <2>2, Zenon DEF drain_overlap_cones
  <2>5. \A c \in Cells : c \notin JobCone \cup UNION cones => data'[c] = data[c] BY <2>1, <2>4, Zenon DEF Cleared
  <2> QED BY <2>1, <2>3, <2>5, GotoData, Zenon
<1>5. CASE OpenFile
  <2>1. /\ UNCHANGED <<kv, data, files, peer, status, queue, cones, panic, lost>> /\ job.step = "file" /\ Goto("ingest")
    BY <1>5, Zenon DEF OpenFile, disk
  <2> QED BY <2>1, GotoData, Zenon
<1>6. CASE IngestSome
  <2>1. /\ UNCHANGED <<kv, files, peer, status, queue, cones, panic, lost>> /\ job.step = "ingest" /\ Goto("rest")
        /\ data' = Loaded(Part)
    BY <1>6, Zenon DEF IngestSome
  <2>2. \A c \in Cells : c \notin JobCone \cup UNION cones => data'[c] = data[c] BY <2>1, Zenon DEF Loaded
  <2> QED BY <2>1, <2>2, GotoData, Zenon
<1>7. CASE IngestRest
  <2>1. /\ UNCHANGED <<kv, files, peer, status, queue, cones, panic, lost>> /\ job.step = "rest" /\ Goto("write")
        /\ data' = Loaded(<<job.b, job.idx>>)
    BY <1>7, Zenon DEF IngestRest
  <2>2. \A c \in Cells : c \notin JobCone \cup UNION cones => data'[c] = data[c] BY <2>1, Zenon DEF Loaded
  <2>3. JobCone \subseteq Cells BY <2>1, JobCells, Zenon
  <2>4. \A c \in JobCone : data'[c] = <<job.b, job.idx>> BY <2>1, <2>3, Zenon DEF Loaded
  <2> QED BY <2>1, <2>2, <2>4, GotoData, Zenon
<1> QED BY <1>1, <1>2, <1>3, <1>4, <1>5, <1>6, <1>7, Zenon DEF JobStep

\* After a crash each brane has the cells of its state on disk, which it had or had claimed before,
\* and the start of the store deletes only what lies outside of them.
LEMMA CrashData ==
  ASSUME IInv, IInv', DInv, panic = "no", Crash
  PROVE  DInv'
<1> DEFINE A == {b \in Branes : kv[b].state = "Applying"}
           P(b) == NewPeer(kv[b].id, kv[b].idx, IF b \in A THEN "Applying" ELSE "Relax")
           covered == UNION {Cone[b][kv[b].idx] : b \in {o \in Branes : Live(o)}}
<1>1. /\ TypeOK /\ DataRight /\ Apart
      /\ \A o \in Branes : /\ FilesRight(o) /\ PeerRight(o) /\ DiskRight(o) /\ kv[o] \in KvType /\ peer[o] \in PeerType
                           /\ Cone[o] \in Seq(SUBSET Cells) /\ (status[o] = "FAILED" => o \in lost)
  BY DataParts, Zenon
<1>2. /\ UNCHANGED <<kv, files, lost>> /\ cones' = {} /\ job' = NoJob
      /\ peer' = [b \in Branes |-> IF Live(b) THEN P(b) ELSE NoPeer]
      /\ status' = [b \in Branes |-> IF b \in A THEN "PENDING" ELSE "none"]
      /\ queue' \in {[k \in DOMAIN s |-> Apply(s[k])] : s \in Orders(A)}
      /\ panic' \in {panic, "start"}
  BY Zenon DEF Crash
<1>3. PICK C \in SUBSET (Cells \ covered) : data' = Cleared(C) BY Zenon DEF Crash
<1>4. DataRight'
  <2> SUFFICES ASSUME NEW o \in Branes, kv[o].state = "Normal"
               PROVE  kv[o].idx > 0 /\ \A c \in Cone[o][kv[o].idx] : data'[c] = <<o, kv[o].idx>>
    BY <1>2, Zenon DEF DataRight
  <2>1. Cone[o][kv[o].idx] \subseteq covered BY Zenon DEF Live
  <2>2. kv[o].idx > 0 /\ \A c \in Cone[o][kv[o].idx] : data[c] = <<o, kv[o].idx>> BY <1>1, Zenon DEF DataRight
  <2>3. Cone[o][kv[o].idx] \subseteq Cells
    <3>1. Held(o) = Cone[o][kv[o].idx] BY <1>1, OnDisk, Zenon DEF Live
    <3>2. Held(o) \subseteq Cells BY <1>1, HeldCells, Zenon
    <3> QED BY <3>1, <3>2, Zenon
  <2> HIDE DEF covered
  <2>4. \A c \in Cone[o][kv[o].idx] : c \notin C /\ c \in Cells BY <2>1, <2>3, Zenon
  <2>5. \A c \in Cone[o][kv[o].idx] : data'[c] = data[c] BY <1>3, <2>4, Zenon DEF Cleared
  <2> QED BY <2>2, <2>5, Zenon
<1> HIDE DEF covered
<1>5. \A o \in Branes : /\ status'[o] = (IF o \in A THEN "PENDING" ELSE "none")
                        /\ peer'[o] = (IF Live(o) THEN P(o) ELSE NoPeer)
  BY <1>2, Zenon
<1>6. \A o \in Branes : status'[o] # "FAILED" BY <1>5, Zenon
<1>7. \A o \in Branes : /\ P(o).idx = kv[o].idx /\ P(o).pending = {} /\ P(o).pc = "idle"
                        /\ P(o).snap = (IF o \in A THEN "Applying" ELSE "Relax")
  BY Zenon DEF NewPeer, NoPeer
<1>8. NoPeer.idx = 0 /\ NoPeer.pending = {} /\ ~(NoPeer.idx > 0) BY DEF NoPeer
<1> HIDE DEF P
<1>9. CASE panic' = "start" BY <1>4, <1>6, <1>9, Zenon DEF DInv, JobRight, IInv
<1>10. CASE panic' = "no"
  <2>1. ASSUME NEW o \in Branes PROVE Held(o)' \subseteq Held(o) \cup Claimed(o) /\ Claimed(o)' = {}
    <3>1. peer'[o].pending = {} BY <1>5, <1>7, <1>8, Zenon
    <3>2. Claimed(o)' = {} BY <3>1, Zenon DEF Claimed
    <3>3. CASE Live(o)
      <4>1. peer'[o].idx = kv[o].idx /\ kv[o].idx # 0 /\ Cone[o][kv[o].idx] \subseteq Held(o) \cup Claimed(o)
        BY <1>1, <1>5, <1>7, <3>3, OnDisk, Zenon
      <4>2. Held(o)' = Cone[o][kv[o].idx] BY <4>1, Zenon DEF Held
      <4> QED BY <3>2, <4>1, <4>2, Zenon
    <3>4. CASE ~Live(o)
      <4>1. peer'[o].idx = 0 BY <1>5, <1>8, <3>4, Zenon
      <4>2. Held(o)' = {} BY <4>1, Zenon DEF Held
      <4> QED BY <3>2, <4>2, Zenon
    <3> QED BY <3>3, <3>4, Zenon
  <2>2. Apart' BY <1>1, <2>1, ApartKept, Zenon
  <2>3. ASSUME NEW o \in Branes PROVE FilesRight(o)'
    <3>1. peer'[o].pending = {} /\ (kv[o].state = "Applying" => o \in lost \/ <<o, kv[o].idx>> \in files)
      BY <1>1, <1>5, <1>7, <1>8, Zenon DEF FilesRight
    <3>2. peer'[o].idx > 0 => kv[o].idx = peer'[o].idx BY <1>5, <1>7, <1>8, Zenon
    <3>3. kv[o].state = "Applying" => peer'[o].snap = "Applying" /\ status'[o] = "PENDING" BY <1>5, <1>7, Zenon DEF Live
    <3>4. kv[o].state = "Normal" => status'[o] = "none" BY <1>5, Zenon
    <3> QED BY <1>2, <3>1, <3>2, <3>3, <3>4, Zenon DEF FilesRight
  <2>4. \A k \in DOMAIN queue' : queue'[k].cells = {}
    <3>1. PICK s \in Orders(A) : queue' = [k \in DOMAIN s |-> Apply(s[k])] BY <1>2, Zenon
    <3> QED BY <3>1, Zenon DEF Apply
  <2>5. DestroysRight' BY <2>4, Zenon DEF DestroysRight
  <2>6. ConesRight' BY <1>2, Zenon DEF ConesRight
  <2>7. \A b \in Branes : ~Runs(b)' BY <1>2, Zenon DEF Runs, NoJob
  <2>8. LoadRight' BY <2>7, Zenon DEF LoadRight
  <2> QED BY <1>4, <1>6, <1>10, <2>2, <2>3, <2>5, <2>6, <2>8, DataNext, Zenon
<1> QED BY <1>2, <1>9, <1>10, Zenon

\* The branes that the store begins with are apart and have their data.
LEMMA InitData == Init => DInv
<1> SUFFICES ASSUME Init PROVE DInv BY Zenon
<1>1. IInv BY InitIInv, Zenon
<1>2. \A b \in Branes : kv[b] = IF b \in Present THEN [state |-> "Normal", id |-> 1, idx |-> 1, saved |-> 0] ELSE NoKv
  BY Zenon DEF Init
<1>3. \A b \in Branes : peer[b] = IF b \in Present THEN NewPeer(1, 1, "Relax") ELSE NoPeer BY Zenon DEF Init
<1>4. status = [b \in Branes |-> "none"] /\ queue = <<>> /\ cones = {} /\ job = NoJob /\ panic = "no" BY Zenon DEF Init
<1>5. ASSUME NEW b \in Branes
      PROVE  /\ kv[b].state # "Applying" /\ (kv[b].state = "Normal" => b \in Present /\ kv[b].idx = 1)
             /\ peer[b].pending = {} /\ peer[b].snap = "Relax"
             /\ b \in Present => peer[b].idx = 1 /\ kv[b].idx = 1
             /\ b \notin Present => peer[b].idx = 0 /\ kv[b].state = "None"
  <2>1. CASE b \in Present
    <3>1. kv[b] = [state |-> "Normal", id |-> 1, idx |-> 1, saved |-> 0] /\ peer[b] = NewPeer(1, 1, "Relax")
      BY <1>2, <1>3, <2>1, Zenon
    <3>2. kv[b].state = "Normal" /\ kv[b].idx = 1 BY <3>1
    <3> QED BY <2>1, <3>1, <3>2, Zenon DEF NewPeer, NoPeer
  <2>2. CASE b \notin Present
    <3>1. kv[b] = NoKv /\ peer[b] = NoPeer BY <1>2, <1>3, <2>2, Zenon
    <3> QED BY <2>2, <3>1, Absent, Zenon
  <2> QED BY <2>1, <2>2, Zenon
<1>6. ASSUME NEW b \in Branes
      PROVE  Claimed(b) = {} /\ (b \in Present => Held(b) = Cone[b][1]) /\ (b \notin Present => Held(b) = {})
  <2>1. Claimed(b) = {} BY <1>5, Zenon DEF Claimed
  <2>2. 1 # 0 OBVIOUS
  <2> QED BY <1>5, <2>1, <2>2, Zenon DEF Held
<1>7. Apart
  <2> SUFFICES ASSUME NEW b \in Branes, NEW o \in Branes, b # o,
                      NEW c, c \in Held(b) \cup Claimed(b), c \in Held(o) \cup Claimed(o)
               PROVE  FALSE
    BY Zenon DEF Apart
  <2>1. b \in Present /\ o \in Present /\ c \in Cone[b][1] /\ c \in Cone[o][1] BY <1>6, Zenon
  <2>2. Cone[b][1] \cap Cone[o][1] = {} BY <2>1, SnapApplyAssumption, Zenon DEF SnapApplyAssumption
  <2> QED BY <2>1, <2>2, Zenon
<1>8. DataRight
  <2> SUFFICES ASSUME NEW b \in Branes, kv[b].state = "Normal", NEW c \in Cone[b][kv[b].idx]
               PROVE  kv[b].idx > 0 /\ data[c] = <<b, kv[b].idx>>
    <3>1. \A b \in Branes : kv[b].state = "Normal" => kv[b].idx > 0 BY <1>1, Zenon DEF IInv, DiskRight
    <3> QED BY <3>1, Zenon DEF DataRight
  <2>1. b \in Present /\ kv[b].idx = 1 /\ c \in Cone[b][1] BY <1>5, Zenon
  <2>2. c \in Cells
    <3>1. PeerRight(b) BY <1>1, <1>4, Zenon DEF IInv
    <3> QED BY <1>6, <2>1, <3>1, HeldCells, Zenon
  <2>3. data[c] = <<CHOOSE o \in Present : c \in Cone[o][1], 1>> BY <2>1, <2>2, Zenon DEF Init
  <2>4. PICK o \in Present : c \in Cone[o][1] /\ o = (CHOOSE n \in Present : c \in Cone[n][1]) BY <2>1, Zenon
  <2>5. o = b BY <2>1, <2>4, SnapApplyAssumption, Zenon DEF SnapApplyAssumption
  <2>6. kv[b].idx > 0 BY <1>1, Zenon DEF IInv, DiskRight
  <2> QED BY <2>1, <2>3, <2>4, <2>5, <2>6, Zenon
<1>9. ASSUME NEW b \in Branes PROVE FilesRight(b) /\ status[b] # "FAILED" /\ ~Runs(b)
  <2>1. status[b] = "none" BY <1>4, Zenon
  <2>2. ~Runs(b) BY <1>4, NoRuns, Zenon
  <2>3. peer[b].idx > 0 => kv[b].idx = peer[b].idx
    <3>1. CASE b \in Present BY <1>5, <3>1, Zenon
    <3>2. CASE b \notin Present BY <1>5, <3>2
    <3> QED BY <3>1, <3>2, Zenon
  <2> QED BY <1>5, <2>1, <2>2, <2>3, Zenon DEF FilesRight
<1>10. DestroysRight
  <2>1. DOMAIN queue = {} BY <1>4
  <2> QED BY <2>1, Zenon DEF DestroysRight
<1>11. ConesRight BY <1>4, Zenon DEF ConesRight
<1>12. LoadRight BY <1>9, Zenon DEF LoadRight
<1> QED BY <1>1, <1>4, <1>7, <1>8, <1>9, <1>10, <1>11, <1>12, Zenon DEF DInv, JobRight, IInv

\* Every step keeps it.
LEMMA NextData ==
  ASSUME IInv, IInv', DInv, [Next]_vars
  PROVE  DInv'
<1>1. CASE UNCHANGED vars
  <2>1. UNCHANGED <<kv, data, files, peer, status, queue, cones, job, panic, lost>> BY <1>1, Zenon DEF vars, disk, worker
  <2>2. CASE panic = "no" BY <2>1, <2>2, ReceiveData, Zenon
  <2>3. CASE panic # "no" BY <2>1, <2>3, Zenon DEF DInv, JobRight, DataRight, IInv
  <2> QED BY <2>2, <2>3, Zenon
<1>2. CASE Next
  <2>1. panic = "no" BY <1>2, Zenon DEF Next
  <2>2. ASSUME NEW b \in Branes, NEW id \in Ids, maybe_create_peer(b, id) PROVE DInv' BY <2>1, <2>2, CreateData, Zenon
  <2>3. ASSUME NEW b \in Branes, NEW i \in Snaps(b),
               Receive(b, i) \/ on_snapshot_message(b, i) \/ handle_snap_mgr_gc(b, i)
        PROVE  DInv'
    <3>1. CASE Receive(b, i)
      <4>1. UNCHANGED <<kv, data, peer, status, queue, cones, job, panic, lost>> /\ files \subseteq files'
        BY <3>1, Zenon DEF Receive, worker
      <4> QED BY <2>1, <4>1, ReceiveData, Zenon
    <3> QED BY <2>1, <2>3, <3>1, MessageData, GcData, Zenon
  <2>4. ASSUME NEW b \in Branes, PeerStep(b) PROVE DInv'
    BY <2>1, <2>4, ReadyData, DestroyPeerData, DestroyEndData, PostData, Zenon DEF PeerStep
  <2>5. ASSUME NEW b \in Branes, Append_(b) \/ MaybeDestroy(b) PROVE DInv'
    <3>1. CASE Append_(b)
      <4>1. UNCHANGED <<kv, data, peer, status, queue, cones, job, panic, lost>> /\ files \subseteq files'
        BY <3>1, Zenon DEF Append_, worker
      <4> QED BY <2>1, <4>1, ReceiveData, Zenon
    <3> QED BY <2>1, <2>5, <3>1, MaybeDestroyData, Zenon
  <2>6. CASE WorkerStep BY <2>1, <2>6, TakeApplyData, TakeDestroyData, StartJobData, JobStepData, Zenon DEF WorkerStep
  <2>7. CASE clean_stale_cones BY <2>1, <2>7, CleanData, Zenon
  <2>8. CASE Crash BY <2>1, <2>8, CrashData, Zenon
  <2> QED BY <1>2, <2>2, <2>3, <2>4, <2>5, <2>6, <2>7, <2>8, ZenonT(40) DEF Next
<1> QED BY <1>1, <1>2, Zenon

\* For any peers and crashes, and any cones that are intervals and meet those of the same brane:
\* whatever deletions are put off, whatever jobs are cancelled or cut short, a brane whose state is
\* Normal has the data of its index in all of its cells. Between cones that do not meet,
\* clear_extra_data would delete what other branes may hold.
THEOREM DataRightAlways == Spec => []DataRight
<1>1. DInv => DataRight BY Zenon DEF DInv
<1> QED BY <1>1, Invariance, InitData, NextData, PTL DEF Spec

\* For the same cones, no job misses its file, unless it was collected after an earlier job for it was cancelled: a
\* failed job, and the panic it leads to, come from nothing else.
THEOREM JobRightAlways == Spec => []JobRight
<1>1. DInv => JobRight BY Zenon DEF DInv
<1> QED BY <1>1, Invariance, InitData, NextData, PTL DEF Spec
=============================================================================

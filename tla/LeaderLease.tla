---------------------------- MODULE LeaderLease ----------------------------
(***************************************************************************)
(* The leader lease of a peer and the reads served under it. The peer      *)
(* renews its Lease with the times of proposals and read index requests a  *)
(* quorum has answered, suspects it when it asks another peer to take over *)
(* and shares it with the reader threads through RemoteLease, an atomic    *)
(* time. A LocalReader serves reads from its own copy of the peer's        *)
(* Readpushdown_causet, concurrently with the peer.                        *)
(*                                                                         *)
(* The Raft group is external: another peer is elected once no quorum has  *)
(* heard of this leader for an election timeout, or at any time after      *)
(* MsgTimeoutNow until an entry proposed after it is committed. Clocks run *)
(* at one rate. Splits, merges and the epoch of the brane are left out.    *)
(***************************************************************************)
EXTENDS Naturals, Sequences

CONSTANTS max_lease,       \* violetabft_store_max_leader_lease
          ElectionTimeout,
          Sec, Grain, Slots, \* units of time in a second and in a slot of the u64 form, slots
          MaxTime, MaxTerm,  \* bounds on the clock and the terms
          MaxProps, MaxReads, \* bounds on proposals and read index requests under way
          MaxAsked, MaxReadId \* bounds on the times of MsgTimeoutNow and of read ids

\* Config::validate; a second has a slot of its own for every multiple of Grain.
ASSUME LeaseAssumption ==
  /\ {max_lease, ElectionTimeout, Sec, Grain, Slots} \subseteq Nat \ {0}
  /\ max_lease <= ElectionTimeout /\ Sec <= Slots * Grain

VARIABLES
  now,
  role, term, changed,   \* Raft; changed: a Ready with a new role is due
  contact,               \* a quorum heard of this leader at this time or later
  asked,                 \* when MsgTimeoutNow was sent, 0 once it can have no effect
  foreign,               \* ghost: times at which a leader of a later term was elsewhere
  usurped,               \* there is one now
  props, acked,          \* entries under way with their proposals, how many a quorum has
  appliedTerm, commitTerm,
  reads, readAcked,      \* times of the read index requests under way, how many are answered
  current,               \* PollContext::current_time, 0 for None
  lease,                 \* Lease: kind and ts are bound, last is last_fidelio
  cells,                 \* every RemoteLease made, with its expired_time
  meta,                  \* the peer's entry in StoreMeta::readers
  cache,                 \* the reader thread's copy, if any
  pc, ts, byId, snapAt,  \* the read at hand: step, snapshot_ts, whether it has a read id,
                         \* time of its snapshot
  read_id,               \* create_time of the thread's read id
  snap,                  \* snap_cache and the id it was made for
  validSince,            \* ghost: when the peer had applied an entry of its term
  panic

raft == <<role, term, changed, contact, asked, foreign, usurped, acked, readAcked>>
peer == <<props, commitTerm, appliedTerm, reads, current, lease, cells, meta, validSince, panic>>
reader == <<cache, pc, ts, byId, snapAt, read_id, snap>>
vars == <<now, raft, peer, reader>>

NoReader == [term |-> 0, applied_index_term |-> 0, lease |-> 0, last_valid_ts |-> 0]
NoLease == [kind |-> "none", ts |-> 0, last |-> 0, remote |-> 0]
max_drift == max_lease \div 3

ReaderType == [term : Nat, applied_index_term : Nat, lease : Nat, last_valid_ts : Nat]
LeaseType == [kind : {"none", "suspect", "valid"}, ts : Nat, last : Nat, remote : Nat]
PropType == [term : Nat, time : Nat, at : Nat]
CellType == [expired_time : Nat, term : Nat]

RaftType ==
  /\ now \in Nat \ {0} /\ role \in {"leader", "follower"} /\ term \in Nat \ {0}
  /\ changed \in BOOLEAN /\ usurped \in BOOLEAN
  /\ contact \in 0 .. now /\ asked \in 0 .. now /\ foreign \subseteq 0 .. now

PeerType ==
  /\ props \in Seq(PropType) /\ acked \in 0 .. Len(props)
  /\ reads \in Seq(Nat) /\ readAcked \in 0 .. Len(reads)
  /\ commitTerm \in 0 .. term /\ appliedTerm \in 0 .. commitTerm
  /\ current \in 0 .. now /\ validSince \in 0 .. now /\ panic \in BOOLEAN

SharedType ==
  /\ lease \in LeaseType /\ cells \in Seq(CellType) /\ lease.remote <= Len(cells)
  /\ meta \in ReaderType /\ meta.lease <= Len(cells) /\ meta.last_valid_ts <= now
  /\ cache \in ReaderType /\ cache.lease <= Len(cells) /\ cache.last_valid_ts <= now

ThreadType ==
  /\ pc \in {"idle", "found", "timed", "granted", "served"} /\ byId \in BOOLEAN
  /\ ts \in 0 .. now /\ snapAt \in 0 .. now /\ read_id \in 0 .. now
  /\ snap \in [id : Nat, at : Nat] /\ snap.id <= now /\ snap.at <= now

TypeOK == RaftType /\ PeerType /\ SharedType /\ ThreadType

Init ==
  /\ now = 1 /\ role = "follower" /\ term = 1 /\ changed = FALSE
  /\ contact = 0 /\ asked = 0 /\ foreign = {1} /\ usurped = TRUE
  /\ props = <<>> /\ acked = 0 /\ readAcked = 0 /\ appliedTerm = 1 /\ commitTerm = 1 /\ reads = <<>> /\ current = 0
  /\ lease = NoLease /\ cells = <<>>
  /\ meta = [NoReader EXCEPT !.term = 1, !.applied_index_term = 1]
  /\ cache = NoReader /\ pc = "idle" /\ ts = 0 /\ byId = FALSE /\ snapAt = 0 /\ read_id = 0
  /\ snap = [id |-> 0, at |-> 0] /\ validSince = 0 /\ panic = FALSE
-----------------------------------------------------------------------------
(***************************************************************************)
(* Lease and RemoteLease. An operation takes and returns the lease and the *)
(* cells as a pair.                                                        *)
(***************************************************************************)
Max(a, b) == IF a >= b THEN a ELSE b

timespec_to_u64(t) == (t \div Sec) * Slots + (t % Sec) \div Grain
u64_to_timespec(u) == (u \div Slots) * Sec + (u % Slots) * Grain

\* RemoteLease::renew and expire; 0 is no remote.
SetRemote(C, i, u) == IF i = 0 THEN C ELSE [C EXCEPT ![i].expired_time = u]

\* Mutated form of expire_remote_lease: the reader threads keep their lease.
expire_remote_leaseKeeps(L, C) == <<[L EXCEPT !.remote = 0], C>>

expire_remote_lease(L, C) == <<[L EXCEPT !.remote = 0], SetRemote(C, L.remote, 0)>>

\* Mutated form of renew: a suspect lease is renewed whatever its bound.
renewSuspect(L, C, lightlike_ts) ==
  LET bound == lightlike_ts + max_lease
      L1 == IF L.kind # "valid" \/ L.ts <= bound
            THEN [L EXCEPT !.kind = "valid", !.ts = bound] ELSE L
      far == L1.kind = "valid" /\ L1.ts > L1.last + max_drift
  IN  IF far THEN <<[L1 EXCEPT !.last = L1.ts], SetRemote(C, L1.remote, timespec_to_u64(L1.ts))>>
      ELSE <<L1, C>>

renew(L, C, lightlike_ts) ==
  LET bound == lightlike_ts + max_lease
      L1 == IF L.kind = "none" \/ L.ts <= bound
            THEN [L EXCEPT !.kind = "valid", !.ts = bound] ELSE L
      far == L1.kind = "valid" /\ L1.ts > L1.last + max_drift
  IN  IF far THEN <<[L1 EXCEPT !.last = L1.ts], SetRemote(C, L1.remote, timespec_to_u64(L1.ts))>>
      ELSE <<L1, C>>

suspect(L, C, lightlike_ts) ==
  <<[expire_remote_lease(L, C)[1] EXCEPT !.kind = "suspect", !.ts = lightlike_ts + max_lease],
    expire_remote_lease(L, C)[2]>>

expire(L, C) ==
  <<[expire_remote_lease(L, C)[1] EXCEPT !.kind = "none", !.ts = 0], expire_remote_lease(L, C)[2]>>

\* The new remote, if one is made: there is none yet.
maybe_new_remote_lease(L, C) ==
  IF L.remote # 0 THEN <<L, C>>
  ELSE <<[L EXCEPT !.remote = Len(C) + 1],
         Append(C, [expired_time |-> IF L.kind = "valid" THEN timespec_to_u64(L.ts) ELSE 0,
                    term |-> term])>>

\* Lease::inspect and RemoteLease::inspect.
inspect(t) == IF lease.kind = "suspect" THEN "suspect"
              ELSE IF lease.kind = "valid" /\ t < lease.ts THEN "valid" ELSE "expired"

remote_inspect(i, t) == t < u64_to_timespec(cells[i].expired_time)

Becomes(LC) == lease' = LC[1] /\ cells' = LC[2]

\* maybe_renew_leader_lease, with the progress given to the readers first.
RenewLease(t, reader0) ==
  LET R == renew(lease, cells, t)
      N == maybe_new_remote_lease(R[1], R[2])
      made == N[1].remote # R[1].remote
  IN  IF role # "leader" THEN meta' = reader0 /\ UNCHANGED <<lease, cells, panic>>
      ELSE /\ Becomes(N)
           /\ meta' = IF made THEN [reader0 EXCEPT !.lease = N[1].remote, !.last_valid_ts = now]
                      ELSE reader0
           /\ panic' = (R[1].remote # 0 /\ R[2][R[1].remote].term # term)
-----------------------------------------------------------------------------
(***************************************************************************)
(* The clock and the Raft group, external.                                 *)
(***************************************************************************)
\* Time goes on, with or without another leader.
Later == now < MaxTime /\ now' = now + 1

Tick ==
  /\ Later /\ foreign' = IF usurped THEN foreign \cup {now'} ELSE foreign
  /\ UNCHANGED <<role, term, changed, contact, asked, usurped, acked, readAcked, peer, reader>>

\* A quorum votes for this peer; the votes are older than the election.
Elected ==
  /\ role = "follower" /\ ~changed /\ term < MaxTerm /\ Later
  /\ contact' = now /\ role' = "leader" /\ term' = term + 1 /\ changed' = TRUE
  /\ asked' = 0 /\ usurped' = FALSE
  /\ UNCHANGED <<foreign, acked, readAcked, peer, reader>>

\* A quorum elects another peer, which this one need not know of.
Usurp ==
  /\ role = "leader" /\ ~usurped /\ (asked # 0 \/ now >= contact + ElectionTimeout)
  /\ usurped' = TRUE /\ foreign' = foreign \cup {now}
  /\ UNCHANGED <<now, role, term, changed, contact, asked, acked, readAcked, peer, reader>>

\* It hears of the later term.
StepDown ==
  /\ role = "leader" /\ usurped /\ ~changed
  /\ role' = "follower" /\ changed' = TRUE
  /\ UNCHANGED <<now, term, contact, asked, foreign, usurped, acked, readAcked, peer, reader>>

\* A quorum stores the first n entries; a peer asked to take over before the last of them was
\* sent lacks it and is not elected any more. The answers may reach this peer much later.
StoreEntries(n) ==
  /\ role = "leader" /\ ~usurped /\ n > acked /\ props[n].term = term
  /\ acked' = n /\ contact' = Max(contact, props[n].at)
  /\ asked' = IF props[n].at >= asked THEN 0 ELSE asked
  /\ UNCHANGED <<now, role, term, changed, foreign, usurped, readAcked, peer, reader>>

\* A quorum answers the heartbeats of the first n read index requests.
AnswerReads(n) ==
  /\ role = "leader" /\ ~usurped /\ n > readAcked
  /\ readAcked' = n /\ contact' = Max(contact, reads[n])
  /\ UNCHANGED <<now, role, term, changed, asked, foreign, usurped, acked, peer, reader>>
-----------------------------------------------------------------------------
(***************************************************************************)
(* The peer.                                                               *)
(***************************************************************************)
\* The Ready of a new role. A leader sends an entry of its own, which has no proposal.
OnRoleChanged ==
  /\ changed /\ changed' = FALSE /\ reads' = <<>> /\ readAcked' = 0
  /\ IF role = "leader"
     THEN /\ RenewLease(now, [meta EXCEPT !.term = term, !.last_valid_ts = now])
          /\ props' = Append(props, [term |-> term, time |-> 0, at |-> now])
     ELSE /\ Becomes(expire(lease, cells)) /\ UNCHANGED <<meta, props, panic>>
  /\ UNCHANGED <<now, role, term, contact, asked, foreign, usurped, acked, commitTerm,
                 appliedTerm, current, validSince, reader>>

\* PollHandler::end, which this code calls lightlike: the next round reads the clock again.
EndRound ==
  /\ current # 0 /\ current' = 0
  /\ UNCHANGED <<now, raft, props, commitTerm, appliedTerm, reads, lease, cells, meta,
                 validSince, panic, reader>>

\* The time of a proposal is that of the round, which may be older than now.
PushProposal ==
  LET t == IF current = 0 THEN now ELSE current
  IN  current' = t /\ props' = Append(props, [term |-> term, time |-> t, at |-> now])

Propose ==
  /\ role = "leader" /\ ~changed /\ Len(props) < MaxProps /\ PushProposal
  /\ UNCHANGED <<now, raft, commitTerm, appliedTerm, reads, lease, cells, meta, validSince,
                 panic, reader>>

\* find_propose_time looks an index up in either half of the ring buffer and uses it for the
\* whole: it may come to an earlier proposal of the queue instead.
find_propose_time(i) == {props[j].time : j \in 1 .. i} \ {0}

\* The times the lease may be renewed with when n entries are committed: that of the latest
\* which was proposed here.
RenewTimes(n) ==
  LET own == {i \in 1 .. n : props[i].time # 0}
  IN  UNION {find_propose_time(i) : i \in {j \in own : \A k \in own : k <= j}}

\* The Ready with the first n entries committed.
Commit(n) ==
  /\ role = "leader" /\ ~changed /\ n <= acked /\ props[n].term = term
  /\ commitTerm' = term /\ current' = now
  /\ props' = SubSeq(props, n + 1, Len(props)) /\ acked' = acked - n
  /\ \/ \E t \in RenewTimes(n) : RenewLease(t, meta)
     \/ RenewTimes(n) = {} /\ UNCHANGED <<lease, cells, meta, panic>>
  /\ UNCHANGED <<now, role, term, changed, contact, asked, foreign, usurped, readAcked,
                 appliedTerm, reads, validSince, reader>>

\* lightlike: the lease is suspect before MsgTimeoutNow leaves.
TransferLeader ==
  /\ role = "leader" /\ ~changed /\ now < MaxAsked /\ Later
  /\ foreign' = IF usurped THEN foreign \cup {now'} ELSE foreign
  /\ asked' = now' /\ Becomes(suspect(lease, cells, now'))
  /\ UNCHANGED <<role, term, changed, contact, usurped, acked, readAcked, props, commitTerm,
                 appliedTerm, reads, current, meta, validSince, panic, reader>>

\* inspect_lease: a lease found expired is dropped.
Inspected == IF inspect(now) = "expired" THEN expire(lease, cells) ELSE <<lease, cells>>

\* read_index: joins the request before it, or asks the group; with a suspect lease an entry
\* is proposed as well.
ReadIndex ==
  /\ role = "leader" /\ ~changed /\ commitTerm = term
  /\ Becomes(Inspected)
  /\ IF inspect(now) # "suspect" /\ reads # <<>> /\ reads[Len(reads)] + max_lease > now
     THEN UNCHANGED <<reads, props, current>>
     ELSE /\ Len(reads) < MaxReads /\ reads' = Append(reads, now)
          /\ IF inspect(now) = "suspect" THEN Len(props) < MaxProps /\ PushProposal
             ELSE UNCHANGED <<props, current>>
  /\ UNCHANGED <<now, raft, commitTerm, appliedTerm, meta, validSince, panic, reader>>

\* Answers to heartbeats do not make a suspect lease valid.
RenewsByRead == inspect(now) # "suspect"

\* apply_reads with the first n requests answered.
ApplyReads(n) ==
  /\ role = "leader" /\ ~changed /\ n <= readAcked
  /\ IF appliedTerm = term
     THEN reads' = SubSeq(reads, n + 1, Len(reads)) /\ readAcked' = readAcked - n
     ELSE UNCHANGED <<reads, readAcked>>
  /\ IF RenewsByRead THEN RenewLease(reads[n], meta) ELSE UNCHANGED <<lease, cells, meta, panic>>
  /\ UNCHANGED <<now, role, term, changed, contact, asked, foreign, usurped, acked, props,
                 commitTerm, appliedTerm, current, validSince, reader>>

\* post_apply of the entries committed; only a leader tells its readers.
PostApply ==
  /\ appliedTerm # commitTerm /\ appliedTerm' = commitTerm
  /\ meta' = IF role = "leader"
             THEN [meta EXCEPT !.applied_index_term = commitTerm, !.last_valid_ts = now] ELSE meta
  /\ validSince' = now
  /\ UNCHANGED <<now, raft, props, commitTerm, reads, current, lease, cells, panic, reader>>
-----------------------------------------------------------------------------
(***************************************************************************)
(* LocalReader, one thread. Reads of one RPC request share a read id and   *)
(* the snapshot made for it, whatever brane it was made for.               *)
(***************************************************************************)
NewReadId ==
  /\ pc \in {"idle", "served"} /\ now > Max(read_id, snap.id) /\ now <= MaxReadId
  /\ read_id' = now
  /\ UNCHANGED <<now, raft, peer, cache, pc, ts, byId, snapAt, snap>>

\* A read of another brane leaves its snapshot.
OtherBraneRead ==
  /\ pc \in {"idle", "served"} /\ read_id # 0 /\ snap.id # read_id
  /\ snap' = [id |-> read_id, at |-> now]
  /\ UNCHANGED <<now, raft, peer, cache, pc, ts, byId, snapAt, read_id>>

\* Inspector: the lease itself is checked later.
MayReadLocal(c) == c.applied_index_term = c.term /\ c.lease # 0

\* pre_propose_violetabft_command, with the copy of the peer's reader taken when there is none.
Find ==
  LET c == IF cache = NoReader THEN meta ELSE cache
  IN  /\ pc \in {"idle", "served"} /\ ts' = 0 /\ snapAt' = 0 /\ byId' = FALSE
      /\ IF MayReadLocal(c) THEN cache' = c /\ pc' = "found" ELSE cache' = NoReader /\ pc' = "idle"
      /\ UNCHANGED <<now, raft, peer, read_id, snap>>

\* Mutated form of SnapshotTs: the id of the thread is always used.
SnapshotTsId(id) == id

\* An id from before the last progress of the peer is given a new time.
SnapshotTs(id) == IF id <= cache.last_valid_ts THEN now ELSE id

Timestamp ==
  /\ pc = "found" /\ pc' = "timed"
  /\ \/ read_id # 0 /\ byId' = TRUE /\ ts' = SnapshotTs(read_id)
     \/ byId' = FALSE /\ ts' = now
  /\ UNCHANGED <<now, raft, peer, cache, snapAt, read_id, snap>>

is_in_leader_lease ==
  cells[cache.lease].term = cache.term /\ remote_inspect(cache.lease, ts)

CheckLease ==
  /\ pc = "timed"
  /\ IF is_in_leader_lease THEN pc' = "granted" /\ UNCHANGED cache
     ELSE pc' = "idle" /\ cache' = NoReader
  /\ UNCHANGED <<now, raft, peer, ts, byId, snapAt, read_id, snap>>

\* execute and get_snapshot.
Execute ==
  /\ pc = "granted" /\ pc' = "served"
  /\ snapAt' = IF byId /\ ts = snap.id THEN snap.at ELSE now
  /\ snap' = IF byId THEN [id |-> ts, at |-> snapAt'] ELSE snap
  /\ UNCHANGED <<now, raft, peer, cache, ts, byId, read_id>>

Step ==
  \/ Tick \/ Elected \/ Usurp \/ StepDown
  \/ \E n \in DOMAIN props : StoreEntries(n) \/ Commit(n)
  \/ \E n \in DOMAIN reads : AnswerReads(n) \/ ApplyReads(n)
  \/ OnRoleChanged \/ EndRound \/ Propose \/ TransferLeader \/ ReadIndex \/ PostApply
  \/ NewReadId \/ OtherBraneRead \/ Find \/ Timestamp \/ CheckLease \/ Execute

Next == ~panic /\ Step

Spec == Init /\ [][Next]_vars
-----------------------------------------------------------------------------
(***************************************************************************)
(* Properties.                                                             *)
(***************************************************************************)
\* A read the LocalReader serves is served as of a time at which no other peer was leader of a
\* later term, however the steps of the reader fall between those of the peer; and so is one that
\* the peer serves itself, at any moment its lease is valid.
ReadRight ==
  /\ pc \in {"granted", "served"} => ts \notin foreign
  /\ role = "leader" /\ ~changed /\ appliedTerm = term /\ inspect(now) = "valid" => now \notin foreign

\* "this snapshot can not see all data of the peer": a read uses no snapshot from before the
\* peer had applied what earlier leaders left.
SnapshotRight == pc = "served" /\ cache.term = term => snapAt >= validSince

\* "If Lease expires, the remote must expire too": no RemoteLease ever made outlives the lease,
\* and the assertion "Must expire the old remote lease first!" never fails.
RemoteWithin ==
  /\ TypeOK /\ ~panic
  /\ \A i \in DOMAIN cells :
       u64_to_timespec(cells[i].expired_time) <= IF lease.kind = "valid" THEN lease.ts ELSE 0
-----------------------------------------------------------------------------
(***************************************************************************)
(* The inductive invariant behind them.                                    *)
(***************************************************************************)
\* From the Ready that makes the peer leader to the one that makes it follower.
InOffice == (role = "leader" /\ ~changed) \/ (role = "follower" /\ changed)

\* Another leader was there at time s or later only if one is there now, which was elected as it
\* was asked to, or once the quorum had not heard of this one for an election timeout.
Quiet(s) == \A f \in foreign : f >= s => usurped /\ (asked # 0 \/ f >= contact + ElectionTimeout)

RaftRight ==
  /\ usurped => now \in foreign
  /\ role = "follower" => usurped
  /\ role = "leader" /\ changed => /\ Quiet(now) /\ asked = 0 /\ meta.term < term /\ commitTerm < term
                                   /\ \A i \in DOMAIN props : props[i].term < term

\* What a quorum holds bounds the last contact from below, and was sent before MsgTimeoutNow if
\* that still has an effect.
PropsRight ==
  /\ \A i \in DOMAIN props : /\ props[i].time <= props[i].at /\ props[i].at <= now
                             /\ props[i].term <= term
  /\ \A i, j \in DOMAIN props : i <= j => props[i].at <= props[j].at
  /\ \A i \in 1 .. acked : props[i].term = term =>
        props[i].at <= contact /\ (asked = 0 \/ props[i].at < asked)

ReadsRight ==
  /\ reads # <<>> => InOffice /\ commitTerm = term
  /\ \A i \in DOMAIN reads : reads[i] <= now
  /\ \A i, j \in DOMAIN reads : i <= j => reads[i] <= reads[j]
  /\ \A i \in 1 .. readAcked : reads[i] <= contact

\* A valid lease ends before another leader can be elected; one taken with the new role only once
\* a quorum has an entry of the term.
LeaseRight ==
  /\ lease.kind # "none" \/ lease.remote # 0 => InOffice
  /\ InOffice /\ asked # 0 => lease.kind = "suspect" /\ lease.ts = asked + max_lease
  /\ lease.kind = "valid" =>
       /\ lease.ts <= now + max_lease
       /\ commitTerm = term => lease.ts <= contact + ElectionTimeout
       /\ commitTerm < term =>
            \A i \in DOMAIN props : props[i].term = term => lease.ts <= props[i].at + max_lease

\* Only the remote of the lease lets readers in, and no longer than the lease.
CellsRight ==
  /\ lease.remote # 0 => cells[lease.remote].term = term
  /\ \A i \in DOMAIN cells : cells[i].expired_time # 0 =>
       /\ i = lease.remote /\ lease.kind = "valid"
       /\ u64_to_timespec(cells[i].expired_time) <= lease.ts

\* The readers' copies are of this term or an earlier one; one that tells the term as applied
\* is no older than the data is valid.
CopyRight(c) ==
  /\ c.term <= term /\ c.applied_index_term <= appliedTerm
  /\ c.term = term /\ c.applied_index_term = term => c.last_valid_ts >= validSince
  /\ InOffice /\ c.term = term => Quiet(c.last_valid_ts)

CopiesRight ==
  /\ CopyRight(meta) /\ CopyRight(cache) /\ cache.term <= meta.term
  /\ InOffice => meta.term = term

ThreadRight ==
  /\ pc # "idle" => MayReadLocal(cache)
  /\ pc \in {"timed", "granted", "served"} => ts >= cache.last_valid_ts
  /\ pc \in {"granted", "served"} =>
       ts \notin foreign /\ (ts = now => asked = 0 /\ now < contact + ElectionTimeout)
  /\ pc = "served" => snapAt >= ts
  /\ snap.at >= snap.id

IInv ==
  /\ TypeOK /\ ~panic
  /\ RaftRight /\ PropsRight /\ ReadsRight /\ LeaseRight /\ CellsRight /\ CopiesRight /\ ThreadRight
=============================================================================

----------------------------- MODULE ReadQueue -----------------------------
(***************************************************************************)
(* The read index queue of a peer (ReadIndexQueue) and the handlers that   *)
(* drive it: read_index, the handling of a Ready with its read states, the *)
(* end of an apply round or of a snapshot, and the retries of the base     *)
(* tick. A read waits in the queue until the leader has confirmed an index *)
(* for it and the peer has applied that far.                               *)
(*                                                                         *)
(* The Raft group is external. It commits entries, acknowledges writes,    *)
(* answers MsgReadIndex (answers may be lost and overtake each other) and  *)
(* elects leaders. Time is one bit of a read: whether its renew_lease_time *)
(* is max_lease ago or more. What a quorum's answer guarantees about later *)
(* elections for that long is the guard of Usurp.                          *)
(***************************************************************************)
EXTENDS Naturals, Sequences, FiniteSets, FiniteSetsExt, SequencesExt, Functions, TLC

CONSTANTS ElectionTicks,      \* violetabft_election_timeout_ticks
          MaxIndex, MaxTerm,  \* bounds on the entries committed and on the terms
          MergeIndex,         \* the entry that may begin a merge
          MaxCmds             \* bound on the commands received, and on the answers in one Ready

ASSUME ReadQueueAssumption == {ElectionTicks, MaxIndex, MaxTerm, MergeIndex, MaxCmds} \subseteq Nat \ {0}

VARIABLES
  q,          \* ReadIndexQueue: reads, ready_cnt, handled_cnt, contexts; and whether it panicked
  countdown,  \* its retry_countdown
  came,       \* commands received, and the last id
  commit,     \* the last entry committed by the group
  committed,  \* committed_index of this peer (as follower: what it has applied)
  applied,    \* its applied_index
  noop,       \* as leader: index of the entry with which its leadership began, otherwise 0
  busy,       \* "no", "merge" (merging or splitting) or "snap" (applying a snapshot)
  term,
  soft, prev, \* the soft state of Raft: "follower", "pre" and "cand" (of votes), "leader"; the
              \* same at the last Ready
  vote,       \* a candidate whose requests for votes wait for a Ready
  usurped,    \* it leads, and there is a leader of a later term
  transfer,   \* it leads, and has sent MsgTimeoutNow
  asked,      \* ids of MsgReadIndex, or answers to it, under way
  unconfirmed, \* as leader: requests no quorum has answered yet
  states,     \* read states of the next Ready
  stale       \* ghost: the served reads that miss a write acknowledged before they came

raft == <<term, soft, prev, vote, usurped, transfer>>
net == <<asked, unconfirmed, states>>
engine == <<committed, applied, noop, busy>>
vars == <<q, countdown, came, raft, net, engine, commit, stale>>

None == 0           \* of read_index: entries have indices from 1
MAX == 99           \* usize::MAX and u64::MAX

IsLeader == soft = "leader"
Leads == IsLeader /\ ~usurped

\* The last write whose client may have its answer. Answers to a leader's own writes come from
\* it, when it has applied them.
Acked == IF Leads THEN Max({applied, Min({commit, noop - 1})}) ELSE commit

TypeOK ==
  /\ q.ready_cnt \in 0 .. Len(q.reads) /\ q.handled_cnt \in 0 .. MaxCmds
  /\ countdown \in (0 .. ElectionTicks) \cup {MAX} /\ came \in 0 .. MaxCmds
  /\ applied <= committed /\ committed <= commit /\ commit <= MaxIndex + MaxTerm
  /\ {soft, prev} \subseteq {"follower", "pre", "cand", "leader"} /\ term \in 1 .. MaxTerm
  /\ stale \subseteq {"own", "joined"} /\ {vote, usurped, transfer, q.panic} \subseteq BOOLEAN

EmptyQueue == [reads |-> <<>>, ready_cnt |-> 0, handled_cnt |-> 0, contexts |-> <<>>, panic |-> FALSE]

Init ==
  /\ q = EmptyQueue /\ countdown = 0 /\ came = 0
  /\ term = 1 /\ soft \in {"follower", "leader"} /\ prev = soft /\ vote = FALSE /\ usurped = FALSE /\ transfer = FALSE
  /\ asked = {} /\ unconfirmed = <<>> /\ states = <<>> /\ stale = {}
  /\ commit = 1 /\ committed = 1 /\ applied = 1 /\ noop = (IF IsLeader THEN 1 ELSE 0) /\ busy = "no"
-----------------------------------------------------------------------------
(***************************************************************************)
(* ReadIndexQueue. An operation takes a queue and returns it changed.      *)
(***************************************************************************)
push_back(Q, read, is_leader) ==
  [Q EXCEPT !.reads = Append(@, [read EXCEPT !.in_contexts = ~is_leader]),
            !.contexts = IF is_leader THEN @ ELSE (read.id :> Q.handled_cnt + Len(Q.reads)) @@ @]

pop_front(Q) ==
  [Q EXCEPT !.reads = Tail(@), !.ready_cnt = @ - 1, !.handled_cnt = @ + 1,
            !.contexts = IF Q.reads[1].in_contexts
                         THEN Restrict(@, DOMAIN @ \ {Q.reads[1].id}) ELSE @,
            !.panic = @ \/ Q.reads[1].read_index = None]

\* What pop_front took, with its context gone.
push_front(Q, read) ==
  [Q EXCEPT !.reads = <<[read EXCEPT !.in_contexts = FALSE]>> \o @,
            !.ready_cnt = @ + 1, !.handled_cnt = @ - 1]

advance_leader_reads(Q, S) ==
  LET One(Qa, s) ==
        IF Qa.ready_cnt >= Len(Qa.reads) \/ Qa.reads[Qa.ready_cnt + 1].id # s.id
        THEN [Qa EXCEPT !.panic = TRUE]
        ELSE [Qa EXCEPT !.reads[Qa.ready_cnt + 1].read_index = s.index, !.ready_cnt = @ + 1]
  IN  FoldLeft(One, Q, S)

\* Mutated form of fold: it ends at the first read that has an index.
foldShort(reads, min_changed, max_changed) ==
  LET One(a, o) ==
        LET l == IF a.reads[o + 1].read_index = None THEN MAX ELSE a.reads[o + 1].read_index
        IN  IF a.stop \/ l # MAX THEN [a EXCEPT !.stop = TRUE]
            ELSE [a EXCEPT !.reads[o + 1].read_index = a.r]
  IN  FoldLeft(One, [reads |-> reads, r |-> reads[max_changed + 1].read_index, stop |-> FALSE],
               [i \in 1 .. max_changed |-> max_changed - i]).reads

\* Offsets from max_changed - 1 down: no read before another waits for a later entry.
fold(reads, min_changed, max_changed) ==
  LET One(a, o) ==
        LET l == IF a.reads[o + 1].read_index = None THEN MAX ELSE a.reads[o + 1].read_index
        IN  IF a.stop THEN a
            ELSE IF l > a.r THEN [a EXCEPT !.reads[o + 1].read_index = a.r]
            ELSE IF o < min_changed THEN [a EXCEPT !.stop = TRUE]
            ELSE [a EXCEPT !.r = l]
  IN  FoldLeft(One, [reads |-> reads, r |-> reads[max_changed + 1].read_index, stop |-> FALSE],
               [i \in 1 .. max_changed |-> max_changed - i]).reads

\* One read state: the offset of its context counts the reads handled before.
AdvanceOne(a, s) ==
  LET Q == a.Q
      raw == Q.contexts[s.id]
      offset == raw - Q.handled_cnt
      found == raw >= Q.handled_cnt /\ offset < Len(Q.reads) /\ Q.reads[offset + 1].id = s.id
      old == Q.reads[offset + 1].read_index
      Q1 == [Q EXCEPT !.contexts = Restrict(@, DOMAIN @ \ {s.id})]
  IN  IF s.id \notin DOMAIN Q.contexts THEN a
      ELSE IF ~found THEN [a EXCEPT !.Q = [Q1 EXCEPT !.panic = TRUE]]
      ELSE IF old # None /\ old < s.index
           THEN [a EXCEPT !.Q = [Q1 EXCEPT !.reads[offset + 1].in_contexts = FALSE]]
      ELSE [Q |-> [Q1 EXCEPT !.reads[offset + 1].in_contexts = FALSE,
                             !.reads[offset + 1].read_index = s.index],
            lo |-> Min({a.lo, offset}), hi |-> Max({a.hi, offset})]

advance_replica_reads(Q, S) ==
  LET a == FoldLeft(AdvanceOne, [Q |-> Q, lo |-> MAX, hi |-> 0], S)
      Q1 == IF a.lo = MAX THEN a.Q ELSE [a.Q EXCEPT !.ready_cnt = Max({@, a.hi + 1})]
  IN  IF a.hi > 0 THEN [Q1 EXCEPT !.reads = fold(@, a.lo, a.hi)] ELSE Q1

\* Mutated form of clear_uncommitted_on_role_change: the contexts stay.
clear_uncommittedKeeps(Q) == [Q EXCEPT !.reads = SubSeq(@, 1, Q.ready_cnt)]

clear_uncommitted_on_role_change(Q) ==
  [Q EXCEPT !.reads = SubSeq(@, 1, Q.ready_cnt), !.contexts = <<>>]

\* check_needs_retry: the new countdown; it asks for a retry when it was 0.
Unresolved == Len(q.reads) # q.ready_cnt
Retry == Unresolved /\ countdown = 0

\* Mutated form of NextCountdown: a request pushed last never begins to count down.
NextCountdownNever ==
  IF ~Unresolved \/ countdown = MAX THEN countdown
  ELSE IF countdown > 0 THEN countdown - 1 ELSE ElectionTicks

NextCountdown ==
  IF ~Unresolved THEN countdown
  ELSE IF countdown = MAX THEN ElectionTicks - 1
  ELSE IF countdown > 0 THEN countdown - 1 ELSE ElectionTicks
-----------------------------------------------------------------------------
(***************************************************************************)
(* Answers. A command knows which writes were acknowledged when it came.   *)
(***************************************************************************)
\* CmdType::ReadIndex alone in its request.
IsReadIndexRequest(read) == Len(read.cmds) = 1 /\ read.cmds[1].kind = "index"

\* response_read: the commands it answers with an index or from the engine, which holds what
\* is applied unless a snapshot replaces it, and that miss a write. With replica_read, those
\* without the flag get an error instead.
Missing(read, replica_read) ==
  LET Misses(c) ==
        IF c.kind = "index"
        THEN ~replica_read /\ (IF c.read_index = None THEN read.read_index ELSE c.read_index) < c.need
        ELSE (applied' < c.need \/ busy' = "snap")
  IN  {IF c.former THEN "joined" ELSE "own" : c \in {d \in Range(read.cmds) : Misses(d)}}

\* Mutated form of ready_to_handle_unsafe_replica_read: also while a snapshot is applied.
ready_to_handle_unsafe_replica_readSnap(read_index) == applied' >= read_index /\ busy' # "merge"

ready_to_handle_unsafe_replica_read(read_index) == applied' >= read_index /\ busy' = "no"

ready_to_handle_read == applied' >= noop /\ busy' = "no"

\* post_plightlikeing_read_index_on_replica: from the front, until one is not ready. That one
\* is popped and put back.
PostReplica(Q) ==
  LET Ready(read) == IsReadIndexRequest(read) \/ ready_to_handle_unsafe_replica_read(read.read_index)
      One(a, read) ==
        IF a.stop THEN a
        ELSE IF Ready(read)
             THEN [a EXCEPT !.Q = pop_front(@), !.stale = @ \cup Missing(read, ~IsReadIndexRequest(read))]
             ELSE [a EXCEPT !.Q = push_front(pop_front(@), read), !.stop = TRUE]
  IN  FoldLeft(One, [Q |-> Q, stale |-> {}, stop |-> FALSE], SubSeq(Q.reads, 1, Q.ready_cnt))

PostLeader(Q) ==
  LET One(a, read) == [a EXCEPT !.Q = pop_front(@), !.stale = @ \cup Missing(read, FALSE)]
  IN  FoldLeft(One, [Q |-> Q, stale |-> {}],
               IF ready_to_handle_read THEN SubSeq(Q.reads, 1, Q.ready_cnt) ELSE <<>>)

\* What post_apply does with the queue.
PostReads(Q) == IF IsLeader THEN PostLeader(Q) ELSE PostReplica(Q)
-----------------------------------------------------------------------------
(***************************************************************************)
(* The peer's handlers.                                                    *)
(***************************************************************************)
Command(kind, index, former) == [kind |-> kind, need |-> Acked, read_index |-> index, former |-> former]

\* Peer::read_index where a command joins the last request: the lease is not suspect and
\* the request is younger than max_lease.
CanJoin == IsLeader /\ ~transfer /\ q.reads # <<>> /\ ~Last(q.reads).old

Join(kind) ==
  /\ came < MaxCmds /\ busy # "merge" /\ CanJoin
  /\ q' = [q EXCEPT !.reads[Len(q.reads)].cmds =
             Append(@, Command(kind, committed, Last(q.reads).term # term))]
  /\ came' = came + 1
  /\ UNCHANGED <<countdown, raft, net, engine, commit, stale>>

\* Peer::read_index where a request is made. A peer that knows no leader and a leader without
\* an entry of its term committed answer with an error instead. The message to the leader may
\* be lost.
ReadIndex(kind) ==
  /\ came < MaxCmds /\ busy # "merge" /\ ~CanJoin
  /\ IF IsLeader THEN committed >= noop ELSE soft = "follower"
  /\ q' = push_back(q, [id |-> came + 1, cmds |-> <<Command(kind, None, FALSE)>>, read_index |-> None,
                        in_contexts |-> FALSE, old |-> FALSE, term |-> term], IsLeader)
  /\ came' = came + 1 /\ countdown' = MAX
  /\ IF IsLeader
     THEN unconfirmed' = Append(unconfirmed, [id |-> came + 1, index |-> committed]) /\ asked' = asked
     ELSE asked' \in {asked, asked \cup {came + 1}} /\ UNCHANGED unconfirmed
  /\ UNCHANGED <<states, raft, engine, commit, stale>>

\* A round of the peer that has a Ready ends with apply_reads. With a snapshot in the Ready,
\* post_ready has moved the applied state to it before, and the data is replaced later.
ApplySnapshot ==
  /\ busy = "no" /\ soft = "follower" /\ applied < commit
  /\ applied' = commit /\ committed' = commit /\ busy' = "snap" /\ UNCHANGED noop

ApplyReads ==
  /\ busy # "snap"
  /\ ApplySnapshot \/ ((states # <<>> \/ soft # prev \/ vote) /\ UNCHANGED engine)
  /\ LET Q1 == IF IsLeader THEN advance_leader_reads(q, states) ELSE advance_replica_reads(q, states)
         a == PostReads(Q1)
     IN  /\ q' = IF soft # prev THEN clear_uncommitted_on_role_change(a.Q) ELSE a.Q
         /\ stale' = stale \cup a.stale
  /\ prev' = soft /\ vote' = FALSE /\ states' = <<>>
  /\ UNCHANGED <<countdown, came, term, soft, usurped, transfer, asked, unconfirmed, commit>>

\* post_apply after an entry, which may begin a merge or a split, or end it.
PostApply ==
  /\ busy # "snap" /\ applied < IF IsLeader THEN committed ELSE commit
  /\ applied' = applied + 1 /\ committed' = Max({committed, applied'}) 
  /\ busy' \in IF applied' = MergeIndex THEN {"no", "merge"} ELSE {"no"}
  /\ UNCHANGED noop
  /\ LET a == PostReads(q) IN q' = a.Q /\ stale' = stale \cup a.stale
  /\ UNCHANGED <<countdown, came, raft, net, commit>>

\* check_applying_snap finds the job finished.
EndSnapshot ==
  /\ busy = "snap" /\ busy' = "no"
  /\ UNCHANGED <<applied, committed, noop>>
  /\ LET a == PostReplica(q) IN q' = a.Q /\ stale' = stale \cup a.stale
  /\ UNCHANGED <<countdown, came, raft, net, commit>>

\* retry_plightlikeing_reads on the base tick. Raft drops the message if it knows no leader.
Tick ==
  /\ ~IsLeader /\ busy # "snap" /\ Unresolved
  /\ countdown' = NextCountdown
  /\ IF Retry /\ busy = "no"
     THEN /\ asked' = IF soft = "follower" THEN asked \cup {Last(q.reads).id} ELSE asked
          /\ q' = [q EXCEPT !.panic = @ \/ Last(q.reads).read_index # None]
     ELSE UNCHANGED <<asked, q>>
  /\ UNCHANGED <<came, raft, unconfirmed, states, engine, commit, stale>>
-----------------------------------------------------------------------------
(***************************************************************************)
(* External: the Raft group and time.                                      *)
(***************************************************************************)
\* An entry is committed, with all before it. A leader's own commit is the group's; its first
\* entry leaves with the Ready of its new role.
Commit ==
  /\ commit < MaxIndex \/ (Leads /\ commit < noop)
  /\ commit' = commit + 1 /\ (Leads => prev = "leader")
  /\ committed' = IF Leads THEN commit + 1 ELSE committed
  /\ UNCHANGED <<q, countdown, came, raft, net, applied, noop, busy, stale>>

\* The answer of the leader to MsgReadIndex arrives: what was committed when the leader got the
\* message. Answers overtake each other.
Receive(id) ==
  /\ id \in asked /\ soft = "follower" /\ Len(states) < MaxCmds
  /\ LET needs == {q.reads[i].cmds[1].need : i \in {i \in DOMAIN q.reads : q.reads[i].id = id}}
     IN  \E index \in Min(needs \cup {commit}) .. commit :
           states' = Append(states, [id |-> id, index |-> index])
  /\ asked' = asked \ {id}
  /\ UNCHANGED <<q, countdown, came, raft, unconfirmed, engine, commit, stale>>

\* A quorum has answered the leader's heartbeat for its k-th request, and so for those before.
Confirm ==
  /\ Leads
  /\ \E k \in DOMAIN unconfirmed :
        /\ states' = states \o SubSeq(unconfirmed, 1, k)
        /\ unconfirmed' = SubSeq(unconfirmed, k + 1, Len(unconfirmed))
  /\ UNCHANGED <<q, countdown, came, raft, asked, engine, commit, stale>>

\* max_lease has passed since the requests. Only a leader asks.
Age ==
  /\ IsLeader /\ \E i \in DOMAIN q.reads : ~q.reads[i].old
  /\ q' = [q EXCEPT !.reads = [i \in DOMAIN @ |-> [@[i] EXCEPT !.old = TRUE]]]
  /\ UNCHANGED <<countdown, came, raft, net, engine, commit, stale>>

\* A later leader is elected, unknown to this one. Not while a quorum is bound by an answer to
\* this leader younger than max_lease, unless this leader has sent MsgTimeoutNow.
Bound(read) ==
  ~read.old /\ IF read.term = term THEN read.id \notin {unconfirmed[i].id : i \in DOMAIN unconfirmed}
               ELSE committed >= noop
Usurp ==
  /\ Leads /\ term < MaxTerm
  /\ transfer \/ \A i \in DOMAIN q.reads : ~Bound(q.reads[i])
  /\ usurped' = TRUE
  /\ UNCHANGED <<q, countdown, came, term, soft, prev, vote, transfer, net, engine, commit, stale>>

TransferLeader ==
  /\ Leads /\ ~transfer /\ transfer' = TRUE
  /\ UNCHANGED <<q, countdown, came, term, soft, prev, vote, usurped, net, engine, commit, stale>>

\* This peer reaches a new term: it follows the leader of it or is a candidate. A former leader's
\* requests are dropped.
NewTerm ==
  /\ term < MaxTerm /\ term' = term + 1 /\ busy # "snap"
  /\ soft' \in {"follower", "cand"} \ (IF soft \in {"cand", "leader"} THEN {"cand"} ELSE {})
  /\ vote' = (soft' = "cand") /\ usurped' = FALSE /\ transfer' = FALSE /\ unconfirmed' = <<>>
  /\ noop' = 0 /\ committed' = applied
  /\ UNCHANGED <<q, countdown, came, prev, asked, states, applied, busy, commit, stale>>

\* A follower asks whether it would get votes; it hears of its leader again, or of the
\* candidate that won.
PreCandidate ==
  /\ soft = "follower" /\ busy # "snap" /\ soft' = "pre"
  /\ UNCHANGED <<q, countdown, came, term, prev, vote, usurped, transfer, net, engine, commit, stale>>

HearLeader ==
  /\ soft \in {"pre", "cand"} /\ soft' = "follower" /\ vote' = FALSE
  /\ UNCHANGED <<q, countdown, came, term, prev, usurped, transfer, net, engine, commit, stale>>

\* A candidate, whose requests for votes left with a Ready, wins. It may know less of what is
\* committed than it holds.
Elected ==
  /\ soft = "cand" /\ ~vote
  /\ soft' = "leader" /\ noop' = commit + 1 /\ committed' \in applied .. commit
  /\ UNCHANGED <<q, countdown, came, term, prev, vote, usurped, transfer, net, applied, busy, commit, stale>>

\* A read with the replica_read flag, and a request for an index alone. (A read without the flag
\* is one with it, except that it gets an error where this peer no longer leads.)
Kinds == {"replica", "index"}

Next ==
  \/ \E kind \in Kinds : Join(kind) \/ ReadIndex(kind)
  \/ ApplyReads \/ PostApply \/ EndSnapshot \/ Tick
  \/ Commit \/ (\E id \in asked : Receive(id))
  \/ Confirm \/ Age \/ Usurp \/ TransferLeader \/ NewTerm \/ PreCandidate \/ HearLeader \/ Elected

Spec == Init /\ [][Next]_vars

\* The pollers run the peer and its ticks, apply catches up, the group commits the entry of a
\* new leader and confirms a leader's requests, a deposed leader learns of it. A message sent
\* again and again arrives.
Progress ==
  \/ ApplyReads \/ PostApply \/ EndSnapshot \/ HearLeader \/ Confirm
  \/ (usurped /\ NewTerm) \/ (Leads /\ commit < noop /\ Commit)

\* Weak fairness of Progress and of Tick, strong fairness of Receive, with the conditions under
\* which they are enabled written out.
CanProgress ==
  \/ busy = "snap" \/ soft \in {"pre", "cand"} \/ states # <<>> \/ soft # prev \/ vote
  \/ applied < (IF IsLeader THEN committed ELSE commit)
  \/ (Leads /\ unconfirmed # <<>>) \/ (usurped /\ term < MaxTerm)
  \/ (Leads /\ commit < noop)

CanTick == ~IsLeader /\ busy # "snap" /\ Unresolved /\ NextCountdown # countdown

Fairness ==
  /\ []<>(~CanProgress) \/ []<><<Progress>>_vars
  /\ []<>(~CanTick) \/ []<><<Tick>>_vars
  /\ \A id \in 1 .. MaxCmds :
        <>[](id \notin asked \/ soft # "follower" \/ Len(states) >= MaxCmds) \/ []<><<Receive(id)>>_vars

LiveSpec == Spec /\ Fairness
-----------------------------------------------------------------------------
\* No assertion or index of the queue fails, whatever order answers, retries, role changes and
\* pops come in: a context names the place of its read, a popped read has its index, the
\* leader's read states come in the order of its requests, only an unresolved read is retried.
NoPanic == TypeOK /\ ~q.panic

\* The reads a peer may serve are a prefix of the queue, all have an index, and none waits for a
\* later entry than a read behind it, so that the loop that stops at the first read that is not
\* ready holds up nothing that is (read_queue.rs fold).
PrefixRight ==
  /\ \A i \in DOMAIN q.reads : (q.reads[i].read_index # None) <=> i <= q.ready_cnt
  /\ \A i \in 1 .. q.ready_cnt - 1 : ~IsLeader => q.reads[i].read_index <= q.reads[i + 1].read_index

\* A read served from this peer, or an index given to a client, covers every write acknowledged
\* to its client before the read came, on the leader and on a replica, across changes of
\* role, retries and snapshots (reads that joined a request of a former role aside).
ReadFresh == "own" \notin stale

\* The same for reads that joined the last request of the queue, where that request was made
\* before this leadership. The comment in Peer::read_index says joining is sound.
JoinedFresh == "joined" \notin stale

\* Every read is answered, although only the last one is asked for again: once the peer no
\* longer starts elections, and unless a merge holds the brane.
Answered == <>[](soft # "pre") => []<>(q.reads = <<>> \/ busy = "merge")
=============================================================================

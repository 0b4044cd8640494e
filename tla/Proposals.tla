----------------------------- MODULE Proposals -----------------------------
(***************************************************************************)
(* The life of a write on one peer: it is proposed unless an admin command *)
(* under way conflicts with it, waits in the ProposalQueue, is handed to   *)
(* the apply state machine with the committed entries, applied against the *)
(* epoch of the brane, answered, and its result brought back to the peer.  *)
(* The peer gains and loses leadership on the way. The Raft group (log,    *)
(* terms, commit index) is external; snapshots, the end of the peer and    *)
(* merging into a target are left out. A request that is refused at once   *)
(* leaves no trace and is not a step.                                      *)
(***************************************************************************)
EXTENDS Naturals, Sequences, FiniteSets, FiniteSetsExt, SequencesExt

CONSTANTS Requests,
          NoReq,      \* the writer of an entry nobody here waits for
          Kinds,      \* kinds of command clients ask for
          ForeignKinds, \* kinds of entry another leader appends
          MaxTerm,    \* bound on the terms
          MaxLog      \* bound on the length of the log

ASSUME NoReqAssumption == NoReq \notin Requests

VARIABLES
  term, role, changed,  \* Raft; changed: a Ready with a new role is due
  log, commit,          \* the log, entries with their writer, and the commit index
  pendingConf,          \* plightlikeing_conf_index of the Raft group
  cmds, checkTerm,      \* CmdEpochChecker: proposed_admin_cmd and term
  props,                \* ProposalQueue
  handed,               \* last_applying_idx
  applied, appliedTerm, \* what the peer knows of the apply progress
  epoch, merging,       \* brane epoch and plightlikeing_merge_state of the peer
  mail,                 \* Apply messages under way
  limit, aIdx,          \* last entry received and last entry applied by the apply fsm
  normals, conf,        \* PlightlikeingCmdQueue; conf has at most one element
  aEpoch, aMerging,     \* brane epoch and is_merging of the apply fsm
  due,                  \* answers in ApplyContext::cbs
  results,              \* ApplyRes under way
  ans,                  \* what each request was answered
  panic                 \* the assertion that failed, if one did

raft == <<term, role, changed, log, commit, pendingConf>>
peer == <<cmds, checkTerm, props, handed, applied, appliedTerm, epoch, merging>>
apply == <<limit, aIdx, normals, conf, aEpoch, aMerging, due>>
vars == <<raft, peer, mail, apply, results, ans, panic>>

Epoch == [ver : Nat, conf : Nat]
Answers == {"idle", "sent", "ok", "rejected", "error", "epoch", "stale"}
-----------------------------------------------------------------------------
(***************************************************************************)
(* Which parts of the epoch a command is checked against and changes.      *)
(***************************************************************************)
EpochState(cv, cc, hv, hc) ==
  [check_ver |-> cv, check_conf_ver |-> cc, change_ver |-> hv, change_conf_ver |-> hc]

\* The commands modelled; BatchSplit is a Split, ChangePeerV2 is not proposed as a conf change.
ADMIN_CMD_EPOCH_MAP ==
  [CompactLog    |-> EpochState(FALSE, FALSE, FALSE, FALSE),
   ChangePeer    |-> EpochState(FALSE, TRUE, FALSE, TRUE),
   Split         |-> EpochState(TRUE, TRUE, TRUE, FALSE),
   PrepareMerge  |-> EpochState(TRUE, TRUE, TRUE, TRUE),
   RollbackMerge |-> EpochState(TRUE, TRUE, TRUE, FALSE)]

Admin == DOMAIN ADMIN_CMD_EPOCH_MAP
StateOf(kind) == IF kind \in Admin THEN ADMIN_CMD_EPOCH_MAP[kind]
                 ELSE EpochState(TRUE, FALSE, FALSE, FALSE)

check_brane_epoch(kind, from, current) ==
  /\ StateOf(kind).check_conf_ver => from.conf = current.conf
  /\ StateOf(kind).check_ver => from.ver = current.ver

\* The epoch a successful command leaves; a split makes one new brane.
Changed(kind, e) ==
  [ver |-> IF StateOf(kind).change_ver THEN e.ver + 1 ELSE e.ver,
   conf |-> IF StateOf(kind).change_conf_ver THEN e.conf + 1 ELSE e.conf]

\* Lexicographic order of proposals by term, then index.
After(p, t, i) == p.term > t \/ (p.term = t /\ p.index > i)

\* The elements of q before the first one that is Test, and those from it on.
Before(q, Test(_)) == LET n == SelectInSeq(q, Test)
                      IN  IF n = 0 THEN q ELSE SubSeq(q, 1, n - 1)
From(q, Test(_)) == LET n == SelectInSeq(q, Test)
                    IN  IF n = 0 THEN <<>> ELSE SubSeq(q, n, Len(q))

ReqsOf(q) == {q[i].req : i \in DOMAIN q} \ {NoReq}
Answer(S, what) == [r \in Requests |-> IF r \in S THEN what ELSE ans[r]]
\* checked: the epoch checker let it pass; not part of the entry in the code.
Entry(kind, t, r, e, c) == [kind |-> kind, term |-> t, req |-> r, epoch |-> e, checked |-> c]
First == [ver |-> 1, conf |-> 1]

TypeOK ==
  /\ term \in 1 .. MaxTerm /\ role \in {"leader", "follower"} /\ changed \in BOOLEAN
  /\ Len(log) <= MaxLog /\ commit \in 0 .. Len(log) /\ pendingConf \in 0 .. MaxLog
  /\ \A i \in DOMAIN log : log[i] \in [kind : Admin \cup {"normal", "noop"}, term : 1 .. term,
                                       req : Requests \cup {NoReq}, epoch : Epoch,
                                       checked : BOOLEAN]
  /\ checkTerm \in 0 .. term /\ merging \in BOOLEAN /\ aMerging \in BOOLEAN
  /\ applied <= aIdx /\ aIdx <= limit /\ limit <= handed /\ handed <= commit
  /\ appliedTerm \in 0 .. term /\ epoch \in Epoch /\ aEpoch \in Epoch
  /\ Len(conf) <= 1 /\ ans \in [Requests -> Answers]
  /\ panic \in {"", "conflict", "other"}

Init ==
  /\ term = 1 /\ role = "leader" /\ changed = FALSE
  /\ log = <<Entry("noop", 1, NoReq, First, FALSE)>> /\ commit = 1 /\ pendingConf = 0
  /\ cmds = <<>> /\ checkTerm = 1 /\ props = <<>> /\ handed = 1
  /\ applied = 1 /\ appliedTerm = 1 /\ epoch = First /\ merging = FALSE
  /\ mail = <<>> /\ limit = 1 /\ aIdx = 1 /\ normals = <<>> /\ conf = <<>>
  /\ aEpoch = First /\ aMerging = FALSE /\ due = {} /\ results = <<>>
  /\ ans = [r \in Requests |-> "idle"] /\ panic = ""
-----------------------------------------------------------------------------
(***************************************************************************)
(* The Raft group, external.                                               *)
(***************************************************************************)
BecomeFollower(t) ==
  /\ t > term /\ term' = t /\ role' = "follower"
  /\ changed' = (changed \/ role = "leader")
  /\ UNCHANGED <<log, commit, pendingConf, peer, mail, apply, results, ans, panic>>

BecomeLeader(t) ==
  /\ role = "follower" /\ t > term /\ Len(log) < MaxLog
  /\ term' = t /\ role' = "leader" /\ changed' = TRUE
  /\ pendingConf' = Len(log) /\ log' = Append(log, Entry("noop", t, NoReq, First, FALSE))
  /\ UNCHANGED <<commit, peer, mail, apply, results, ans, panic>>

\* The epoch after the first n entries, if all of them succeed.
EpochAfter(n) ==
  FoldLeft(LAMBDA e, x : IF x.kind # "noop" /\ check_brane_epoch(x.kind, x.epoch, e)
                         THEN Changed(x.kind, e) ELSE e, First, SubSeq(log, 1, n))

\* Another leader's entry, after the first n of this log.
ForeignAppend(n, kind) ==
  /\ role = "follower" /\ n \in commit .. Len(log) /\ n < MaxLog
  /\ \A i \in n + 1 .. Len(log) : log[i].term < term
  /\ log' = Append(SubSeq(log, 1, n), Entry(kind, term, NoReq, EpochAfter(n), FALSE))
  /\ UNCHANGED <<term, role, changed, commit, pendingConf, peer, mail, apply, results, ans, panic>>

Commit(n) ==
  /\ n > commit /\ (role = "leader" => log[n].term = term)
  /\ commit' = n
  /\ UNCHANGED <<term, role, changed, log, pendingConf, peer, mail, apply, results, ans, panic>>
-----------------------------------------------------------------------------
(***************************************************************************)
(* CmdEpochChecker. A conflict index of 0 is None.                         *)
(***************************************************************************)
\* maybe_fidelio_term: what a newer term leaves of the commands, and whom it answers.
Kept == IF term > checkTerm THEN <<>> ELSE cmds
Waiting(q) == UNION {q[i].cbs : i \in DOMAIN q}
Outdated == IF term > checkTerm THEN Waiting(cmds) ELSE {}

last_conflict_index(check_ver, check_conf_ver) ==
  LET hits == {i \in DOMAIN Kept : \/ check_ver /\ Kept[i].change_ver
                                   \/ check_conf_ver /\ Kept[i].change_conf_ver}
  IN  IF hits = {} THEN 0 ELSE Kept[Max(hits)].index

\* Mutated form of propose_check_epoch: the version is not checked.
propose_check_epochLax(kind) ==
  last_conflict_index(FALSE, kind \in Admin /\ StateOf(kind).check_ver)

\* Both flags of an admin command are its check_ver.
propose_check_epoch(kind) ==
  last_conflict_index(StateOf(kind).check_ver, kind \in Admin /\ StateOf(kind).check_ver)

\* The assertions of post_propose.
NoConflict(kind) ==
  kind \in Admin =>
    last_conflict_index(StateOf(kind).check_ver, StateOf(kind).check_conf_ver) = 0
ChangesEpoch(kind) == StateOf(kind).change_ver \/ StateOf(kind).change_conf_ver
InOrder(kind, index) == ChangesEpoch(kind) /\ Kept # <<>> => Last(Kept).index < index

post_propose(kind, index) ==
  LET s == StateOf(kind)
  IN  IF ChangesEpoch(kind)
      THEN Append(Kept, [change_ver |-> s.change_ver, change_conf_ver |-> s.change_conf_ver,
                         index |-> index, cbs |-> {}])
      ELSE Kept

attach_to_conflict_cmd(index, r) ==
  [i \in DOMAIN Kept |-> IF Kept[i].index = index
                         THEN [Kept[i] EXCEPT !.cbs = @ \cup ({r} \ {NoReq})] ELSE Kept[i]]
-----------------------------------------------------------------------------
(***************************************************************************)
(* Peer::propose.                                                          *)
(***************************************************************************)
\* The log gap of pre_propose_prepare_merge, at least the entries not committed here.
GapClear == \A i \in commit + 1 .. Len(log) : log[i].kind \in {"normal", "noop"}

\* Only a peer that has applied an entry of its term trusts its epoch checker.
Checked(kind) == kind \in Admin \/ appliedTerm = term

MayPropose(kind) ==
  /\ role = "leader" /\ (merging => kind = "RollbackMerge")
  /\ kind \in Admin => appliedTerm = term
  /\ kind = "ChangePeer" => pendingConf <= applied
  /\ kind = "RollbackMerge" => merging

Conflict(kind) == IF Checked(kind) THEN propose_check_epoch(kind) ELSE 0

\* The term of the checker is brought up to date whenever it is asked.
CheckTerm(kind) == checkTerm' = IF Checked(kind) THEN term ELSE checkTerm

\* The request waits for the admin command it conflicts with.
ProposeConflict(r, kind) ==
  /\ MayPropose(kind) /\ Conflict(kind) # 0
  /\ cmds' = attach_to_conflict_cmd(Conflict(kind), r) /\ CheckTerm(kind)
  /\ ans' = [q \in Requests |-> IF q = r THEN "sent" ELSE IF q \in Outdated THEN "stale" ELSE ans[q]]
  /\ UNCHANGED <<raft, props, handed, applied, appliedTerm, epoch, merging, mail, apply,
                 results, panic>>

IsConf(kind) == kind = "ChangePeer"

Propose(r, kind) ==
  LET index == Len(log) + 1
      p == [term |-> term, index |-> index, req |-> r, is_conf |-> IsConf(kind)]
  IN  /\ MayPropose(kind) /\ Conflict(kind) = 0 /\ index <= MaxLog
      /\ kind = "PrepareMerge" => GapClear
      /\ log' = Append(log, Entry(kind, term, r, epoch, Checked(kind)))
      /\ pendingConf' = IF kind = "ChangePeer" THEN index ELSE pendingConf
      /\ panic' = IF ~NoConflict(kind) THEN "conflict"
                  ELSE IF ~InOrder(kind, index) THEN "other"
                  ELSE IF props # <<>> /\ ~After(p, Head(props).term, Head(props).index)
                  THEN "other" ELSE panic
      /\ cmds' = IF Checked(kind) THEN post_propose(kind, index) ELSE cmds
      /\ CheckTerm(kind) /\ props' = Append(props, p)
      /\ ans' = [q \in Requests |->
                   IF q = r THEN "sent"
                   ELSE IF Checked(kind) /\ q \in Outdated THEN "stale" ELSE ans[q]]
      /\ UNCHANGED <<term, role, changed, commit, handed, applied, appliedTerm, epoch, merging,
                     mail, apply, results>>
-----------------------------------------------------------------------------
(***************************************************************************)
(* Handling a Ready of the Raft group.                                     *)
(***************************************************************************)
\* ProposalQueue::take: the proposals up to a term and index, those nobody waits for left out.
take(t, i) == SelectSeq(Before(props, LAMBDA p : After(p, t, i)), LAMBDA p : p.req # NoReq)

\* Mutated form of OnRoleChanged: the commands are dropped and nobody is told.
OnRoleChangedSilent ==
  IF changed THEN cmds' = Kept /\ checkTerm' = term /\ UNCHANGED ans
  ELSE UNCHANGED <<cmds, checkTerm, ans>>

\* Mutated form of OnRoleChanged: the epoch checker is not told of the new term.
OnRoleChangedNot == UNCHANGED <<cmds, checkTerm, ans>>

OnRoleChanged ==
  IF changed THEN cmds' = Kept /\ checkTerm' = term /\ ans' = Answer(Outdated, "stale")
  ELSE UNCHANGED <<cmds, checkTerm, ans>>

\* A new role brings the epoch checker to the new term; committed entries, all of them or as
\* many as a Ready may hold, go to the apply fsm with the proposals up to the commit index.
HandleReady(upto) ==
  LET t == log[commit].term
  IN  /\ changed \/ upto > handed
      /\ changed' = FALSE /\ OnRoleChanged
      /\ IF upto > handed
         THEN /\ mail' = Append(mail, [upto |-> upto, cbs |-> take(t, commit)])
              /\ props' = From(props, LAMBDA p : After(p, t, commit))
              /\ handed' = upto
         ELSE UNCHANGED <<mail, props, handed>>
      /\ UNCHANGED <<term, role, log, commit, pendingConf, applied, appliedTerm, epoch, merging,
                     apply, results, panic>>
-----------------------------------------------------------------------------
(***************************************************************************)
(* The apply state machine.                                                *)
(***************************************************************************)

\* handle_apply and applightlike_proposal: an earlier conf change still waiting is stale.
HandleApply ==
  LET cbs == Head(mail).cbs
      confs == SelectSeq(cbs, LAMBDA p : p.is_conf)
      all == conf \o confs
  IN  /\ mail # <<>> /\ aIdx = limit
      /\ mail' = Tail(mail) /\ limit' = Head(mail).upto
      /\ normals' = normals \o SelectSeq(cbs, LAMBDA p : ~p.is_conf)
      /\ conf' = IF confs = <<>> THEN conf ELSE <<Last(confs)>>
      /\ ans' = Answer(IF confs = <<>> THEN {} ELSE ReqsOf(Front(all)), "stale")
      /\ UNCHANGED <<raft, peer, aIdx, aEpoch, aMerging, due, results, panic>>

\* An empty entry: whatever was proposed in earlier terms is stale.
ApplyEmpty ==
  LET t == log[aIdx + 1].term
      Newer(p) == p.term > t - 1
  IN  /\ aIdx < limit /\ log[aIdx + 1].kind = "noop"
      /\ aIdx' = aIdx + 1 /\ normals' = From(normals, Newer)
      /\ due' = due \cup ({"stale"} \X ReqsOf(Before(normals, Newer)))
      /\ UNCHANGED <<raft, peer, mail, limit, conf, aEpoch, aMerging, results, ans, panic>>

\* Mutated form of Is: the term is not compared.
IsIndex(p, t, i) == p.index = i

Is(p, t, i) == p.term = t /\ p.index = i

\* What find_plightlikeing finds for the entry at index i of term t: the proposals it takes
\* off, of which the last may be the one looked for.
NormalsUpTo(t, i) == Before(normals, LAMBDA p : p.term > t \/ (p.term = t /\ p.index # i))
Found(q, t, i) == IF q # <<>> /\ Is(Last(q), t, i) THEN {Last(q).req} ELSE {}

\* An entry with a command: ok is whether its execution succeeds once the epoch matches.
ApplyCmd(ok) ==
  LET i == aIdx + 1
      e == log[i]
      match == check_brane_epoch(e.kind, e.epoch, aEpoch)
      outcome == IF ~match THEN "rejected" ELSE IF ok THEN "ok" ELSE "error"
      popped == IF e.kind = "ChangePeer" THEN conf ELSE NormalsUpTo(e.term, i)
      found == Found(popped, e.term, i)
      rest == SubSeq(normals, Len(popped) + 1, Len(normals))
  IN  /\ aIdx < limit /\ e.kind # "noop" /\ (~ok => match /\ e.kind \in {"ChangePeer", "Split"})
      /\ aIdx' = i
      /\ aEpoch' = IF match /\ ok THEN Changed(e.kind, aEpoch) ELSE aEpoch
      /\ aMerging' = IF match /\ e.kind = "PrepareMerge" THEN TRUE
                     ELSE IF match /\ e.kind = "RollbackMerge" THEN FALSE ELSE aMerging
      /\ IF e.kind = "ChangePeer" THEN conf' = <<>> /\ UNCHANGED normals
         ELSE normals' = rest /\ UNCHANGED conf
      /\ ans' = Answer(ReqsOf(popped) \ found, "stale")
      /\ due' = due \cup ({outcome} \X found)
      /\ panic' = IF \/ match /\ e.kind = "RollbackMerge" /\ ~aMerging
                     \/ e.kind # "ChangePeer" /\ found = {} /\ rest # <<>>
                        /\ Head(rest).term = e.term /\ Head(rest).index < i
                  THEN "other" ELSE panic
      /\ UNCHANGED <<raft, peer, mail, limit, results>>

\* finish_for and flush, at the end of the entries or when the apply fsm yields.
Flush ==
  /\ aIdx > (IF results = <<>> THEN applied ELSE Last(results).index)
  /\ ans' = [r \in Requests |-> IF \E d \in due : d[2] = r
                                THEN (CHOOSE d \in due : d[2] = r)[1] ELSE ans[r]]
  /\ due' = {}
  /\ results' = Append(results, [index |-> aIdx, term |-> log[aIdx].term,
                                 epoch |-> aEpoch, merging |-> aMerging])
  /\ UNCHANGED <<raft, peer, mail, limit, aIdx, normals, conf, aEpoch, aMerging, panic>>
-----------------------------------------------------------------------------
(***************************************************************************)
(* on_apply_res: the results of the commands, then post_apply, in which    *)
(* CmdEpochChecker::advance_apply answers who waited for a command.        *)
(***************************************************************************)
\* Mutated form of NotYet: the command at the applied index itself stays.
NotYetOver(c, index) == c.index >= index

\* Where advance_apply stops.
NotYet(c, index) == c.index > index

OnApplyRes ==
  LET res == Head(results)
      Left(c) == NotYet(c, res.index)
  IN  /\ results # <<>> /\ results' = Tail(results)
      /\ epoch' = res.epoch /\ merging' = res.merging
      /\ applied' = res.index /\ appliedTerm' = res.term
      /\ cmds' = From(Kept, Left) /\ checkTerm' = term
      /\ ans' = [r \in Requests |-> IF r \in Outdated THEN "stale"
                                    ELSE IF r \in Waiting(Before(Kept, Left)) THEN "epoch"
                                    ELSE ans[r]]
      /\ UNCHANGED <<raft, props, handed, mail, apply, panic>>

Step ==
  \/ \E t \in 1 .. MaxTerm : BecomeFollower(t) \/ BecomeLeader(t)
  \/ \E n \in 1 .. MaxLog, kind \in ForeignKinds : ForeignAppend(n, kind)
  \/ \E n \in DOMAIN log : Commit(n)
  \/ \E r \in {q \in Requests : ans[q] = "idle"}, kind \in Kinds :
       ProposeConflict(r, kind) \/ Propose(r, kind)
  \/ ProposeConflict(NoReq, "RollbackMerge") \/ Propose(NoReq, "RollbackMerge")
  \/ \E upto \in handed .. commit : HandleReady(upto)
  \/ HandleApply \/ ApplyEmpty \/ (\E ok \in BOOLEAN : ApplyCmd(ok)) \/ Flush
  \/ OnApplyRes

\* A failed assertion ends the process.
Next == panic = "" /\ Step

Spec == Init /\ [][Next]_vars

\* Pollers run every state machine that has work, and a leader that stays leader commits its
\* log. Nothing is assumed of what reaches a follower.
LiveSpec ==
  /\ Spec
  /\ WF_vars(panic = "" /\ \E upto \in handed .. commit : upto = commit /\ HandleReady(upto))
  /\ WF_vars(panic = "" /\ \E n \in DOMAIN log : role = "leader" /\ n = Len(log) /\ Commit(n))
  /\ WF_vars(panic = "" /\ (HandleApply \/ ApplyEmpty \/ ApplyCmd(TRUE)))
  /\ WF_vars(panic = "" /\ Flush) /\ WF_vars(panic = "" /\ OnApplyRes)
-----------------------------------------------------------------------------
(***************************************************************************)
(* Properties.                                                             *)
(***************************************************************************)
Holders(r) ==
  Cardinality({<<"cmds", i>> : i \in {j \in DOMAIN cmds : r \in cmds[j].cbs}}
         \cup {<<"props", i>> : i \in {j \in DOMAIN props : props[j].req = r}}
         \cup {<<"mail", i>> : i \in {j \in DOMAIN mail : r \in ReqsOf(mail[j].cbs)}}
         \cup {<<"normals", i>> : i \in {j \in DOMAIN normals : normals[j].req = r}}
         \cup {<<"conf", i>> : i \in {j \in DOMAIN conf : conf[j].req = r}}
         \cup {<<"due", d>> : d \in {x \in due : x[2] = r}})

\* Every callback is in exactly one place until it is called, and called once: it is never
\* lost between the peer, the mailbox and the apply fsm, and never left behind when called. None
\* is found at an unexpected index, no proposal out of order, no merge rolled back that is not
\* under way.
CalledOnce ==
  /\ TypeOK /\ panic # "other"
  /\ panic = "" => \A r \in Requests : Holders(r) = IF ans[r] = "sent" THEN 1 ELSE 0

InLog(r) == \E i \in 1 .. aIdx : log[i].req = r

\* A client is told of success only for its own command, applied at its place in the log,
\* and told "stale" or "epoch not match" only if the command is never applied.
AnswerRight == \A r \in Requests :
  /\ ans[r] \in {"ok", "rejected", "error"} => InLog(r)
  /\ ans[r] \in {"stale", "epoch"} => \A i \in DOMAIN log : log[i].req # r

\* What the epoch checker is for: a command that passed it is not turned away by the epoch
\* check of the apply fsm. Only a write proposed before the first entry of the term was
\* applied can be.
CheckedNotRejected ==
  \A i \in 1 .. aIdx : log[i].req # NoReq /\ log[i].checked => ans[log[i].req] # "rejected"

\* The checker of a leader that has applied to its term knows exactly the commands under way
\* that change the epoch.
CheckerRight ==
  panic = "" /\ role = "leader" /\ appliedTerm = term =>
    {cmds[i].index : i \in DOMAIN cmds} =
      {i \in applied + 1 .. Len(log) : ChangesEpoch(log[i].kind)}

\* Who waits for a conflicting admin command is answered, whatever becomes of that command and
\* of the leadership of the peer.
WaiterAnswered == \A r \in Requests :
  (\E i \in DOMAIN cmds : r \in cmds[i].cbs) ~> (ans[r] # "sent" \/ panic # "")

\* post_propose asserts that a proposal propose_check_epoch let through has no conflict.
NoConflictPanic == panic # "conflict"
=============================================================================

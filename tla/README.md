# EinsteinDB: TLA+ models, checks and proofs

This directory holds a verification development for EinsteinDB: TLA+ modules
translated from the Rust source under `src/`, TLC configurations that explore
them on small instances, and TLAPS proofs of the invariants that matter most,
for every instance. `PROJECT.json` is the index: which definition models which
lines, what each run checks, which hazard each property is about.

The source has an idiosyncratic vocabulary. The modules keep its names where a
name is needed, and the comments use these words for them: *brane* is a region (a
Raft group), *lightlike* is send (and sometimes end), *plightlikeing* is pending,
*dagger* is lock, *fidel* is the placement driver, *pushdown_causet* is delegate,
*interlock_semaphore* is scheduler, *violetabft* is Raft, *causet_context* is
change data capture (CDC), *tuplespaceInstanton* is keys.

## 1. Inventory

The repository is a distributed key-value store (Raft groups driven by a batch
system), a store of facts with its own query language, and the libraries of both.
Its parts, with the state they keep and what makes them hard:

| part | state | operations | what is hard |
|---|---|---|---|
| batch system (`edb/LSH-Tree/batch_system`) | status word and pointer of each FSM, its mailbox, the scheduler channel, a batch per poller, a map of mailboxes and a cache of it per thread | send, notify, poll, release, close, register, shut down | ownership handed over by atomics; wake-ups between release and re-check; indices used after swap_remove; stale caches |
| utilities (`edb/edbn/einsteindb_util`) | intrusive list and map of the LRU cache; counters and flags of the channels; pending counter of workers | get, insert, resize; send, receive, clone, drop; schedule, run, stop | raw pointers; lost wake-ups; closing with the last sender; loose limits |
| concurrency manager (`edb/LSH-Tree/interlock_directorate`) | ordered table of weak references to key handles, a mutex per handle, a max timestamp | lock keys, store a lock, check a read, drop | the death of a handle racing a lookup; order of locking |
| resolved timestamps and CDC (`log_wrappers/resolved_ts`, `causet_context`) | locks per start timestamp, resolved and minimal timestamp; delegates, downstreams, connections | track, untrack, resolve; observe, scan, register, deregister | a scan racing observed changes; results of a former registration |
| raftstore: peer (`violetabftstore/src/store/peer.rs`, `fsm/peer.rs`) | role, proposals, epoch checker, lease, read queue, merge state | propose, handle ready, role change, results of apply, transfer, split, merge, destroy | work proposed under one epoch or term and answered under another |
| raftstore: apply (`fsm/apply.rs`) | applied index, pending commands, write batch, yield and merge state | apply entries, flush, answer, yield, resume, destroy | runs ahead of the peer; answers after flush; restarts |
| raftstore: reads (`worker/read.rs`, `util.rs`, `read_queue.rs`) | lease and its shared copy, cached readers and snapshots, read index queue | renew, suspect, expire, local read, read index | clock, lease and engine read at different moments |
| raftstore: storage and snapshots (`peer_storage.rs`, `snap.rs`, `worker/region.rs`) | snapshot state and job status, registry, ranges to delete | generate, receive, apply, cancel, collect | two threads on one status word; restarts between two writes |
| raftstore: store (`fsm/store.rs`, `replication_mode.rs`) | store metadata, pending votes, groups of stores | create and destroy peers, ticks | metadata against peers that come and go |
| importer (`edb/LSH-Tree/sst_importer`, `edb/import`) | mode and saved options, files under way | switch mode, append, finish, ingest | failing half way; the timer |
| encryption (`edb/LSH-Tree/encryption`) | key and file dictionaries in memory and on disk | rotate, create, link, rename, delete | memory and file differ after a failure |
| synchroniser and transactor of facts (`edb/lenin`, `core`) | heads and mapped transactions; schema and partitions | sync, merge, transact | a remote head that moves; upsert resolution |
| query execution, data types, coprocessor, front end, external storage, engine wrappers | none between requests, or that of a library | - | values rather than interleavings |

They interact so: clients' requests reach a peer FSM through the router, whose
mailboxes are loosely bounded channels and whose clones keep LRU caches. Pollers of
the batch system run peer and apply FSMs. A peer proposes, hands committed entries
to its apply FSM, and gets results back by a mailbox. Local readers bypass the peer
under its lease; other reads wait in the peer's read index queue. A peer that lags gets
a snapshot, which the brane worker loads while the peer waits for it. Apply FSMs report changes to CDC, whose delegates feed a Resolver,
and events leave through the batching channel.

`PROJECT.json` lists every component, with the reason where it is not modelled, and
every hazard at its line.

## 2. Modules

| module | models | kind |
|---|---|---|
| `FsmState` | `batch_system/src/fsm.rs`, `mailbox.rs`, `Batch::release` and `remove` of `batch.rs`: one FSM between mailbox, scheduler channel and pollers, one atomic operation per step | detailed |
| `FsmOwner` | what a mailbox promises: idle, busy or dropped, and not idle with unseen mail | abstract, implemented by `FsmState` |
| `BatchSystem` | `batch_system/src/batch.rs`: `Poller::poll`, `fetch_batch`, `Batch`, the shutdown | composes mailboxes, scheduler channel and pollers |
| `Router` | `batch_system/src/router.rs`: shared map, unshared caches, register, close, `check_do`, `force_lightlike`, broadcast | detailed |
| `BatchChannel` | `einsteindb_util/src/mpsc/batch.rs`: notifier, waker, batching receiver | detailed |
| `LockTable` | `interlock_directorate/src/lib.rs`, `lock_table.rs`, `visor_dagger.rs` | detailed |
| `ResolvedTs` | `resolved_ts/src/lib.rs` with the observer (`causet_context/src/semaphore.rs`), the scan and the delegate's pending locks (`node.rs`, `pushdown.rs`) and the apply side that feeds them | composition |
| `Proposals` | `CmdEpochChecker`, `ProposalQueue`, propose and role change of `peer.rs`; the pending queue, `process_violetabft_cmd` and epoch check of `fsm/apply.rs`; results back to the peer | composition of peer and apply FSM |
| `LeaderLease` | `Lease` and `RemoteLease` of `util.rs`, their use in `peer.rs`, the `LocalReader` of `worker/read.rs` | composition of peer and reader thread |
| `ReadQueue` | `ReadIndexQueue` of `read_queue.rs`, and `read_index`, `apply_reads`, `post_apply`, the retries and the role change of `peer.rs` | composition of queue, peer and Raft group |
| `SnapApply` | the application of snapshots and the destruction of peers: `peer_storage.rs`, `peer.rs`, `fsm/peer.rs`, `fsm/store.rs`, `worker/region.rs`, `snap.rs`; crashes and the start of the store | composition of peers, brane worker, snapshot manager and disk |
| `FsmStateProofs`, `BatchSystemProofs`, `RouterProofs`, `BatchChannelProofs`, `LockTableProofs`, `LeaderLeaseProofs` | the theorems about the module of that name | proofs |
| `SnapStepProofs`, `SnapApplyProofs` | the first shows that every action keeps `IInv`; the second has the theorems about `SnapApply` and the proof of `DInv` | proofs |
| `MC...` | symmetry sets and values of constants for TLC | instances |

Conventions. A variable is named for the field it stands for, and a comment on its
declaration says which. A thread has a program counter `pc` where its operations
are not atomic. A step ends where another thread can come in, so a code path that
runs under a mutex is one step unless it releases it. `panicked` (or `panic`) is set
where the code would panic, index out of bounds or unwrap None; the model then goes
on or stops, and an invariant says that it never happens. Variables called history or
ghost are written by the model and read only by properties. Some definitions occur a
second time, directly before the real one and with a longer name (`RecvRefusedLost`
before `RecvRefused`): these are deliberate mistakes, used to make sure that the
property listed with them in `PROJECT.json` notices.

How the state and actions correspond to the code:

* **FsmState.** `status` and `data` are the two atomics of `FsmState`. A send is
  `SendCheck`, `Push`, `NotifyStatus`, `NotifyData`, `Schedule`: the connected flag, the
  push, the compare-and-swap to NOTIFIED, the swap of the pointer, the scheduler's
  send. A release is `ReleaseData`, `ReleaseStatus`, `ReleaseDrop`, then `CheckLen` and
  the two steps of taking the FSM back. `waiting` is a delegate that waits for its
  merge source and declares a length without reading its messages
  (`apply.rs:3211`), the one case in which the length released with is not the one
  of an emptied channel.
* **BatchSystem.** A mailbox is atomic here apart from the gap inside
  `Batch::release`. `normals`, `timers`, `control` are the fields of `Batch`; `marks` is
  `reschedule_fsms`, with the policy the loop gives each index. `Handle` is one call of
  `handle_normal`, which may consume any part of the mail and stop the FSM. The control FSM may find new
  mail each time it is handled (`ControlBusy`) and so stay in the batch for ever; its release has
  the same gap as that of the others (`ControlDone`, `ControlRelease`, `ControlCheck`).
* **Router.** `cached`, `lookup`, `found`, `force` are the places in `check_do` and
  `force_lightlike` where other clones may come in. Editing calls hold the mutex
  (`holder`) from taking mailboxes out of the map to closing the last of them (`todo`).
* **BatchChannel.** One atomic access a step: counting, storing and waking in
  `State::try_notify_post_lightlike` and `notify`, the notifier flag, and for the receiver
  `poll`, `yield_poll` and the collecting loop of `BatchReceiver`. The executor may also poll
  without a wake.
* **LockTable.** A command locks a set of keys in ascending order; the code sorts what an iterator gives
  and does not drop repeated keys, which the model leaves out. `lock_key` is split at the table access, the upgrade of the weak
  reference, the mutex and the drop of handles.
* **ResolvedTs.** Transactions follow the percolator rules from outside (a commit
  timestamp is fetched after all prewrites are answered). The apply FSM writes in
  batches, gives them to the observer at `FlushApply`, and answers after that.
  `HandleChange` is the change-observer message, whose snapshot the scan reads.
* **Proposals.** `Propose` is the whole of `propose_normal` and `propose_conf_change`, with
  the checker's refusal (the request then waits on the admin command); `HandleReady` hands
  entries and proposals over and reacts to a role change; `ApplyCmd` and `Flush` are
  the apply FSM, `OnApplyRes` the peer's handling of its results. The callbacks and the result
  message of a flush are one step, since the peer reads nothing that the callbacks write.
* **LeaderLease.** Times are numbers; the conversion of a time to the 64-bit form and
  back, which drops low bits, is modelled with a second of `Sec` units and slots of
  `Grain` units, so that rounding happens. A reader's request is `Find`, `Timestamp`,
  `CheckLease`, `Execute`, with the order of clock, lease and engine as in `read.rs`. The term and
  the lease that `RenewLease` publishes are two updates in the code (`peer.rs:1974`); a
  reader that comes between them has the new term and no lease of that term, and is refused.
* **ReadQueue.** `q` has the fields of `ReadIndexQueue`, and its methods are operators from
  a queue to a queue, with the offsets, counters and index arithmetic of the code. A read
  carries the commands that joined it, and each command the writes that were
  acknowledged when it came, which is what `stale` compares the answer with. `ApplyReads` is
  one Ready: advance, answer, and clear after a role change, in this order. Answers of the
  leader are lost, late and out of order. Time is the bit `old` of a read.
* **SnapApply.** A brane is a set of cells of the key space for each index, and its data
  at index i is a value that names brane and index. `kv` and `log` are the two engines, which are
  written one after the other: a Ready with a snapshot is `HandleReady` and `PostReady`, a
  destruction is `DestroyPeer` (or `MaybeDestroy`, for an uninitialized peer) and `DestroyEnd`.
  `status` is the atomic that a peer shares with its task; a task that outlives its peer keeps the
  last value (`Orphan`). `apply_snap` is one action for each write and each look at the status.
  `cones` are the deletions put off for readers, whose end is a free choice. `clear_extra_data`
  deletes two ranges, between the starts and between the ends of the old and the new cone. Files are collected
  whether or not a job has registered them, since the registry is looked at when files are listed
  and not when they are deleted. `Crash` loses the
  memory and starts the store from the disk.

External parts (marked so in the map): the Raft library (terms, log, votes, read
index), crossbeam channels, the executor of futures, transaction clients and the
timestamp oracle, the clock.

## 3. What the runs show

| run | instance | distinct states | shows |
|---|---|---|---|
| `fsm` | 2 clients, 2 pollers, 3 messages, fair | 111,242 | one owner, no panic, no lost wake-up; implements `FsmOwner`; mail is served; a closed FSM is dropped |
| `batch` | 2 FSMs and control FSM, 1 poller, batch size 1, 4 messages, fair | 310,363 | an FSM is in one place, never lost; marks name the right FSM through every swap; no FSM starves behind a busy batch, unless its poller keeps the control FSM for ever; shutdown ends the poller |
| `router` | 2 clones, 2 addresses, 3 mailboxes | 425,489 | open means registered; stale caches hide nothing; the unwrap is safe |
| `bchan` | 2 senders, notify size 2, 3 messages, fair | 302,166 | no stall, flushes get through, nothing lost; backlogs end; the stream ends |
| `locks` | 2 threads, 2 keys, fair | 6,485 | no entry of a dead handle stays; locking in order; every call ends |
| `resolved` | 2 transactions, timestamps to 5 | 3,440,892 | resolved is final; the resolver has the applied locks |
| `proposals` | 2 requests, 3 terms, log of 4, splits of other leaders, fair | 136,961 | the checker is right; nothing it let through is rejected for its epoch by commands of its own term; callbacks once, with the right answer; who waits for an admin command is answered |
| `lease` | lease = timeout = 2, clock to 4, 3 terms, read ids, one read index request | 1,726,155 | no read is served after another leader may exist; the shared lease never outlasts the peer's; shared times and snapshots are no older than the leadership |
| `reads` | 2 commands, 2 entries and those of new leaders, 2 terms, a merge, fair | 246,588 | no unwrap, index or assertion of the queue fails; the reads with an index are a prefix, in order; no read misses a write acknowledged before it came; every read is answered |
| `snapshot` | 2 branes, 2 cells, logs to 2, one creation, one crash, fair | 243,245 | Normal means the data of the index; a start succeeds, unless an old log reaches the snapshot uncommitted; a job finds its file, unless an earlier job for it was cancelled; destroyed peers stay away; jobs and removals end |

Deadlock is not checked: every model has bounds on what is sent, and most have a
shutdown, after which nothing is left to do. Waiting for ever is instead the subject
of the liveness properties and of `NoStall` and `NoLostWakeup`.

Each module has a type invariant `TypeOK`. It is checked as a conjunct of an invariant about
the same state (`MarksRight`, `NoDeadEntry`, `LocksRight`, `CalledOnce`, `RemoteWithin`, `JobRight`, and
`NoPanic` of `ReadQueue`), and proved where there are theorems.

### Findings

Two runs are expected to fail; each states a sentence of the repository's comments.

* `locks_mutex` (`MutualExclusion`): the `Drop` of a key handle removes whatever the
  table has for its key. A thread that lost the race to insert drops its unused
  handle and takes the winner's entry out of the table, after which a third thread
  can lock the key too, and reads do not see the lock.
* `proposals_conflict` (`NoConflictPanic`): `propose_check_epoch` passes the version flag
  twice, so a conf change does not see a prepare merge under way and the assertion
  of `post_propose` fails.

Three more statements are defined and not among the checked properties, because the models
refute them. Put one as the only INVARIANT into the named configuration to see the behaviour.

* `ForceReachable` (`Router.cfg`): a closed mailbox left in a clone's cache may
  answer Full, because the length is looked at before the connected flag. `force_lightlike`
  takes the entry as valid and forces the message into the closed mailbox, although
  another one is registered at the address. The other kinds of call fall back to
  the map only if the answer is Disconnected; a Full answer there is an
  allowed outcome, which is why `SteadyReachable` holds.
* `JoinedFresh` (`ReadQueue.cfg`): a read may join the last request of the queue, also one
  that the peer made as a follower, before it became leader. The index it gets is the commit index of
  that moment, which on a new leader may lie before writes that its predecessor acknowledged.
  `ReadFresh` speaks of the reads with a request of their own.
* `Recoverable` (`SnapApply.cfg`): a Ready with a snapshot writes the kv engine first. If the
  log of before reaches the snapshot's index without being committed so far and the store
  stops before the second write, `recover_from_applying_state` compares last indexes only and
  keeps the old log, and `validate_states` refuses the start. The comments at
  `peer_storage.rs:429` and `1388` say that the saved copy is there for this moment. `Recovers` leaves
  out exactly this case (`OldLog`).

An observation from `BatchSystem`: a batch that has the control FSM is never found empty, and `fetch_fsm` returns
before it looks at the channel (`batch.rs:250`). If the control FSM always has new mail and the batch is full of FSMs that
have too, the poller reads the channel never again. `NoStarvation` therefore assumes that
the poller does not keep the control FSM for ever; without this premise TLC finds the behaviour. The store
FSM gets mail from ticks and from messages to branes without a peer, so that staying busy for ever takes
a permanent overload.

Three further observations from `SnapApply`. The file of a cancelled job may be collected
(`on_gc_snap` sees a state that is no longer Applying) while the kv engine still says Applying; if the store
stops before the peer is destroyed, the job that the restart schedules fails, and the peer
panics at `peer_storage.rs:1251`, where a TODO asks for this case. `JobRight` leaves it out by the ghost
`lost`. And the tombstone of an uninitialized peer names no peer, so a late message can create the
same id again; `DestroyedStays` is about tombstones that name one. Last, the ranges that
`clear_extra_data` deletes are the difference of the two cones only if these meet. With cones `{1}` and then `{3}`
it would delete cell 2 as well, which another brane may hold. Without merges a brane only gives
cells away and its cones always meet, which is what `ConesAssumption` says.

### Bounds

The bounds are the smallest at which the cases in the hazard list happen. Two
clients and two pollers give every pair of operations on one FSM, and a third
message lets one arrive at every gap of a release. With two FSMs and a batch size of
one an FSM waits in the channel behind a full batch, and a batch that kept an FSM takes the other
one too, so that a swap_remove moves an entry that is itself marked; the four messages reach both FSMs again
while they are released (the theorems about this module are for any number). That run has one poller: with two, a starved FSM is taken by
the other one and the property would say nothing. What a second thread
does to an FSM during a release is in `FsmState`, with two pollers; in `BatchSystem` it
is a sender that puts the FSM back into the scheduler channel. Three mailboxes on
two addresses allow one replacement and one other address. Two senders and a notify
size of two give a sender that counts while another notifies. Two threads that lock
more than once meet each other's dying handles, and two keys are needed for a circular wait. Timestamps up
to five let a transaction start and commit around a fetched minimum. Three terms let a peer
lose its leadership, have its entries overwritten and lead again. The clock runs to
twice the lease, so that a lease of the first leadership can meet a second one. Two commands make a
queue with an answered and an unanswered read, a joined read, and answers in the wrong
order; the merge at the second entry stops the queue in the middle. In `snapshot`, brane A gives up
the second of its two cells by a snapshot and brane B gets it by another, so that a put-off
deletion, a destruction and a job of different branes meet on one cell; the one
creation lets a destroyed peer come back, the one crash falls between any two writes. For each
property, the deliberate mistake listed with it is found within the same bounds.
Symmetry is used in `router` and `proposals_conflict`, which check safety only.

### Fairness

`FsmState` and `BatchSystem`: a running thread goes on with the operation it began,
and a pool thread returns to its channel; this is the operating system's scheduler.
`Receive` is strongly fair, since each round of a poller takes messages before it looks
at `is_stopped`. Nobody is obliged to send, close or shut down. `BatchChannel`: a sender finishes a
call it began and an executor polls a task that was woken; a spurious poll is never
owed. `LockTable`: threads finish their calls and drop their guards. `Proposals`: the
batch system runs the FSMs that have work (this is what the first two models show),
and a *leader* commits the entries of its log; nothing is assumed of a follower, nor
that there ever is another leader. `ReadQueue`: the peer handles its Readies and applies what is
committed, the base tick goes on, and an answer that is asked for again and again arrives in the
end; `Answered` speaks of peers that stop starting elections, since each candidacy loses the requests
under way. `SnapApply`: the worker runs while it has a task, so the engine does not stall for ever, and a
peer with something to do is polled; nobody is obliged to send a snapshot, to collect files or to crash. In these
two modules and in `BatchSystem` weak fairness is written out with the states in which the actions are enabled.

### Assumptions about the Raft group in LeaderLease

Clocks run at one rate on all stores, and the election timeout is no shorter than the
maximal lease, which `Config::validate` enforces. A peer asked to take over by
`MsgTimeoutNow` can do so only until a quorum holds an entry proposed after the
message was sent: links are FIFO and a candidate with a shorter log gets no vote. A Ready
with the follower role is handled before the peer is elected again. `find_propose_time`
may return the time of an earlier proposal than the one asked for, because an index found in the
second slice of the queue's ring buffer is used for the whole queue; an earlier time only
shortens the lease, and the model allows every such choice.

## 4. What is proved

TLAPS checks these for every value of the constants.

* **FsmState** (`FsmStateProofs`, for any clients, pollers and number of messages):
  `Ownership`, `PanicFree`, `WakeupKept`, `TypeCorrect` and `Refinement`, the safety part of
  `FsmOwner`. None of the properties is inductive alone: that the slot is full when a
  thread has won the compare-and-swap depends on no other thread being between its
  two atomics. `IInv` therefore says that at most one thread *claims* the FSM, from the
  operation that won it to the one that gives it away, what status and slot are at
  each point of a claim (`Claim`), and how the length a releaser declared relates to what
  the FSM has seen (`Declared`, `Roused`). Each action has a lemma, one step per
  conjunct it can disturb.
* **BatchSystem** (`BatchSystemProofs`, for any FSMs and pollers, batch size and number of messages):
  `NoFsmTwice` (`OnePlace`), `IndicesStayRight` (`MarksRight`), `BatchInvariance`. That the last
  mark names the right FSM after a `swap_remove` depends on the order of the marks: `BatchRight` says
  that they go up through the batch, and that the FSM which `release` swapped out was behind all marks
  that are left, so that only positions no mark names have changed. `Unique` is `OnePlace` written
  place by place: an FSM is once in the channel or once in the batch of one poller or in its
  mailbox. That a batch never gets a second control FSM, where `push` would panic, follows from it.
  `ShutRight` is there for the end: `Empty` is in the channel and a poller stops
  only when all mailboxes are closed, so that an FSM which a stopping poller drops was closed. The lemmas
  about `Append`, `Tail`, swap and pop (`Once`, `In` of the result) are proved by cases on the position, so no
  induction is needed.
* **Router** (`RouterProofs`, for any clones and mailboxes and finite sets of addresses):
  `OpenRegistered`, `CacheSound`, `Reachable`, `ForceSafe`, `TypeCorrect`. `IInv` adds that the map is
  injective and holds only open mailboxes (`MapRight`), that a mailbox a call has found is
  the registered one or on its way out (`CallRight`), and what a call with a steady address
  may rely on (`SteadyRight`).
* **BatchChannel** (`BatchChannelProofs`, for any senders, messages, notify size and batch size):
  `NoStallEver`, `FlushEver`, `NothingLost`, `NotifierUnique`, `TypeCorrect`. The heart is
  `Quiet`: once the receiver is registered and found the channel empty, either something
  will wake it, or the messages it missed are at most those counted in `pending` plus
  those of senders that are about to count. Cardinalities of sets of senders need the
  finite-set theorems; `Moved` and `Kept` say how they change with a program counter.
* **LockTable** (`LockTableProofs`, for any finite set of threads and of keys): `NoEntryStaysDead`
  (`NoDeadEntry`) and `LockTableInvariance`. A handle dies with its last guard, and the thread that drops it then
  removes the entry *of its key*. The entry is that of the dying handle only if a handle is known for one
  key (`OneKey`), and a handle not yet inserted is known to nobody (`OwnUnknown`); `ThreadRight` says what a thread at
  each point of `lock_key` has still to lock. `NoDeadEntry` holds in spite of the finding above
  about `MutualExclusion`: the removal by the wrong thread takes an entry away, and never leaves a dead one.
* **LeaderLease** (`LeaderLeaseProofs`, for any lease and election timeout with the first no longer than the
  second, any seconds, slots and grains in which a second has a slot for each multiple of the grain, and without regard
  to the bounds on clock, terms, proposals and reads): `ReadsAreRight` (`ReadRight`), `SnapshotsAreRight` (`SnapshotRight`), `RemotesEndInTime`
  (`RemoteWithin`), `LeaseInvariance`. The argument goes from the Raft group to the reader: when another leader
  may be there (`RaftRight`, `Quiet`); the times of entries and read index requests that a quorum has
  are bounded by its last contact (`PropsRight`, `ReadsRight`); so a valid lease
  ends no later than an election timeout after that contact, and one under a transfer is suspect (`LeaseRight`); of
  all remote leases ever made only the current one is not expired, and the rounding of the 64-bit form
  never makes it longer (`CellsRight`); the copies of the reader are of this term or of an earlier one,
  whose lease is expired (`CopiesRight`); and a reader that was let in has a time at which the lease was
  right (`ThreadRight`). The conversion lemma (`u64_to_timespec(timespec_to_u64(t)) <= t`) is proved from
  the facts about quotient and remainder.
* **SnapApply** (`SnapApplyProofs`, for any finite set of branes, any ids, any number of
  creations and crashes, and any cones, which for the last two are intervals that meet those of the same brane): `RecoversAlways`, `DestroyedStaysAlways`, `NoDestroyPanic`, `DataRightAlways` (`DataRight`),
  `JobRightAlways` (`JobRight`). Whether the
  engines agree after a crash depends on who may still write to them, so `IInv` says what is on disk at every
  point of a peer's life (`DiskRight`, `PeerRight`), that the tasks which share the status of a
  peer are at most one for each brane (`OneTask`), and that such a task waits for a peer in state
  Applying, or was cancelled and will stop at its first look at the status (`TaskRight`, `RunsRight`,
  `Dropped`). From this follows that the last write of `apply_snap` finds the state Applying it has
  read, and never a tombstone. The data in the cells needs a second invariant, `DInv`, inductive relative to
  the first: branes hold or claim disjoint cells (`Apart`, which `check_snapshot` keeps); the extra data of a snapshot lies in the old cone (`RangesOld`, from `ConesAssumption`); a deletion in the worker's queue
  that touches cells of a brane comes before the task that loads them (`DestroysRight`), and one that was put off
  touches only cells of branes that are not Normal, and none that the running job has cleared (`ConesRight`); the job
  loads the snapshot of the state it has read (`LoadRight`); a file that a pending or Applying brane needs is there,
  or was collected after a cancelled job, and a peer in state Applying has not forgotten its job (`FilesRight`). TLC checks `DInv` in the
  `snapshot` instance as well (put it as an INVARIANT into `SnapApply.cfg`).

The assumptions are the named `ASSUME`s of the modules (finite sets of senders,
threads, keys, addresses and branes, positive sizes, cones that are not empty and at the beginning disjoint, and for the data intervals that meet, at least as many shutdown markers
as pollers, a lease no longer than the election timeout, `None` distinct from everything else); TLC evaluates them in
every run.

Only model-checked:

* all liveness (`FairSpec` properties, `Completes`, `Answered` and the others), which with `ENABLED` is out of
  the prover's reach;
* `ResolvedRight` and `LocksRight` of `ResolvedTs`: the locks a resolver must have are a fold over the
  applied entries, and what a fold computes for every log needs induction over data;
* `CheckedNotRejected`, `CheckerRight`, `CalledOnce`, `AnswerRight` of `Proposals` and `NoPanic`, `PrefixRight`, `ReadFresh` of
  `ReadQueue`: the same, for the folds over queues of proposals and reads.

No module uses `RECURSIVE` operators.

## 5. Not modelled

The models cover a small share of the repository's lines. Most of it is query
execution, data types, parsers, engine wrappers and generated or test code, without state
that lives between two requests; the effort went to the parts where threads, messages and
restarts meet. Of those parts these have no model yet:

1. The apply FSM's yield, merge wait and resume, and its restart from the applied index.
2. Splits, merges and conf changes with the store metadata; the merge of branes whose snapshot
   covers other branes (`atomic_snap_branes`), and the first and compacted index of the log.
3. The CDC endpoint: register, deregister and observe ids, composed with `ResolvedTs` and `BatchChannel`.
4. Import mode and SST files, the encryption key manager, replication groups, workers, the
   synchroniser of facts, the loosely bounded channel (`mpsc/mod.rs`) and the LRU cache, which the
   modelled parts use by what they see of them.
5. Theorems about `ResolvedTs`, `Proposals` and `ReadQueue`.

What stays out: query execution and data types (pure computation over large values),
engine wrappers and object stores (I/O), the placement client (its service is not
here), the front end, statistics, configuration, metrics and test crates. The transaction layer above the store is not in the repository; `ResolvedTs` takes
its rules as assumptions about clients. Within the modelled parts, these are left
out: the generation and sending of snapshots, their file format, log terms and
the application of entries in `SnapApply`; the max timestamp and range checks of the concurrency manager, the errors that
deregister a CDC region, snapshots and merges in `Proposals`, and splits, merges and
epochs in `LeaderLease`.

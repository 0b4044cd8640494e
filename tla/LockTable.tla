------------------------------ MODULE LockTable ------------------------------
(***************************************************************************)
(* The in-memory lock table (LSH-Tree/interlock_directorate): threads take *)
(* the mutexes of a set of keys with lock_tuplespaceInstanton, store locks *)
(* through the guards and drop them.  The table maps a key to a weak       *)
(* reference to its handle; a handle removes its key from the table when   *)
(* its last strong reference goes.  A step ends where another thread can   *)
(* come in: at an access to the table, at a mutex, at a reference count.   *)
(***************************************************************************)
EXTENDS Naturals, Sequences, FiniteSets

CONSTANTS Threads,
          Keys,      \* a set of naturals: the keys in their order
          None

ASSUME KeysAssumption == Keys \subseteq Nat /\ IsFiniteSet(Keys) /\ None \notin Nat
ASSUME ThreadsAssumption == IsFiniteSet(Threads)

\* A thread has at most one guard per key and one handle of its own besides.
Handles == 1 .. Cardinality(Threads) * (Cardinality(Keys) + 1)

VARIABLES
  table,    \* LockBlock: the handle a key's weak reference points to
  owner,    \* the thread that holds the mutex of each handle
  stored,   \* lock_store of each handle is Some
  pc,
  todo,     \* keys still to lock, in the order they will be
  own,      \* the handle lock_key made, with its guard
  target,   \* the handle found in the table
  guards    \* the handle of each guard of the thread

vars == <<table, owner, stored, pc, todo, own, target, guards>>

TypeOK ==
  /\ table \in [Keys -> Handles \cup {None}]
  /\ owner \in [Handles -> Threads \cup {None}]
  /\ stored \in [Handles -> BOOLEAN]
  /\ pc \in [Threads -> {"idle", "make", "insert", "upgrade", "wait", "cleanup", "retry",
                         "locked", "unlock", "deref", "remove", "done"}]
  /\ todo \in [Threads -> Seq(Keys)]
  /\ own \in [Threads -> Handles \cup {None}]
  /\ target \in [Threads -> Handles \cup {None}]
  /\ guards \in [Threads -> [Keys -> Handles \cup {None}]]
  /\ \A t \in Threads :
       own[t] # None <=> pc[t] \in {"insert", "upgrade", "wait", "cleanup", "retry"}

Init ==
  /\ table = [k \in Keys |-> None]
  /\ owner = [h \in Handles |-> None] /\ stored = [h \in Handles |-> FALSE]
  /\ pc = [t \in Threads |-> "idle"] /\ todo = [t \in Threads |-> <<>>]
  /\ own = [t \in Threads |-> None] /\ target = [t \in Threads |-> None]
  /\ guards = [t \in Threads |-> [k \in Keys |-> None]]

Goto(t, from, to) == pc[t] = from /\ pc' = [pc EXCEPT ![t] = to]
Key(t) == Head(todo[t])

\* The strong references to a handle; a target is one only once it is upgraded.
Strong(h, t) ==
  \/ own[t] = h \/ \E k \in Keys : guards[t][k] = h
  \/ target[t] = h /\ pc[t] \in {"wait", "cleanup"}
Alive(h) == \E t \in Threads : Strong(h, t)
Unused(h) == /\ ~Alive(h) /\ \A k \in Keys : table[k] # h
             /\ \A t \in Threads : target[t] # h
-----------------------------------------------------------------------------
(***************************************************************************)
(* lock_tuplespaceInstanton and lock_key.                                  *)
(***************************************************************************)
\* The keys of S in some order, and in theirs: there is one such sequence.
Orders(S) == {q \in [1 .. Cardinality(S) -> S] : \A i, j \in 1 .. Cardinality(S) : i # j => q[i] # q[j]}
Sorted(S) == {q \in Orders(S) : \A i, j \in 1 .. Cardinality(S) : i < j => q[i] < q[j]}

\* Mutated form of Begin: the keys are locked in the order they come in.
BeginUnsorted(t, S) ==
  /\ Goto(t, "idle", "make")
  /\ \E order \in Orders(S) : todo' = [todo EXCEPT ![t] = order]
  /\ UNCHANGED <<table, owner, stored, own, target, guards>>

\* lock_tuplespaceInstanton for some set of keys.
Begin(t, S) ==
  /\ Goto(t, "idle", "make")
  /\ \E order \in Sorted(S) : todo' = [todo EXCEPT ![t] = order]
  /\ UNCHANGED <<table, owner, stored, own, target, guards>>

\* A fresh handle; nobody else knows it, so that its mutex is taken at once.
Make(t) ==
  /\ Goto(t, "make", "insert")
  /\ \E h \in Handles :
       /\ Unused(h) /\ \A g \in 1 .. h - 1 : ~Unused(g)
       /\ own' = [own EXCEPT ![t] = h]
       /\ owner' = [owner EXCEPT ![h] = t]
       /\ stored' = [stored EXCEPT ![h] = FALSE]
  /\ UNCHANGED <<table, todo, target, guards>>

\* The guard of key k is there: on to the next key.
Guarded(t, h) ==
  /\ guards' = [guards EXCEPT ![t][Key(t)] = h]
  /\ todo' = [todo EXCEPT ![t] = Tail(todo[t])]
  /\ own' = [own EXCEPT ![t] = None] /\ target' = [target EXCEPT ![t] = None]

NextKey(t) == IF Len(todo[t]) = 1 THEN "locked" ELSE "make"

\* get_or_insert: the weak reference in the entry is the new one ...
InsertNew(t) ==
  /\ Goto(t, "insert", NextKey(t)) /\ table[Key(t)] = None
  /\ table' = [table EXCEPT ![Key(t)] = own[t]]
  /\ Guarded(t, own[t])
  /\ UNCHANGED <<owner, stored>>

\* ... or that of another handle.
InsertFound(t) ==
  /\ Goto(t, "insert", "upgrade") /\ table[Key(t)] # None
  /\ target' = [target EXCEPT ![t] = table[Key(t)]]
  /\ UNCHANGED <<table, owner, stored, todo, own, guards>>

\* upgrade: the loop goes round again when the handle is dead.
Upgrade(t) ==
  /\ Goto(t, "upgrade", IF Alive(target[t]) THEN "wait" ELSE "retry")
  /\ target' = [target EXCEPT ![t] = IF Alive(target[t]) THEN target[t] ELSE None]
  /\ UNCHANGED <<table, owner, stored, todo, own, guards>>

\* dagger().await on the handle of the table.
Acquire(t) ==
  /\ Goto(t, "wait", "cleanup") /\ owner[target[t]] = None
  /\ owner' = [owner EXCEPT ![target[t]] = t]
  /\ UNCHANGED <<table, stored, todo, own, target, guards>>

\* Mutated form of DropKey: the Drop of a handle leaves the table alone.
DropKeyNot(k) == UNCHANGED table

\* Drop for VisorCypherKey.
DropKey(k) == table' = [table EXCEPT ![k] = None]

\* lock_key returns: its own guard and handle go out of scope, and the handle's Drop runs.
Cleanup(t) ==
  /\ Goto(t, "cleanup", NextKey(t))
  /\ DropKey(Key(t))
  /\ owner' = [owner EXCEPT ![own[t]] = None]
  /\ Guarded(t, target[t])
  /\ UNCHANGED stored

\* The next round of the loop drops them too.
Retry(t) ==
  /\ Goto(t, "retry", "make")
  /\ DropKey(Key(t))
  /\ owner' = [owner EXCEPT ![own[t]] = None] /\ own' = [own EXCEPT ![t] = None]
  /\ UNCHANGED <<stored, todo, target, guards>>
-----------------------------------------------------------------------------
(***************************************************************************)
(* The guards.                                                             *)
(***************************************************************************)
\* with_lock of a guard stores the lock that readers must see.
StoreLock(t, k) ==
  /\ pc[t] = "locked" /\ guards[t][k] # None
  /\ stored' = [stored EXCEPT ![guards[t][k]] = TRUE]
  /\ UNCHANGED <<table, owner, pc, todo, own, target, guards>>

\* Drop for VisorCypherKeyGuard, guard by guard: the lock is cleared ...
ClearLock(t, k) ==
  /\ guards[t][k] # None /\ Goto(t, "locked", "unlock")
  /\ stored' = [stored EXCEPT ![guards[t][k]] = FALSE]
  /\ todo' = [todo EXCEPT ![t] = <<k>>]
  /\ UNCHANGED <<table, owner, own, target, guards>>

\* ... the mutex guard goes first ...
Unlock(t) ==
  /\ Goto(t, "unlock", "deref")
  /\ owner' = [owner EXCEPT ![guards[t][Key(t)]] = None]
  /\ UNCHANGED <<table, stored, todo, own, target, guards>>

\* ... then the reference, and if it was the last the Drop of the handle follows.
Deref(t) ==
  /\ Goto(t, "deref", IF \E u \in Threads \ {t} : Strong(guards[t][Key(t)], u)
                      THEN "locked" ELSE "remove")
  /\ guards' = [guards EXCEPT ![t][Key(t)] = None]
  /\ UNCHANGED <<table, owner, stored, todo, own, target>>

RemoveKey(t) ==
  /\ Goto(t, "remove", "locked")
  /\ DropKey(Key(t))
  /\ UNCHANGED <<owner, stored, todo, own, target, guards>>

End(t) ==
  /\ Goto(t, "locked", "done")
  /\ \A k \in Keys : guards[t][k] = None
  /\ todo' = [todo EXCEPT ![t] = <<>>]
  /\ UNCHANGED <<table, owner, stored, own, target, guards>>

Step(t) ==
  \/ Make(t) \/ InsertNew(t) \/ InsertFound(t) \/ Upgrade(t) \/ Acquire(t) \/ Cleanup(t) \/ Retry(t)
  \/ Unlock(t) \/ Deref(t) \/ RemoveKey(t) \/ End(t)
  \/ \E k \in Keys : ClearLock(t, k)

Next == \E t \in Threads : \/ \E S \in (SUBSET Keys) \ {{}} : Begin(t, S)
                           \/ Step(t)
                           \/ \E k \in Keys : StoreLock(t, k)

\* A thread that is in a call, or owns guards, goes on.
Spec == Init /\ [][Next]_vars /\ \A t \in Threads : WF_vars(Step(t))
-----------------------------------------------------------------------------
(***************************************************************************)
(* Properties.                                                             *)
(***************************************************************************)
\* Thread t holds the guard, with its mutex, of key k.
Holds(t, k) == guards[t][k] # None /\ owner[guards[t][k]] = t

\* An entry of the table points to a living handle, or its removal is under way: a
\* thread in the loop of lock_key never spins on a dead entry that nobody removes.
NoDeadEntry ==
  /\ TypeOK
  /\ \A k \in Keys : table[k] # None =>
       Alive(table[k]) \/ \E t \in Threads : pc[t] = "remove" /\ Key(t) = k

\* What makes it so.  A thread in lock_key has the keys it must still lock ahead of it, each
\* once and none with a guard; one that drops a guard has its key; one that looks at the
\* handle of another has it as its target.
ThreadRight(t) ==
  /\ pc[t] \in {"make", "insert", "upgrade", "wait", "cleanup", "retry"} =>
       /\ todo[t] # <<>>
       /\ \A i, j \in DOMAIN todo[t] : todo[t][i] = todo[t][j] => i = j
       /\ \A i \in DOMAIN todo[t] : guards[t][todo[t][i]] = None
  /\ pc[t] \in {"unlock", "deref", "remove"} => todo[t] # <<>>
  /\ pc[t] \in {"unlock", "deref"} => guards[t][Key(t)] # None
  /\ pc[t] = "idle" => \A k \in Keys : guards[t][k] = None
  /\ target[t] # None <=> pc[t] \in {"upgrade", "wait", "cleanup"}

\* Handle h is known as that of key k.
Known(h, k) == \/ table[k] = h
               \/ \E t \in Threads : guards[t][k] = h \/ (target[t] = h /\ Key(t) = k)

\* A handle is known for one key; the one lock_key has just made is known to nobody else.
OneKey == \A h \in Handles, j, k \in Keys : Known(h, j) /\ Known(h, k) => j = k
OwnUnknown == \A t \in Threads : own[t] # None =>
  (\A k \in Keys : ~Known(own[t], k)) /\ \A u \in Threads : own[u] = own[t] => u = t

IInv == NoDeadEntry /\ (\A t \in Threads : ThreadRight(t)) /\ OneKey /\ OwnUnknown

\* lock_tuplespaceInstanton always ends, and the guards are released: threads that
\* lock sets of keys never wait for each other in a circle, nor loop for ever.
Completes == \A t \in Threads : (pc[t] = "make") ~> (pc[t] = "done")

\* What lock_key promises: it "acquires a mutex of the key".
MutualExclusion == \A k \in Keys, t, u \in Threads : Holds(t, k) /\ Holds(u, k) => t = u
=============================================================================

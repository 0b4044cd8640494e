------------------------------- MODULE Router -------------------------------
(***************************************************************************)
(* The address book of batch_system/src/router.rs: one shared map of       *)
(* mailboxes behind a mutex, and in each clone of the Router an unshared   *)
(* cache of mailboxes.  Each clone is used by one thread.  A mailbox is    *)
(* open or closed here; whether an open one is full is left to chance      *)
(* (the limit of the channel is looked at now and then only), and so is    *)
(* the victim of an eviction (the recency order is left out).              *)
(***************************************************************************)
EXTENDS Naturals, FiniteSets

CONSTANTS Routers,    \* the clones of the router
          Addrs,      \* the addresses
          Mailboxes,  \* the mailboxes that may ever be registered
          None,       \* no mailbox, no address
          InitCap     \* capacity of a new cache (1024 in the code)

ASSUME NoneAssumption == None \notin Mailboxes \cup Addrs
ASSUME AddrsAssumption == IsFiniteSet(Addrs)
ASSUME InitCapAssumption == InitCap \in Nat \ {0}

VARIABLES
  normals,  \* the shared map
  caches,   \* the cache of each clone
  cap,      \* its capacity
  used,     \* the mailboxes registered so far
  closed,   \* the mailboxes whose sender is not connected
  holder,   \* the clones that hold the mutex (at most one)
  todo,     \* the mailboxes the holder has still to close
  pc, kind, addr, conn, box,  \* the call each clone is in, and its locals
  res,      \* the result of the call
  steady,   \* history: through the call the address had one registered mailbox
  panicked  \* unwrap on None

vars == <<normals, caches, cap, used, closed, holder, todo, pc, kind, addr, conn,
          box, res, steady, panicked>>
shared == <<normals, used, closed, holder, todo>>

Boxes == Mailboxes \cup {None}
Kinds == {"try", "force", "mailbox"}
Results == {"none", "Ok", "Full", "Disconnected", "NotExist"}

TypeOK ==
  /\ normals \in [Addrs -> Boxes] /\ caches \in [Routers -> [Addrs -> Boxes]]
  /\ cap \in [Routers -> Nat]
  /\ used \subseteq Mailboxes /\ closed \subseteq used /\ todo \subseteq used
  /\ holder \subseteq Routers
  /\ pc \in [Routers -> {"idle", "cached", "lookup", "found", "force", "done", "closing"}]
  /\ kind \in [Routers -> Kinds] /\ addr \in [Routers -> Addrs \cup {None}]
  /\ conn \in [Routers -> BOOLEAN] /\ box \in [Routers -> Boxes]
  /\ res \in [Routers -> Results] /\ steady \in [Routers -> BOOLEAN]
  /\ panicked \in BOOLEAN

Init ==
  /\ normals = [a \in Addrs |-> None]
  /\ caches = [r \in Routers |-> [a \in Addrs |-> None]]
  /\ cap = [r \in Routers |-> InitCap]
  /\ used = {} /\ closed = {} /\ holder = {} /\ todo = {}
  /\ pc = [r \in Routers |-> "idle"]
  /\ kind = [r \in Routers |-> "try"] /\ addr = [r \in Routers |-> None]
  /\ conn = [r \in Routers |-> TRUE] /\ box = [r \in Routers |-> None]
  /\ res = [r \in Routers |-> "none"] /\ steady = [r \in Routers |-> FALSE]
  /\ panicked = FALSE

Cached(r) == {a \in Addrs : caches[r][a] # None}
Registered == {a \in Addrs : normals[a] # None}
\* The cache of r cut down to the addresses in keep.
Keep(r, keep) == [a \in Addrs |-> IF a \in keep THEN caches[r][a] ELSE None]
-----------------------------------------------------------------------------
(***************************************************************************)
(* try_lightlike, force_lightlike and mailbox: check_do and its closure.   *)
(***************************************************************************)
Begin(r, a, k) ==
  /\ pc[r] = "idle" /\ pc' = [pc EXCEPT ![r] = "cached"]
  /\ kind' = [kind EXCEPT ![r] = k] /\ addr' = [addr EXCEPT ![r] = a]
  /\ conn' = [conn EXCEPT ![r] = TRUE]
  /\ steady' = [steady EXCEPT ![r] = normals[a] # None]
  /\ UNCHANGED <<shared, caches, cap, box, res, panicked>>

\* What the closure may return for mailbox m.  The length of the channel is looked
\* at before its state, so that a closed mailbox too may report Full.
Outcomes(r, m) ==
  IF kind[r] = "mailbox" THEN IF m \in closed THEN {"Disconnected"} ELSE {"Ok"}
  ELSE {"Full"} \cup IF m \in closed THEN {"Disconnected"} ELSE {"Ok"}

\* The outcome ends check_do; on Full force_lightlike goes on.
Settle(r, o) ==
  IF o = "Full" /\ kind[r] = "force"
  THEN pc' = [pc EXCEPT ![r] = "force"] /\ UNCHANGED res
  ELSE pc' = [pc EXCEPT ![r] = "done"] /\ res' = [res EXCEPT ![r] = o]

\* The cached mailbox first.
TryCached(r) ==
  /\ pc[r] = "cached"
  /\ LET m == caches[r][addr[r]] IN
       \/ /\ m = None
          /\ pc' = [pc EXCEPT ![r] = "lookup"] /\ UNCHANGED <<conn, res>>
       \/ /\ m # None
          /\ \E o \in Outcomes(r, m) :
               IF o = "Disconnected"
               THEN /\ pc' = [pc EXCEPT ![r] = "lookup"] /\ UNCHANGED res
                    /\ conn' = [conn EXCEPT ![r] = FALSE]
               ELSE Settle(r, o) /\ UNCHANGED conn
  /\ UNCHANGED <<shared, caches, cap, kind, addr, box, steady, panicked>>

\* The entry of a mailbox that turned out closed is dropped from the cache.
Forget(r) == IF conn[r] THEN caches' = caches
             ELSE caches' = [caches EXCEPT ![r] = Keep(r, Addrs \ {addr[r]})]

\* Mutated form of LookupNone: the call gives up on the cached mailbox alone.
LookupNoneStale(r) ==
  /\ pc[r] = "lookup" /\ holder = {}
  /\ normals[addr[r]] = None \/ ~conn[r]
  /\ Forget(r)
  /\ pc' = [pc EXCEPT ![r] = "done"] /\ res' = [res EXCEPT ![r] = "NotExist"]
  /\ UNCHANGED <<shared, cap, kind, addr, conn, box, steady, panicked>>

\* Then the map, under the mutex.
LookupNone(r) ==
  /\ pc[r] = "lookup" /\ holder = {}
  /\ normals[addr[r]] = None
  /\ Forget(r)
  /\ pc' = [pc EXCEPT ![r] = "done"] /\ res' = [res EXCEPT ![r] = "NotExist"]
  /\ UNCHANGED <<shared, cap, kind, addr, conn, box, steady, panicked>>

\* A mailbox is found and cloned; a cache too small or too large for the map is
\* resized, and loses what no longer fits.
LookupSome(r) ==
  /\ pc[r] = "lookup" /\ holder = {}
  /\ normals[addr[r]] # None
  /\ box' = [box EXCEPT ![r] = normals[addr[r]]]
  /\ pc' = [pc EXCEPT ![r] = "found"]
  /\ LET cnt == Cardinality(Registered)
         n   == Cardinality(Cached(r))
     IN  IF cnt > cap[r] \/ cnt < cap[r] \div 2
         THEN /\ cap' = [cap EXCEPT ![r] = cnt]
              /\ \E keep \in SUBSET Cached(r) :
                   /\ Cardinality(keep) = IF n > cnt THEN cnt ELSE n
                   /\ caches' = [caches EXCEPT ![r] = Keep(r, keep)]
         ELSE UNCHANGED <<cap, caches>>
  /\ UNCHANGED <<shared, kind, addr, conn, res, steady, panicked>>

\* LruCache::insert: a full cache evicts another entry.
Insert(r, a, m) ==
  \E keep \in SUBSET Cached(r) :
    /\ IF a \in Cached(r) \/ Cardinality(Cached(r)) < cap[r]
       THEN keep = Cached(r)
       ELSE a \notin keep /\ Cardinality(keep) = Cardinality(Cached(r)) - 1
    /\ caches' = [caches EXCEPT ![r] = [Keep(r, keep) EXCEPT ![a] = m]]

\* Mutated form of TryFound: only a mailbox that took the message is cached.
TryFoundOk(r) ==
  /\ pc[r] = "found"
  /\ \E o \in Outcomes(r, box[r]) :
       /\ Settle(r, o)
       /\ CASE o = "Ok"           -> Insert(r, addr[r], box[r])
            [] o = "Full"         -> UNCHANGED caches
            [] o = "Disconnected" -> Forget(r)
  /\ UNCHANGED <<shared, cap, kind, addr, conn, box, steady, panicked>>

\* The closure on the mailbox found; one that does not turn out closed is cached.
TryFound(r) ==
  /\ pc[r] = "found"
  /\ \E o \in Outcomes(r, box[r]) :
       /\ Settle(r, o)
       /\ IF o = "Disconnected" THEN Forget(r) ELSE Insert(r, addr[r], box[r])
  /\ UNCHANGED <<shared, cap, kind, addr, conn, box, steady, panicked>>

\* force_lightlike after Full: caches.get(&addr).unwrap().force_lightlike(m).
ForceSend(r) ==
  /\ pc[r] = "force" /\ pc' = [pc EXCEPT ![r] = "done"]
  /\ LET m == caches[r][addr[r]] IN
       /\ panicked' = (panicked \/ m = None)
       /\ res' = [res EXCEPT ![r] = IF m \in closed THEN "Disconnected" ELSE "Ok"]
  /\ UNCHANGED <<shared, caches, cap, kind, addr, conn, box, steady>>

\* The caller has its result, and the locals are gone.
Return(r) ==
  /\ pc[r] = "done" /\ pc' = [pc EXCEPT ![r] = "idle"]
  /\ kind' = [kind EXCEPT ![r] = "try"] /\ addr' = [addr EXCEPT ![r] = None]
  /\ conn' = [conn EXCEPT ![r] = TRUE] /\ box' = [box EXCEPT ![r] = None]
  /\ res' = [res EXCEPT ![r] = "none"] /\ steady' = [steady EXCEPT ![r] = FALSE]
  /\ UNCHANGED <<shared, caches, cap, panicked>>
-----------------------------------------------------------------------------
(***************************************************************************)
(* Calls that change the map.  The mutex is held until the mailboxes taken *)
(* out are closed.                                                         *)
(***************************************************************************)
\* The clone takes the set out away from the map and goes on to close it.
TakeOut(r, out) ==
  /\ todo' = out
  /\ IF out = {} THEN UNCHANGED <<holder, pc>>
     ELSE holder' = {r} /\ pc' = [pc EXCEPT ![r] = "closing"]

\* Calls in progress whose address is in A no longer have a steady mailbox.
Unsteady(A) == steady' = [q \in Routers |->
                 IF pc[q] # "done" /\ addr[q] \in A THEN FALSE ELSE steady[q]]

\* Mutated form of Register: the mailbox replaced is not closed.
RegisterOver(r, a, m) ==
  /\ pc[r] = "idle" /\ holder = {} /\ m \notin used
  /\ normals' = [normals EXCEPT ![a] = m]
  /\ used' = used \cup {m}
  /\ TakeOut(r, {}) /\ Unsteady({a})
  /\ UNCHANGED <<caches, cap, closed, kind, addr, conn, box, res, panicked>>

\* register, and each entry of register_all.
Register(r, a, m) ==
  /\ pc[r] = "idle" /\ holder = {} /\ m \notin used
  /\ normals' = [normals EXCEPT ![a] = m]
  /\ used' = used \cup {m}
  /\ TakeOut(r, {normals[a]} \ {None}) /\ Unsteady({a})
  /\ UNCHANGED <<caches, cap, closed, kind, addr, conn, box, res, panicked>>

Close(r, a) ==
  /\ pc[r] = "idle" /\ holder = {}
  /\ normals' = [normals EXCEPT ![a] = None]
  /\ caches' = [caches EXCEPT ![r] = Keep(r, Addrs \ {a})]
  /\ TakeOut(r, {normals[a]} \ {None}) /\ Unsteady({a})
  /\ UNCHANGED <<cap, used, closed, kind, addr, conn, box, res, panicked>>

\* broadcast_shutdown, as far as the map and the caches go.
Shutdown(r) ==
  /\ pc[r] = "idle" /\ holder = {}
  /\ normals' = [a \in Addrs |-> None]
  /\ caches' = [caches EXCEPT ![r] = Keep(r, {})]
  /\ TakeOut(r, {normals[a] : a \in Registered}) /\ Unsteady(Addrs)
  /\ UNCHANGED <<cap, used, closed, kind, addr, conn, box, res, panicked>>

\* One mailbox.close(); after the last one the mutex is released.
CloseBox(r) ==
  /\ pc[r] = "closing" /\ holder = {r}
  /\ \E m \in todo :
       /\ closed' = closed \cup {m} /\ todo' = todo \ {m}
       /\ IF todo = {m} THEN holder' = {} /\ pc' = [pc EXCEPT ![r] = "idle"]
                        ELSE UNCHANGED <<holder, pc>>
  /\ UNCHANGED <<normals, caches, cap, used, kind, addr, conn, box, res, steady, panicked>>

Call(r) == \/ TryCached(r) \/ LookupNone(r) \/ LookupSome(r) \/ TryFound(r)
           \/ ForceSend(r) \/ Return(r)
Edit(r) == \/ \E a \in Addrs : Close(r, a) \/ \E m \in Mailboxes : Register(r, a, m)
           \/ Shutdown(r) \/ CloseBox(r)

Next == \E r \in Routers : \/ \E a \in Addrs, k \in Kinds : Begin(r, a, k)
                           \/ Call(r) \/ Edit(r)

Spec == Init /\ [][Next]_vars
-----------------------------------------------------------------------------
(***************************************************************************)
(* Properties.                                                             *)
(***************************************************************************)
\* The open mailboxes are the registered ones and those the holder of the mutex is
\* about to close: register, close and shutdown leave no mailbox open that no
\* address leads to, and close none that is registered.
OpenIsRegistered ==
  used \ closed = {normals[a] : a \in Registered} \cup todo

Gone == {"Disconnected", "NotExist"}

\* lightlike, try_lightlike and mailbox do not fail with Disconnected or NotExist when
\* the address had one mailbox registered from the start of the call to its end: a
\* stale entry of the clone's cache does not hide the new mailbox.
SteadyReachable == \A r \in Routers : steady[r] /\ kind[r] # "force" => res[r] \notin Gone

\* "Force lightlikeing message to specified address despite the capacity limit of
\* mailbox" (router.rs:210-211): force_lightlike does not fail either.
ForceReachable == \A r \in Routers : steady[r] /\ kind[r] = "force" => res[r] \notin Gone

\* m, known to a clone as the mailbox of a, still is, or is closed or about to be.
Known(m, a) == m # None => m \in used /\ (m \in closed \/ m \in todo \/ m = normals[a])

\* A clone's cache never leads to an open mailbox of another address, nor to an open
\* one that was replaced, but for the moment in which it is being closed.
CacheRight == \A r \in Routers, a \in Addrs : Known(caches[r][a], a)

\* force_lightlike finds the mailbox that reported Full in the cache, whatever
\* resize and insert evicted.
ForceFinds == ~panicked

(***************************************************************************)
(* The inductive invariant behind them, ForceReachable excepted.           *)
(***************************************************************************)
Calling == {"cached", "lookup", "found", "force"}

\* No mailbox is registered twice, or registered while it is being closed, and
\* nothing is left to close while the mutex is free.
MapRight ==
  /\ \A a, b \in Addrs : normals[a] = normals[b] /\ normals[a] # None => a = b
  /\ \A a \in Addrs : normals[a] # None =>
       normals[a] \in used /\ normals[a] \notin closed /\ normals[a] \notin todo
  /\ \A m \in used : m \in closed \/ m \in todo \/ \E a \in Addrs : normals[a] = m
  /\ todo \cap closed = {}
  /\ holder = {} => todo = {}

CallRight(r) ==
  /\ \A a \in Addrs : Known(caches[r][a], a)
  /\ pc[r] \in Calling => addr[r] \in Addrs
  /\ pc[r] = "found" => box[r] # None /\ Known(box[r], addr[r])
  /\ pc[r] = "force" => kind[r] = "force" /\ caches[r][addr[r]] # None
  /\ pc[r] # "done" => res[r] = "none"
  /\ steady[r] => pc[r] \in Calling \cup {"done"} /\ (kind[r] # "force" => res[r] \notin Gone)

\* What a call in progress with a steady address can rely on.
SteadyRight(r) == steady[r] /\ pc[r] \in Calling =>
  LET a == addr[r] IN
    /\ normals[a] # None
    /\ pc[r] = "found" => box[r] = normals[a]

\* Holds in every reachable state and is preserved by every step: it implies
\* OpenIsRegistered, CacheRight, SteadyReachable and ForceFinds.
IInv == /\ TypeOK /\ MapRight /\ ForceFinds
        /\ \A r \in Routers : CallRight(r) /\ SteadyRight(r)
=============================================================================

---------------------------- MODULE RouterProofs ----------------------------
(***************************************************************************)
(* Router keeps its inductive invariant IInv, for any number of clones,    *)
(* addresses and mailboxes, and with it its three safety properties. First *)
(* come the calls of a clone - check_do, with what it does to the clone's  *)
(* cache, and force_lightlike -, then the router's other operations.       *)
(***************************************************************************)
EXTENDS Router, FiniteSetTheorems, TLAPS

\* The map has a natural number of entries: check_do resizes a cache to it.
LEMMA CountNat == Cardinality(Registered) \in Nat
  <1>1. IsFiniteSet(Registered)
    BY AddrsAssumption, FS_Subset, Zenon DEF Registered
  <1> QED
    BY <1>1, FS_CardinalityType, Zenon

\* What a clone r relies on does not depend on another clone's locals and cache.
LEMMA OthersKept ==
  ASSUME IInv, NEW r \in Routers, UNCHANGED shared,
         caches'[r] = caches[r], pc'[r] = pc[r], kind'[r] = kind[r], addr'[r] = addr[r],
         box'[r] = box[r],
         res'[r] = res[r], steady'[r] = steady[r]
  PROVE  CallRight(r)' /\ SteadyRight(r)'
  <1>1. CallRight(r) /\ SteadyRight(r)
    BY Zenon DEF IInv
  <1>2. CallRight(r)'
    BY <1>1, Zenon DEF CallRight, Known, shared, Gone
  <1>3. SteadyRight(r)'
    BY <1>1, Zenon DEF SteadyRight, shared
  <1> QED
    BY <1>2, <1>3, Zenon

\* Beginning a call, which may find the address in the cache, keeps the invariant.
LEMMA BeginInv ==
  ASSUME IInv, NEW q \in Routers, NEW a \in Addrs, NEW k \in Kinds, Begin(q, a, k)
  PROVE  IInv'
  <1> USE DEF Calling, Gone
  <1>1. TypeOK' /\ ForceFinds'
    <2>0. TypeOK /\ ForceFinds /\ CallRight(q)
      BY Zenon DEF IInv
    <2>1. caches' \in [Routers -> [Addrs -> Boxes]]
      BY <2>0, Zenon DEF Begin, TypeOK, Boxes
    <2>2. pc' \in [Routers -> {"idle", "cached", "lookup", "found", "force", "done", "closing"}]
      BY <2>0, Zenon DEF Begin, TypeOK
    <2>3. res' \in [Routers -> Results]
      BY <2>0, Zenon DEF Begin, TypeOK, Results
    <2>4. ForceFinds' /\ panicked' \in BOOLEAN
      BY <2>0, Zenon DEF Begin, TypeOK, shared, Boxes, Kinds, Results, ForceFinds, CallRight
    <2> QED
      BY <2>0, <2>1, <2>2, <2>3, <2>4, Zenon DEF Begin, TypeOK, shared, Boxes
  <1>2. MapRight'
    BY Zenon DEF Begin, IInv, MapRight, shared
  <1>3. ASSUME NEW r \in Routers PROVE CallRight(r)' /\ SteadyRight(r)'
    <2>0. CallRight(q) /\ SteadyRight(q) /\ TypeOK /\ MapRight
      BY Zenon DEF IInv
    <2>1. CASE r # q
      BY <2>0, <2>1, OthersKept, Zenon DEF Begin, TypeOK
    <2>2. CallRight(q)'
      BY <2>0, NoneAssumption, Zenon
      DEF Begin, TypeOK, CallRight, Known, shared, Gone
    <2>3. SteadyRight(q)'
      BY <2>0, NoneAssumption, Zenon
      DEF Begin, TypeOK, CallRight, SteadyRight, Known, shared
    <2> QED
      BY <2>1, <2>2, <2>3, Zenon
  <1> QED
    BY <1>1, <1>2, <1>3, Zenon DEF IInv

\* The closure on the cached mailbox keeps the invariant.
LEMMA TryCachedInv ==
  ASSUME IInv, NEW q \in Routers, TryCached(q)
  PROVE  IInv'
  <1> USE DEF Calling, Gone
  <1>1. TypeOK' /\ ForceFinds'
    <2>0. TypeOK /\ ForceFinds /\ CallRight(q)
      BY Zenon DEF IInv
    <2>1. caches' \in [Routers -> [Addrs -> Boxes]]
      BY <2>0, Zenon DEF TryCached, TypeOK, Boxes, Outcomes, Settle
    <2>2. pc' \in [Routers -> {"idle", "cached", "lookup", "found", "force", "done", "closing"}]
      BY SMTT(60), <2>0 DEF TryCached, TypeOK, Outcomes, Settle
    <2>3. res' \in [Routers -> Results]
      BY <2>0, Zenon DEF TryCached, TypeOK, Results, Outcomes, Settle
    <2>4. ForceFinds' /\ panicked' \in BOOLEAN
      BY <2>0, Zenon DEF TryCached, TypeOK, shared, Boxes, Kinds, Results, Outcomes, Settle, ForceFinds, CallRight
    <2> QED
      BY ZenonT(60), <2>0, <2>1, <2>2, <2>3, <2>4 DEF TryCached, TypeOK, shared, Boxes
  <1>2. MapRight'
    BY Zenon DEF TryCached, IInv, MapRight, shared
  <1>3. ASSUME NEW r \in Routers PROVE CallRight(r)' /\ SteadyRight(r)'
    <2>0. CallRight(q) /\ SteadyRight(q) /\ TypeOK /\ MapRight
      BY Zenon DEF IInv
    <2>1. CASE r # q
      BY <2>0, <2>1, OthersKept, Zenon DEF TryCached, TypeOK, Settle
    <2>2. CallRight(q)'
      BY SMTT(60), <2>0, NoneAssumption
      DEF TryCached, TypeOK, CallRight, Known, shared, Gone, Outcomes, Settle
    <2>3. SteadyRight(q)'
      BY SMTT(60), <2>0, NoneAssumption
      DEF TryCached, TypeOK, CallRight, SteadyRight, Known, shared, Outcomes, Settle
    <2> QED
      BY <2>1, <2>2, <2>3, Zenon
  <1> QED
    BY <1>1, <1>2, <1>3, Zenon DEF IInv

\* Finding no mailbox in the map, and forgetting the cached one, keeps the invariant.
LEMMA LookupNoneInv ==
  ASSUME IInv, NEW q \in Routers, LookupNone(q)
  PROVE  IInv'
  <1> USE DEF Calling, Gone
  <1>1. TypeOK' /\ ForceFinds'
    <2>0. TypeOK /\ ForceFinds /\ CallRight(q)
      BY Zenon DEF IInv
    <2>1. caches' \in [Routers -> [Addrs -> Boxes]]
      <3>1. Forget(q) BY Zenon DEF LookupNone
      <3>2. caches \in [Routers -> [Addrs -> Boxes]] BY <2>0, Zenon DEF TypeOK
      <3> QED BY <3>1, <3>2 DEF Forget, Keep, Boxes
    <2>2. pc' \in [Routers -> {"idle", "cached", "lookup", "found", "force", "done", "closing"}]
      BY <2>0, Zenon DEF LookupNone, TypeOK
    <2>3. res' \in [Routers -> Results]
      BY <2>0, Zenon DEF LookupNone, TypeOK, Results
    <2>4. ForceFinds' /\ panicked' \in BOOLEAN
      BY <2>0, Zenon DEF LookupNone, TypeOK, shared, Boxes, Kinds, Results, Forget, Keep, ForceFinds, CallRight
    <2> QED
      BY <2>0, <2>1, <2>2, <2>3, <2>4, Zenon DEF LookupNone, TypeOK, shared, Boxes
  <1>2. MapRight'
    BY Zenon DEF LookupNone, IInv, MapRight, shared
  <1>3. ASSUME NEW r \in Routers PROVE CallRight(r)' /\ SteadyRight(r)'
    <2>0. CallRight(q) /\ SteadyRight(q) /\ TypeOK /\ MapRight
      BY Zenon DEF IInv
    <2>1. CASE r # q
      BY <2>0, <2>1, OthersKept, Zenon DEF LookupNone, TypeOK, Forget, Keep
    <2>2. CallRight(q)'
      BY SMTT(60), <2>0, NoneAssumption
      DEF LookupNone, TypeOK, MapRight, CallRight, SteadyRight, Known, shared, Forget, Keep
    <2>3. SteadyRight(q)'
      BY <2>0, NoneAssumption, Zenon
      DEF LookupNone, TypeOK, CallRight, SteadyRight, Known, shared, Forget, Keep
    <2> QED
      BY <2>1, <2>2, <2>3, Zenon
  <1> QED
    BY <1>1, <1>2, <1>3, Zenon DEF IInv

\* Finding a mailbox in the map, with the resize of the cache, keeps the invariant.
LEMMA LookupSomeInv ==
  ASSUME IInv, NEW q \in Routers, LookupSome(q)
  PROVE  IInv'
  <1> USE DEF Calling, Gone
  <1>1. PICK keep \in SUBSET Cached(q) :
          caches' = [caches EXCEPT ![q] = Keep(q, keep)] \/ caches' = caches
    BY ZenonT(60) DEF LookupSome
  <1>2. cap' \in [Routers -> Nat]
    BY CountNat, Zenon DEF LookupSome, IInv, TypeOK
  <1>3. TypeOK' /\ ForceFinds'
    <2>0. TypeOK /\ ForceFinds /\ CallRight(q)
      BY Zenon DEF IInv
    <2>1. caches' \in [Routers -> [Addrs -> Boxes]]
      <3>1. caches \in [Routers -> [Addrs -> Boxes]] BY <2>0, Zenon DEF TypeOK
      <3> QED BY <1>1, <3>1 DEF Keep, Boxes
    <2>2. pc' \in [Routers -> {"idle", "cached", "lookup", "found", "force", "done", "closing"}]
      BY <2>0, <1>1, <1>2, Zenon DEF LookupSome, TypeOK
    <2>3. res' \in [Routers -> Results]
      BY <2>0, <1>1, <1>2, Zenon DEF LookupSome, TypeOK, Results
    <2>4. ForceFinds' /\ panicked' \in BOOLEAN
      BY <2>0, <1>1, <1>2, Zenon DEF LookupSome, TypeOK, shared, Boxes, Kinds, Results, Keep, ForceFinds, CallRight
    <2> QED
      BY <2>0, <1>1, <1>2, <2>1, <2>2, <2>3, <2>4, Zenon DEF LookupSome, TypeOK, shared, Boxes, CallRight
  <1>4. MapRight'
    BY Zenon DEF LookupSome, IInv, MapRight, shared
  <1>5. ASSUME NEW r \in Routers PROVE CallRight(r)' /\ SteadyRight(r)'
    <2>0. CallRight(q) /\ SteadyRight(q) /\ TypeOK /\ MapRight
      BY Zenon DEF IInv
    <2>1. CASE r # q
      BY <2>0, <2>1, <1>1, OthersKept, Zenon DEF LookupSome, TypeOK, Keep
    <2>2. CallRight(q)'
      BY SMTT(60), <2>0, <1>1, NoneAssumption
      DEF LookupSome, TypeOK, MapRight, CallRight, SteadyRight, Known, shared, Keep
    <2>3. SteadyRight(q)'
      BY <2>0, <1>1, NoneAssumption, Zenon
      DEF LookupSome, TypeOK, CallRight, SteadyRight, Known, shared, Keep
    <2> QED
      BY <2>1, <2>2, <2>3, Zenon
  <1> QED
    BY <1>3, <1>4, <1>5, Zenon DEF IInv

\* The closure on the mailbox found, which is cached unless it is closed, keeps the invariant.
LEMMA TryFoundInv ==
  ASSUME IInv, NEW q \in Routers, TryFound(q)
  PROVE  IInv'
  <1> USE DEF Calling, Gone
  <1> DEFINE a == addr[q]
  <1>0. a \in Addrs /\ pc[q] = "found" /\ TypeOK /\ ForceFinds /\ MapRight
        /\ CallRight(q) /\ SteadyRight(q)
    BY Zenon DEF TryFound, IInv, CallRight
  <1>1. PICK o \in Outcomes(q, box[q]) :
          /\ Settle(q, o)
          /\ IF o = "Disconnected" THEN Forget(q) ELSE Insert(q, a, box[q])
    BY Zenon DEF TryFound
  <1>2. /\ o \in {"Ok", "Full", "Disconnected"}
        /\ o = "Disconnected" => box[q] \in closed
    BY <1>1, Zenon DEF Outcomes
  <1>3. UNCHANGED <<shared, cap, kind, addr, conn, box, steady, panicked>>
    BY Zenon DEF TryFound
  <1>4. /\ caches' \in [Routers -> [Addrs -> Boxes]]
        /\ \A r \in Routers \ {q} : caches'[r] = caches[r]
        /\ \A b \in Addrs : caches'[q][b] \in {caches[q][b], None} \/ (b = a /\ caches'[q][b] = box[q])
        /\ o # "Disconnected" => caches'[q][a] = box[q]
    <2>1. CASE o = "Disconnected"
      BY SMTT(60), <1>0, <1>1, <2>1 DEF Forget, Keep, TypeOK, Boxes
    <2>2. CASE o # "Disconnected"
      <3>1. PICK keep \in SUBSET Cached(q) :
              caches' = [caches EXCEPT ![q] = [Keep(q, keep) EXCEPT ![a] = box[q]]]
        BY <1>1, <2>2, Zenon DEF Insert
      <3> QED
        BY SMTT(60), <1>0, <3>1 DEF Keep, TypeOK, Boxes
    <2> QED
      BY <2>1, <2>2, Zenon
  <1>5. /\ \A r \in Routers \ {q} : pc'[r] = pc[r] /\ res'[r] = res[r]
        /\ \/ pc'[q] = "force" /\ kind[q] = "force" /\ o = "Full" /\ res' = res
           \/ pc'[q] = "done" /\ res'[q] = o
    <2>1. DOMAIN pc = Routers /\ DOMAIN res = Routers
      BY <1>0, Zenon DEF TypeOK
    <2> QED
      BY <1>1, <2>1, Zenon DEF Settle
  <1>6. TypeOK' /\ ForceFinds'
    <2>1. pc' \in [Routers -> {"idle", "cached", "lookup", "found", "force", "done", "closing"}]
      BY <1>0, <1>1, ZenonT(40) DEF Settle, TypeOK
    <2>2. res' \in [Routers -> Results]
      BY <1>0, <1>1, <1>2, Zenon DEF Settle, TypeOK, Results
    <2> QED
      BY <1>0, <1>3, <1>4, <2>1, <2>2, Zenon DEF TypeOK, ForceFinds, shared
  <1>7. MapRight'
    BY <1>0, <1>3, Zenon DEF MapRight, shared
  <1>8. ASSUME NEW r \in Routers PROVE CallRight(r)' /\ SteadyRight(r)'
    <2>1. CASE r # q
      BY <1>3, <1>4, <1>5, <2>1, OthersKept, Zenon
    <2>2. CallRight(q)'
      <3>1. \A b \in Addrs : Known(caches[q][b], b)'
        BY <1>0, <1>3, <1>4, Zenon DEF CallRight, Known, shared
      <3>2. /\ pc'[q] \in {"force", "done"} /\ addr'[q] \in Addrs
            /\ pc'[q] = "force" => kind'[q] = "force" /\ caches'[q][a] # None
        BY <1>0, <1>3, <1>4, <1>5, Zenon DEF CallRight
      <3>3. pc'[q] # "done" => res'[q] = "none"
        BY <1>0, <1>5, Zenon DEF CallRight
      <3>4. steady'[q] => (kind'[q] # "force" => res'[q] \notin Gone)
        <4>1. steady[q] => box[q] \notin closed
          BY <1>0, Zenon DEF SteadyRight, MapRight
        <4> QED
          BY <1>0, <1>2, <1>3, <1>5, <4>1, Zenon DEF CallRight
      <3> QED
        BY <1>3, <3>1, <3>2, <3>3, <3>4, Zenon DEF CallRight
    <2>3. SteadyRight(q)'
      BY <1>0, <1>3, <1>5, Zenon DEF SteadyRight, shared
    <2> QED
      BY <2>1, <2>2, <2>3, Zenon
  <1> QED
    BY <1>6, <1>7, <1>8, Zenon DEF IInv

\* The forced send into the cached mailbox keeps the invariant and finds one.
LEMMA ForceSendInv ==
  ASSUME IInv, NEW q \in Routers, ForceSend(q)
  PROVE  IInv'
  <1> USE DEF Calling, Gone
  <1>1. TypeOK' /\ ForceFinds'
    <2>0. TypeOK /\ ForceFinds /\ CallRight(q)
      BY Zenon DEF IInv
    <2>1. caches' \in [Routers -> [Addrs -> Boxes]]
      BY <2>0, Zenon DEF ForceSend, TypeOK, Boxes, CallRight
    <2>2. pc' \in [Routers -> {"idle", "cached", "lookup", "found", "force", "done", "closing"}]
      BY <2>0, Zenon DEF ForceSend, TypeOK, CallRight
    <2>3. res' \in [Routers -> Results]
      BY <2>0, Zenon DEF ForceSend, TypeOK, Results, CallRight
    <2>4. ForceFinds' /\ panicked' \in BOOLEAN
      BY <2>0, Zenon DEF ForceSend, TypeOK, shared, Boxes, Kinds, Results, CallRight, ForceFinds, CallRight
    <2> QED
      BY <2>0, <2>1, <2>2, <2>3, <2>4, Zenon DEF ForceSend, TypeOK, shared, Boxes
  <1>2. MapRight'
    BY Zenon DEF ForceSend, IInv, MapRight, shared
  <1>3. ASSUME NEW r \in Routers PROVE CallRight(r)' /\ SteadyRight(r)'
    <2>0. CallRight(q) /\ SteadyRight(q) /\ TypeOK /\ MapRight
      BY Zenon DEF IInv
    <2>1. CASE r # q
      BY <2>0, <2>1, OthersKept, Zenon DEF ForceSend, TypeOK
    <2>2. CallRight(q)'
      BY <2>0, NoneAssumption, Zenon
      DEF ForceSend, TypeOK, MapRight, CallRight, SteadyRight, Known, shared
    <2>3. SteadyRight(q)'
      BY <2>0, NoneAssumption, Zenon
      DEF ForceSend, TypeOK, MapRight, CallRight, SteadyRight, Known, shared
    <2> QED
      BY <2>1, <2>2, <2>3, Zenon
  <1> QED
    BY <1>1, <1>2, <1>3, Zenon DEF IInv

\* The return of a call keeps the invariant.
LEMMA ReturnInv ==
  ASSUME IInv, NEW q \in Routers, Return(q)
  PROVE  IInv'
  <1> USE DEF Calling, Gone
  <1>1. TypeOK' /\ ForceFinds'
    <2>0. TypeOK /\ ForceFinds /\ CallRight(q)
      BY Zenon DEF IInv
    <2>1. caches' \in [Routers -> [Addrs -> Boxes]]
      BY <2>0, Zenon DEF Return, TypeOK, Boxes
    <2>2. pc' \in [Routers -> {"idle", "cached", "lookup", "found", "force", "done", "closing"}]
      BY <2>0, Zenon DEF Return, TypeOK
    <2>3. res' \in [Routers -> Results]
      BY <2>0, Zenon DEF Return, TypeOK, Results
    <2>4. ForceFinds' /\ panicked' \in BOOLEAN
      BY <2>0, Zenon DEF Return, TypeOK, shared, Boxes, Kinds, Results, ForceFinds, CallRight
    <2> QED
      BY <2>0, <2>1, <2>2, <2>3, <2>4, Zenon DEF Return, TypeOK, shared, Boxes, Kinds
  <1>2. MapRight'
    BY Zenon DEF Return, IInv, MapRight, shared
  <1>3. ASSUME NEW r \in Routers PROVE CallRight(r)' /\ SteadyRight(r)'
    <2>0. CallRight(q) /\ SteadyRight(q) /\ TypeOK /\ MapRight
      BY Zenon DEF IInv
    <2>1. CASE r # q
      BY ZenonT(60), <2>0, <2>1, OthersKept DEF Return, TypeOK
    <2>2. CallRight(q)'
      BY <2>0, NoneAssumption, Zenon
      DEF Return, TypeOK, CallRight, Known, shared, Gone
    <2>3. SteadyRight(q)'
      BY <2>0, NoneAssumption, Zenon
      DEF Return, TypeOK, CallRight, SteadyRight, Known, shared
    <2> QED
      BY <2>1, <2>2, <2>3, Zenon
  <1> QED
    BY <1>1, <1>2, <1>3, Zenon DEF IInv

\* A step of a call by clone q keeps the invariant: it changes the locals and the
\* cache of q alone, and caches only a mailbox found in the map.
LEMMA CallInv ==
  ASSUME IInv, NEW q \in Routers,
         (\E a \in Addrs, k \in Kinds : Begin(q, a, k)) \/ Call(q)
  PROVE  IInv'
  BY BeginInv, TryCachedInv, LookupNoneInv, LookupSomeInv, TryFoundInv, ForceSendInv, ReturnInv, Zenon DEF Call
-----------------------------------------------------------------------------
\* A new router satisfies the invariant: no mailbox is registered or cached.
LEMMA InitInv == Init => IInv
  <1> SUFFICES ASSUME Init PROVE IInv
    BY Zenon
  <1> USE DEF Init, Boxes, Kinds, Results
  <1>1. TypeOK
    BY ZenonT(60), InitCapAssumption DEF TypeOK
  <1>2. MapRight
    BY Zenon DEF MapRight
  <1>3. ForceFinds
    BY Zenon DEF ForceFinds
  <1>4. ASSUME NEW r \in Routers PROVE CallRight(r) /\ SteadyRight(r)
    BY NoneAssumption, Zenon DEF CallRight, SteadyRight, Known, Calling, Gone
  <1> QED
    BY <1>1, <1>2, <1>3, <1>4, Zenon DEF IInv

\* Taking the mailboxes of the addresses in A out of the map, and closing them
\* later, keeps what every clone relies on.
LEMMA TakeOutKept ==
  ASSUME IInv, NEW q \in Routers, NEW A \in SUBSET Addrs, NEW out,
         holder = {}, pc[q] = "idle",
         out = {normals[a] : a \in A} \ {None},
         \A a \in Addrs \ A : normals'[a] = normals[a],
         used \subseteq used', closed' = closed, TakeOut(q, out), Unsteady(A),
         \A r \in Routers, a \in Addrs : caches'[r][a] \in {caches[r][a], None},
         \A r \in Routers \ {q} : caches'[r] = caches[r],
         UNCHANGED <<kind, addr, box, res>>,
         NEW r \in Routers
  PROVE  CallRight(r)' /\ SteadyRight(r)'
  <1> USE DEF Calling, Gone
  <1>0. TypeOK /\ MapRight /\ CallRight(r) /\ SteadyRight(r) /\ todo = {}
    BY Zenon DEF IInv, MapRight
  <1>1. pc'[r] = pc[r] \/ (r = q /\ pc'[r] = "closing")
    BY ZenonT(60), <1>0 DEF TakeOut, TypeOK
  <1>2. steady'[r] => steady[r] /\ (pc[r] = "done" \/ addr[r] \notin A)
    BY Zenon DEF Unsteady
  <1> DEFINE KnownNext(m, a) ==
        m # None => m \in used' /\ (m \in closed' \/ m \in todo' \/ m = normals'[a])
  <1>3. ASSUME NEW m, NEW a \in Addrs, Known(m, a) PROVE KnownNext(m, a)
    BY <1>0, <1>3, Zenon DEF Known, TakeOut
  <1>4. CallRight(r)'
    <2>1. \A a \in Addrs : KnownNext(caches[r][a], a)
      BY <1>0, <1>3, Zenon DEF CallRight
    <2>2. \A a \in Addrs : KnownNext(caches'[r][a], a)
      BY <2>1, Zenon
    <2>3. pc'[r] = "found" => box'[r] # None /\ KnownNext(box'[r], addr'[r])
      BY <1>0, <1>1, <1>3, Zenon DEF CallRight
    <2>4. pc'[r] = "force" => kind'[r] = "force" /\ caches'[r][addr'[r]] # None
      BY <1>0, <1>1, Zenon DEF CallRight
    <2>5. pc'[r] \in Calling => addr'[r] \in Addrs
      BY <1>0, <1>1, Zenon DEF CallRight
    <2>6. pc'[r] # "done" => res'[r] = "none"
      BY <1>0, <1>1, Zenon DEF CallRight
    <2>7. steady'[r] => /\ pc'[r] \in Calling \cup {"done"}
                        /\ kind'[r] # "force" => res'[r] \notin Gone
      BY <1>0, <1>1, <1>2, Zenon DEF CallRight
    <2> QED
      BY <2>2, <2>3, <2>4, <2>5, <2>6, <2>7, Zenon DEF CallRight, Known
  <1>5. SteadyRight(r)'
    <2> SUFFICES ASSUME steady'[r], pc'[r] \in Calling
                 PROVE  LET a == addr'[r] IN
                          /\ normals'[a] # None
                          /\ pc'[r] = "found" => box'[r] = normals'[a]
      BY Zenon DEF SteadyRight
    <2>1. pc'[r] = pc[r] /\ r # q
      BY <1>1, Zenon
    <2>2. steady[r] /\ addr[r] \in Addrs \ A
      BY <1>0, <1>2, <2>1, Zenon DEF CallRight
    <2> QED
      BY <1>0, <2>1, <2>2, Zenon DEF SteadyRight
  <1> QED
    BY <1>4, <1>5, Zenon

\* register, close, broadcast_shutdown and the closing of the mailboxes they take
\* out of the map keep the invariant.
LEMMA EditInv ==
  ASSUME IInv, NEW q \in Routers, Edit(q)
  PROVE  IInv'
  <1>0. TypeOK /\ MapRight /\ ForceFinds
    BY Zenon DEF IInv
  <1>1. ASSUME NEW a \in Addrs, NEW m \in Mailboxes, Register(q, a, m) PROVE IInv'
    <2> DEFINE out == {normals[a]} \ {None}
    <2>1. out \subseteq used /\ todo = {} /\ holder = {}
      BY <1>0, <1>1, Zenon DEF Register, MapRight
    <2>2. TypeOK' /\ ForceFinds'
      <3>1. normals' \in [Addrs -> Boxes] /\ used' \subseteq Mailboxes /\ closed' \subseteq used'
        BY <1>0, <1>1, Zenon DEF Register, TypeOK, Boxes
      <3>2. todo' \subseteq used' /\ holder' \subseteq Routers
        BY SMTT(60), <1>0, <1>1, <2>1 DEF Register, TakeOut, TypeOK
      <3>3. pc' \in [Routers -> {"idle", "cached", "lookup", "found", "force", "done", "closing"}]
        BY SMTT(60), <1>0, <1>1 DEF Register, TakeOut, TypeOK
      <3>4. steady' \in [Routers -> BOOLEAN]
        BY ZenonT(60), <1>0, <1>1 DEF Register, Unsteady, TypeOK
      <3> QED
        BY <1>0, <1>1, <3>1, <3>2, <3>3, <3>4, Zenon DEF Register, TypeOK, ForceFinds
    <2>3. MapRight'
      <3>1. m \notin closed
        BY <1>0, <1>1, Zenon DEF Register, TypeOK
      <3>2. normals' = [normals EXCEPT ![a] = m] /\ used' = used \cup {m} /\ m \notin used
            /\ closed' = closed /\ todo' = out
        BY <1>1, Zenon DEF Register, TakeOut
      <3>3. holder' = {} => todo' = {}
        BY <1>1, <2>1, Zenon DEF Register, TakeOut
      <3> QED
        BY <1>0, <2>1, <3>1, <3>2, <3>3, NoneAssumption DEF MapRight, TypeOK
    <2>4. ASSUME NEW r \in Routers PROVE CallRight(r)' /\ SteadyRight(r)'
      <3>1. out = {normals[b] : b \in {a}} \ {None}
        BY Zenon
      <3>2. \A b \in Addrs \ {a} : normals'[b] = normals[b]
        BY <1>0, <1>1, Zenon DEF Register, TypeOK
      <3>3. /\ holder = {} /\ pc[q] = "idle" /\ used \subseteq used' /\ closed' = closed
            /\ TakeOut(q, out) /\ Unsteady({a}) /\ UNCHANGED <<caches, kind, addr, box, res>>
        BY <1>1, Zenon DEF Register
      <3> QED
        BY <3>1, <3>2, <3>3, TakeOutKept, Zenon
    <2> QED
      BY <2>2, <2>3, <2>4, Zenon DEF IInv
  <1>2. ASSUME NEW a \in Addrs, Close(q, a) PROVE IInv'
    <2> DEFINE out == {normals[a]} \ {None}
    <2>1. out \subseteq used /\ todo = {} /\ holder = {}
      BY <1>0, <1>2, Zenon DEF Close, MapRight
    <2>2. TypeOK' /\ ForceFinds'
      <3>1. normals' \in [Addrs -> Boxes] /\ caches' \in [Routers -> [Addrs -> Boxes]]
        BY <1>0, <1>2, ZenonT(40) DEF Close, TypeOK, Boxes, Keep
      <3>2. todo' \subseteq used' /\ holder' \subseteq Routers
        BY <1>0, <1>2, <2>1 DEF Close, TakeOut, TypeOK
      <3>3. pc' \in [Routers -> {"idle", "cached", "lookup", "found", "force", "done", "closing"}]
        <4>1. TakeOut(q, out) BY <1>2, Zenon DEF Close
        <4> QED BY ZenonT(60), <1>0, <4>1 DEF TakeOut, TypeOK
      <3>4. steady' \in [Routers -> BOOLEAN]
        BY ZenonT(60), <1>0, <1>2 DEF Close, Unsteady, TypeOK
      <3> QED
        BY ZenonT(60), <1>0, <1>2, <3>1, <3>2, <3>3, <3>4 DEF Close, TypeOK, ForceFinds
    <2>3. MapRight'
      <3>1. normals' = [normals EXCEPT ![a] = None] /\ used' = used
            /\ closed' = closed /\ todo' = out
        BY <1>2, Zenon DEF Close, TakeOut
      <3>2. holder' = {} => todo' = {}
        BY <1>2, <2>1, Zenon DEF Close, TakeOut
      <3> QED
        BY SMTT(60), <1>0, <2>1, <3>1, <3>2, NoneAssumption DEF MapRight, TypeOK
    <2>4. ASSUME NEW r \in Routers PROVE CallRight(r)' /\ SteadyRight(r)'
      <3>1. out = {normals[b] : b \in {a}} \ {None}
        BY Zenon
      <3>2. \A b \in Addrs \ {a} : normals'[b] = normals[b]
        BY <1>0, <1>2, Zenon DEF Close, TypeOK
      <3>3. /\ holder = {} /\ pc[q] = "idle" /\ used \subseteq used' /\ closed' = closed
            /\ TakeOut(q, out) /\ Unsteady({a}) /\ UNCHANGED <<kind, addr, box, res>>
        BY <1>2, Zenon DEF Close
      <3>4. /\ \A p \in Routers, b \in Addrs : caches'[p][b] \in {caches[p][b], None}
            /\ \A p \in Routers \ {q} : caches'[p] = caches[p]
        BY <1>0, <1>2, Zenon DEF Close, Keep, TypeOK
      <3> QED
        BY <3>1, <3>2, <3>3, <3>4, TakeOutKept, Zenon
    <2> QED
      BY <2>2, <2>3, <2>4, Zenon DEF IInv
  <1>3. CASE Shutdown(q)
    <2> DEFINE out == {normals[a] : a \in Registered}
    <2>1. out \subseteq used /\ todo = {} /\ holder = {}
      BY ZenonT(60), <1>0, <1>3 DEF Shutdown, MapRight, Registered
    <2>2. TypeOK' /\ ForceFinds'
      <3>1. normals' \in [Addrs -> Boxes] /\ caches' \in [Routers -> [Addrs -> Boxes]]
        BY <1>0, <1>3, Zenon DEF Shutdown, TypeOK, Boxes, Keep
      <3>2. todo' \subseteq used' /\ holder' \subseteq Routers
        <4>1. TakeOut(q, out) /\ used' = used BY <1>3, Zenon DEF Shutdown
        <4>2. todo' = out /\ holder' \in {{}, {q}} BY <4>1, <2>1, Zenon DEF TakeOut
        <4> QED BY <2>1, <4>1, <4>2, Zenon
      <3>3. pc' \in [Routers -> {"idle", "cached", "lookup", "found", "force", "done", "closing"}]
        <4>1. TakeOut(q, out) BY <1>3, Zenon DEF Shutdown
        <4> QED BY ZenonT(60), <1>0, <4>1 DEF TakeOut, TypeOK
      <3>4. steady' \in [Routers -> BOOLEAN]
        BY ZenonT(60), <1>0, <1>3 DEF Shutdown, Unsteady, TypeOK
      <3> QED
        BY <1>0, <1>3, <3>1, <3>2, <3>3, <3>4, Zenon DEF Shutdown, TypeOK, ForceFinds
    <2>3. MapRight'
      <3>1. normals' = [a \in Addrs |-> None] /\ used' = used
            /\ closed' = closed /\ todo' = out
        BY <1>3, Zenon DEF Shutdown, TakeOut
      <3>2. holder' = {} => todo' = {}
        BY <1>3, <2>1, Zenon DEF Shutdown, TakeOut
      <3>3. ASSUME NEW m \in used PROVE m \in closed \/ m \in out
        <4>1. m # None BY <1>0, NoneAssumption, Zenon DEF TypeOK
        <4>2. m \in closed \/ \E a \in Addrs : normals[a] = m BY <1>0, <2>1, Zenon DEF MapRight
        <4> QED BY <4>1, <4>2, Zenon DEF Registered
      <3>4. out \cap closed = {}
        BY <1>0, Zenon DEF MapRight, Registered
      <3> QED
        BY <3>1, <3>2, <3>3, <3>4, Zenon DEF MapRight
    <2>4. ASSUME NEW r \in Routers PROVE CallRight(r)' /\ SteadyRight(r)'
      <3>1. out = {normals[b] : b \in Addrs} \ {None}
        BY Zenon DEF Registered
      <3>2. \A b \in Addrs \ Addrs : normals'[b] = normals[b]
        BY Zenon
      <3>3. /\ holder = {} /\ pc[q] = "idle" /\ used \subseteq used' /\ closed' = closed
            /\ TakeOut(q, out) /\ Unsteady(Addrs) /\ UNCHANGED <<kind, addr, box, res>>
        BY <1>3, Zenon DEF Shutdown
      <3>4. /\ \A p \in Routers, b \in Addrs : caches'[p][b] \in {caches[p][b], None}
            /\ \A p \in Routers \ {q} : caches'[p] = caches[p]
        BY <1>0, <1>3, Zenon DEF Shutdown, Keep, TypeOK
      <3> QED
        BY <3>1, <3>2, <3>3, <3>4, TakeOutKept, Zenon
    <2> QED
      BY <2>2, <2>3, <2>4, Zenon DEF IInv
  <1>4. CASE CloseBox(q)
    <2>1. PICK m \in todo : /\ closed' = closed \cup {m} /\ todo' = todo \ {m}
                            /\ IF todo = {m} THEN holder' = {} /\ pc' = [pc EXCEPT ![q] = "idle"]
                                             ELSE UNCHANGED <<holder, pc>>
      BY <1>4, Zenon DEF CloseBox
    <2>2. TypeOK' /\ ForceFinds'
      BY <1>0, <1>4, <2>1, Zenon DEF CloseBox, TypeOK, ForceFinds, Boxes
    <2>3. MapRight'
      <3>1. holder' = {} => todo' = {}
        BY <1>4, <2>1, Zenon DEF CloseBox
      <3> QED
        BY SMTT(60), <1>0, <1>4, <2>1, <3>1 DEF CloseBox, MapRight
    <2>4. ASSUME NEW r \in Routers PROVE CallRight(r)' /\ SteadyRight(r)'
      <3>0. CallRight(r) /\ SteadyRight(r)
        BY Zenon DEF IInv
      <3>1. pc'[r] = pc[r] \/ (pc[r] = "closing" /\ pc'[r] = "idle")
        BY <1>0, <1>4, <2>1, Zenon DEF CloseBox, TypeOK
      <3>2. CallRight(r)'
        BY <1>4, <2>1, <3>0, <3>1, Zenon DEF CloseBox, CallRight, Known, Calling, Gone
      <3>3. SteadyRight(r)'
        BY <1>4, <2>1, <3>0, <3>1, Zenon DEF CloseBox, SteadyRight, Calling
      <3> QED
        BY <3>2, <3>3, Zenon
    <2> QED
      BY <2>2, <2>3, <2>4, Zenon DEF IInv
  <1> QED
    BY <1>1, <1>2, <1>3, <1>4, Zenon DEF Edit

\* Every step keeps the invariant, stuttering included.
LEMMA NextInv == IInv /\ [Next]_vars => IInv'
  <1> SUFFICES ASSUME IInv, [Next]_vars PROVE IInv'
    BY Zenon
  <1>1. CASE Next
    BY <1>1, CallInv, EditInv, Zenon DEF Next
  <1>2. CASE UNCHANGED vars
    <2>1. TypeOK' /\ ForceFinds'
      BY <1>2, Zenon DEF vars, IInv, TypeOK, ForceFinds
    <2>2. MapRight'
      BY <1>2, Zenon DEF vars, IInv, MapRight
    <2>3. ASSUME NEW r \in Routers PROVE CallRight(r)' /\ SteadyRight(r)'
      BY <1>2, OthersKept, Zenon DEF vars, shared
    <2> QED
      BY <2>1, <2>2, <2>3, Zenon DEF IInv
  <1> QED
    BY <1>1, <1>2, Zenon

\* The inductive invariant holds in every reachable state of the router.
THEOREM Invariance == Spec => []IInv
  BY InitInv, NextInv, PTL DEF Spec

\* The variables of the router keep their types.
THEOREM TypeCorrect == Spec => []TypeOK
  <1>1. IInv => TypeOK
    BY Zenon DEF IInv
  <1> QED
    BY <1>1, Invariance, PTL

\* The open mailboxes are exactly the registered ones and those being closed.
THEOREM OpenRegistered == Spec => []OpenIsRegistered
  <1>1. IInv => OpenIsRegistered
    <2> SUFFICES ASSUME IInv PROVE OpenIsRegistered
      BY Zenon
    <2>1. MapRight /\ TypeOK
      BY Zenon DEF IInv
    <2>2. \A m : m \in used \ closed <=> m \in {normals[a] : a \in Registered} \cup todo
      BY SMTT(60), <2>1, NoneAssumption DEF MapRight, TypeOK, Registered
    <2> QED
      BY <2>2, Zenon DEF OpenIsRegistered
  <1> QED
    BY <1>1, Invariance, PTL

\* A cached mailbox that is open is the registered one of its address.
THEOREM CacheSound == Spec => []CacheRight
  <1>1. IInv => CacheRight
    BY Zenon DEF IInv, CallRight, CacheRight
  <1> QED
    BY <1>1, Invariance, PTL

\* A stale cache entry never makes a steadily registered mailbox unreachable.
THEOREM Reachable == Spec => []SteadyReachable
  <1>1. IInv => SteadyReachable
    BY Zenon DEF IInv, CallRight, SteadyReachable
  <1> QED
    BY <1>1, Invariance, PTL

\* The unwrap of force_lightlike never fails.
THEOREM ForceSafe == Spec => []ForceFinds
  <1>1. IInv => ForceFinds
    BY Zenon DEF IInv
  <1> QED
    BY <1>1, Invariance, PTL
=============================================================================

--------------------------- MODULE LockTableProofs ---------------------------
(***************************************************************************)
(* No entry of the lock table stays behind dead, for any number of threads *)
(* and keys.  An action moves one thread; what the others hold and are     *)
(* known to look at stays, and that is most of every proof.                *)
(***************************************************************************)
EXTENDS LockTable, FiniteSetTheorems, TLAPS

\* The handles are numbers, and None is none of them, and no key.
LEMMA NoneIsNone == None \notin Handles /\ None \notin Keys /\ Handles \subseteq Nat
<1>1. Cardinality(Threads) \in Nat /\ Cardinality(Keys) \in Nat
  BY KeysAssumption, ThreadsAssumption, FS_CardinalityType, Zenon
<1>2. Cardinality(Threads) * (Cardinality(Keys) + 1) \in Nat BY <1>1
<1>3. Handles \subseteq Nat BY <1>2 DEF Handles
<1> QED BY <1>3, KeysAssumption, Zenon

\* The head and the tail of a sequence that is not empty.
LEMMA HeadTail ==
  ASSUME NEW S, NEW q \in Seq(S), q # <<>>
  PROVE  /\ Head(q) \in S /\ Head(q) = q[1] /\ 1 \in DOMAIN q /\ Tail(q) \in Seq(S)
         /\ \A i \in DOMAIN Tail(q) : i + 1 \in DOMAIN q /\ i + 1 # 1 /\ Tail(q)[i] = q[i + 1]
         /\ Len(q) # 1 => Tail(q) # <<>>
<1>1. Len(q) \in Nat /\ Len(q) # 0 /\ DOMAIN q = 1 .. Len(q) OBVIOUS
<1>2. Head(q) = q[1] /\ 1 \in DOMAIN q BY <1>1
<1>3. Head(q) \in S BY <1>2
<1>4. Tail(q) \in Seq(S) /\ Len(Tail(q)) = Len(q) - 1 BY <1>1
<1>5. ASSUME NEW i \in DOMAIN Tail(q)
      PROVE  i + 1 \in DOMAIN q /\ i + 1 # 1 /\ Tail(q)[i] = q[i + 1]
  <2>1. i \in 1 .. Len(q) - 1 BY <1>4
  <2> QED BY <1>1, <2>1
<1>6. ASSUME Tail(q) = <<>> PROVE Len(q) = 1
  <2>1. \A r \in Seq(S) : r = <<>> => Len(r) = 0 OBVIOUS
  <2>2. 0 = Len(q) - 1 BY <1>4, <1>6, <2>1, Zenon
  <2>3. \A n \in Nat : 0 = n - 1 => n = 1 OBVIOUS
  <2> QED BY <1>1, <2>2, <2>3, Zenon
<1> QED BY <1>2, <1>3, <1>4, <1>5, <1>6, Zenon

\* A sorted sequence of some keys has each of them once.
LEMMA SortedIs ==
  ASSUME NEW S \in (SUBSET Keys) \ {{}}, NEW q \in Sorted(S)
  PROVE  /\ q \in Seq(Keys) /\ q # <<>>
         /\ \A i, j \in DOMAIN q : q[i] = q[j] => i = j
<1>1. IsFiniteSet(S) /\ S # {} BY KeysAssumption, FS_Subset, Zenon
<1>2. Cardinality(S) \in Nat /\ Cardinality(S) # 0 BY <1>1, FS_CardinalityType, FS_EmptySet, Zenon
<1>3. q \in [1 .. Cardinality(S) -> S] /\ \A i, j \in 1 .. Cardinality(S) : i # j => q[i] # q[j]
  BY Zenon DEF Sorted, Orders
<1>4. q \in Seq(S) /\ Len(q) = Cardinality(S) /\ DOMAIN q = 1 .. Cardinality(S) BY <1>2, <1>3
<1>5. q \in Seq(Keys) BY <1>4
<1>6. q # <<>> BY <1>2, <1>4, Zenon
<1> QED BY <1>3, <1>4, <1>5, <1>6, Zenon

\* What thread u has is left alone.
Same(u) == /\ pc'[u] = pc[u] /\ todo'[u] = todo[u] /\ own'[u] = own[u]
           /\ target'[u] = target[u] /\ guards'[u] = guards[u]

LEMMA SameRight ==
  ASSUME NEW u \in Threads, Same(u), ThreadRight(u)
  PROVE  ThreadRight(u)'
BY Zenon DEF Same, ThreadRight, Key

LEMMA SameStrong ==
  ASSUME NEW u \in Threads, Same(u), NEW h
  PROVE  Strong(h, u)' <=> Strong(h, u)
BY Zenon DEF Same, Strong

\* An action that lets no thread know a handle for a key it was not known for.
LEMMA Shrinks ==
  ASSUME OneKey, OwnUnknown,
         \A h, k : h \in Handles /\ k \in Keys /\ Known(h, k)' => Known(h, k),
         \A u \in Threads : own'[u] # None => own'[u] = own[u] /\ own[u] \in Handles
  PROVE  OneKey' /\ OwnUnknown'
<1>1. OneKey' BY Zenon DEF OneKey
<1>2. OwnUnknown' BY Zenon DEF OwnUnknown
<1> QED BY <1>1, <1>2, Zenon

\* Every thread but one is left alone.
LEMMA AllRight ==
  ASSUME NEW t \in Threads, \A u \in Threads : ThreadRight(u), ThreadRight(t)',
         \A u \in Threads : u # t => Same(u)
  PROVE  \A u \in Threads : ThreadRight(u)'
BY SameRight, Zenon

\* The entries of the table an action leaves alone stay alive: it keeps every strong
\* reference to them, and no removal ends.
EntriesRight ==
  \A k \in Keys : table[k] # None =>
    Alive(table[k]) \/ \E t \in Threads : pc[t] = "remove" /\ Key(t) = k

LEMMA NoDeadEntryIs == NoDeadEntry <=> TypeOK /\ EntriesRight
BY Zenon DEF NoDeadEntry, EntriesRight

LEMMA EntriesKept ==
  ASSUME EntriesRight,
         \A k \in Keys : table'[k] # None => table'[k] = table[k],
         \A h : \A k \in Keys, u \in Threads :
           h = table[k] /\ table'[k] # None /\ Strong(h, u) => Alive(h)',
         \A k \in Keys, u \in Threads :
           table'[k] # None /\ pc[u] = "remove" /\ Key(u) = k => pc'[u] = "remove" /\ Key(u)' = k
  PROVE  EntriesRight'
<1> SUFFICES ASSUME NEW k \in Keys, table'[k] # None
             PROVE  (Alive(table[k]) \/ \E u \in Threads : pc[u] = "remove" /\ Key(u) = k)'
  BY Zenon DEF EntriesRight
<1>1. PICK h : h = table[k] /\ h = table'[k] BY Zenon
<1>2. CASE Alive(h)
  <2>1. PICK u \in Threads : Strong(h, u) BY <1>2, Zenon DEF Alive
  <2>2. Alive(h)' BY <1>1, <2>1, Zenon
  <2> QED BY <1>1, <2>2, Zenon
<1>3. CASE \E u \in Threads : pc[u] = "remove" /\ Key(u) = k BY <1>3, Zenon
<1> QED BY <1>1, <1>2, <1>3, Zenon DEF EntriesRight

\* What an action leaves to show, once it is known how far it reaches.
LEMMA Kept ==
  ASSUME IInv, NEW t \in Threads, TypeOK', ThreadRight(t)', EntriesRight',
         \A u \in Threads : u # t => Same(u),
         \A h, k : h \in Handles /\ k \in Keys /\ Known(h, k)' => Known(h, k),
         \A u \in Threads : own'[u] # None => own'[u] = own[u]
  PROVE  IInv'
<1>1. \A u \in Threads : own'[u] # None => own'[u] = own[u] /\ own[u] \in Handles
  BY Zenon DEF IInv, NoDeadEntry, TypeOK
<1>2. OneKey' /\ OwnUnknown' BY <1>1, Shrinks, Zenon DEF IInv
<1>3. \A u \in Threads : ThreadRight(u)' BY AllRight, Zenon DEF IInv
<1>4. NoDeadEntry' BY Zenon DEF NoDeadEntry, EntriesRight
<1> QED BY <1>2, <1>3, <1>4, Zenon DEF IInv

LEMMA InitIInv == Init => IInv
<1> SUFFICES ASSUME Init PROVE IInv BY Zenon
<1>1. TypeOK BY NoneIsNone DEF Init, TypeOK
<1>2. EntriesRight BY Zenon DEF Init, EntriesRight
<1>3. \A t \in Threads : ThreadRight(t) BY Zenon DEF Init, ThreadRight
<1>4. \A h \in Handles, k \in Keys : ~Known(h, k) BY NoneIsNone, Zenon DEF Init, Known
<1>5. OneKey BY <1>4, Zenon DEF OneKey
<1>6. OwnUnknown BY Zenon DEF Init, OwnUnknown
<1> QED BY <1>1, <1>2, <1>3, <1>5, <1>6, NoDeadEntryIs, Zenon DEF IInv

LEMMA BeginKeeps ==
  ASSUME IInv, NEW t \in Threads, NEW S \in (SUBSET Keys) \ {{}}, Begin(t, S)
  PROVE  IInv'
<1>1. TypeOK /\ EntriesRight /\ ThreadRight(t) BY NoDeadEntryIs, Zenon DEF IInv
<1>2. PICK q \in Sorted(S) : todo' = [todo EXCEPT ![t] = q] BY Zenon DEF Begin
<1>3. /\ q \in Seq(Keys) /\ q # <<>> /\ \A i, j \in DOMAIN q : q[i] = q[j] => i = j BY SortedIs, Zenon
<1>4. /\ pc[t] = "idle" /\ pc' = [pc EXCEPT ![t] = "make"]
      /\ UNCHANGED <<table, owner, stored, own, target, guards>>
  BY Zenon DEF Begin, Goto
<1>5. TypeOK' BY <1>1, <1>2, <1>3, <1>4, Zenon DEF TypeOK
<1>6. pc'[t] = "make" /\ todo'[t] = q BY <1>1, <1>2, <1>4, Zenon DEF TypeOK
<1>7. \A u \in Threads : u # t => Same(u) BY <1>1, <1>2, <1>4, Zenon DEF TypeOK, Same
<1>8. ThreadRight(t)' BY <1>1, <1>3, <1>4, <1>6 DEF ThreadRight
<1>9. \A h, k : h \in Handles /\ k \in Keys /\ Known(h, k)' => Known(h, k)
  BY <1>1, <1>4, <1>7, NoneIsNone DEF Known, ThreadRight, Same, Key
<1>10. EntriesRight'
  <2>1. \A h : \A u \in Threads : Strong(h, u) => Alive(h)' BY <1>1, <1>4, <1>7, ZenonT(40) DEF Strong, Alive, Same, ThreadRight
  <2> QED BY <1>1, <1>4, <1>7, <2>1, EntriesKept, Zenon DEF Same, Key
<1> QED BY <1>4, <1>5, <1>7, <1>8, <1>9, <1>10, Kept, Zenon
LEMMA MakeKeeps ==
  ASSUME IInv, NEW t \in Threads, Make(t)
  PROVE  IInv'
<1>1. TypeOK /\ EntriesRight /\ ThreadRight(t) BY NoDeadEntryIs, Zenon DEF IInv
<1>2. PICK h \in Handles : /\ Unused(h) /\ own' = [own EXCEPT ![t] = h]
                           /\ owner' = [owner EXCEPT ![h] = t] /\ stored' = [stored EXCEPT ![h] = FALSE]
  BY Zenon DEF Make
<1>3. /\ pc[t] = "make" /\ pc' = [pc EXCEPT ![t] = "insert"] /\ UNCHANGED <<table, todo, target, guards>>
  BY Zenon DEF Make, Goto
<1>4. TypeOK' BY <1>1, <1>2, <1>3, NoneIsNone, Zenon DEF TypeOK
<1>5. pc'[t] = "insert" /\ own'[t] = h BY <1>1, <1>2, <1>3, Zenon DEF TypeOK
<1>6. \A u \in Threads : u # t => Same(u) BY <1>1, <1>2, <1>3, Zenon DEF TypeOK, Same
<1>7. ThreadRight(t)' BY <1>1, <1>3, <1>5, Zenon DEF ThreadRight, Key
<1>8. \A g, k : Known(g, k)' <=> Known(g, k) BY <1>3, Zenon DEF Known, Key
<1>9. OneKey' BY <1>8, Zenon DEF IInv, OneKey
<1>10. (\A k \in Keys : ~Known(h, k)) /\ \A u \in Threads : own[u] # h
  BY <1>2, Zenon DEF Unused, Alive, Strong, Known
<1>11. OwnUnknown'
  <2>1. ASSUME NEW u \in Threads, own'[u] # None
        PROVE  (\A k \in Keys : ~Known(own'[u], k)) /\ \A v \in Threads : own'[v] = own'[u] => v = u
    <3>1. \A v \in Threads : v # t => own'[v] = own[v] /\ own[v] # h BY <1>6, <1>10, Zenon DEF Same
    <3>2. CASE u = t BY <1>5, <1>10, <3>1, <3>2, Zenon
    <3>3. CASE u # t
      <4>1. own'[u] = own[u] /\ own[u] # None /\ own[u] # h BY <2>1, <3>1, <3>3, Zenon
      <4>2. (\A k \in Keys : ~Known(own[u], k)) /\ \A v \in Threads : own[v] = own[u] => v = u
        BY <4>1, Zenon DEF IInv, OwnUnknown
      <4>3. ASSUME NEW v \in Threads, own'[v] = own'[u] PROVE v = u
        <5>1. v # t BY <1>5, <4>1, <4>3, Zenon
        <5> QED BY <3>1, <4>1, <4>2, <4>3, <5>1, Zenon
      <4> QED BY <4>1, <4>2, <4>3, Zenon
    <3> QED BY <3>2, <3>3, Zenon
  <2> QED BY <1>8, <2>1, Zenon DEF OwnUnknown
<1>12. EntriesRight'
  <2>1. own[t] = None BY <1>1, <1>3, Zenon DEF TypeOK
  <2>2. \A g : \A k \in Keys, u \in Threads :
          g = table[k] /\ table'[k] # None /\ Strong(g, u) => Alive(g)'
    BY <1>1, <1>3, <1>6, <2>1, ZenonT(40) DEF Strong, Alive, Same, ThreadRight
  <2> QED BY <1>1, <1>3, <1>6, <2>2, EntriesKept, Zenon DEF Same, Key
<1>13. \A u \in Threads : ThreadRight(u)' BY <1>6, <1>7, AllRight, Zenon DEF IInv
<1> QED BY <1>4, <1>9, <1>11, <1>12, <1>13, Zenon DEF IInv, NoDeadEntry, EntriesRight

\* What the return of lock_key does to the thread, with the guard of handle h.
LEMMA GuardedIs ==
  ASSUME TypeOK, NEW t \in Threads, ThreadRight(t), NEW h \in Handles, Guarded(t, h),
         pc[t] \in {"insert", "cleanup"}, pc' = [pc EXCEPT ![t] = NextKey(t)]
  PROVE  /\ Key(t) \in Keys /\ guards[t][Key(t)] = None
         /\ own'[t] = None /\ target'[t] = None /\ pc'[t] \in {"locked", "make"}
         /\ guards'[t][Key(t)] = h /\ \A k \in Keys : k # Key(t) => guards'[t][k] = guards[t][k]
         /\ \A u \in Threads : u # t => Same(u)
         /\ todo' \in [Threads -> Seq(Keys)] /\ own' \in [Threads -> Handles \cup {None}]
         /\ target' \in [Threads -> Handles \cup {None}]
         /\ guards' \in [Threads -> [Keys -> Handles \cup {None}]]
         /\ \A u \in Threads : own'[u] # None <=> pc'[u] \in {"insert", "upgrade", "wait", "cleanup", "retry"}
         /\ ThreadRight(t)'
<1>1. todo[t] \in Seq(Keys) /\ todo[t] # <<>> BY Zenon DEF TypeOK, ThreadRight
<1>2. /\ Key(t) \in Keys /\ Key(t) = todo[t][1] /\ 1 \in DOMAIN todo[t] /\ Tail(todo[t]) \in Seq(Keys)
      /\ \A i \in DOMAIN Tail(todo[t]) : /\ i + 1 \in DOMAIN todo[t] /\ i + 1 # 1
                                         /\ Tail(todo[t])[i] = todo[t][i + 1]
      /\ Len(todo[t]) # 1 => Tail(todo[t]) # <<>>
  BY <1>1, HeadTail, Zenon DEF Key
<1>3. /\ \A i, j \in DOMAIN todo[t] : todo[t][i] = todo[t][j] => i = j
      /\ \A i \in DOMAIN todo[t] : guards[t][todo[t][i]] = None
  BY Zenon DEF ThreadRight
<1>4. guards[t][Key(t)] = None BY <1>2, <1>3, Zenon
<1>5. /\ guards' = [guards EXCEPT ![t][Key(t)] = h] /\ todo' = [todo EXCEPT ![t] = Tail(todo[t])]
      /\ own' = [own EXCEPT ![t] = None] /\ target' = [target EXCEPT ![t] = None]
  BY Zenon DEF Guarded
<1>6. guards[t] \in [Keys -> Handles \cup {None}] BY Zenon DEF TypeOK
<1>7. guards'[t] = [guards[t] EXCEPT ![Key(t)] = h] BY <1>5, Zenon DEF TypeOK
<1>8. guards'[t][Key(t)] = h /\ \A k \in Keys : k # Key(t) => guards'[t][k] = guards[t][k]
  BY <1>2, <1>6, <1>7, Zenon
<1>9. /\ own'[t] = None /\ target'[t] = None /\ todo'[t] = Tail(todo[t]) /\ pc'[t] = NextKey(t)
  BY <1>5, Zenon DEF TypeOK
<1>10. pc'[t] \in {"locked", "make"} /\ (pc'[t] = "make" => Tail(todo[t]) # <<>>)
  BY <1>2, <1>9 DEF NextKey
<1>11. \A u \in Threads : u # t => Same(u) BY <1>5, Zenon DEF TypeOK, Same
<1>12. /\ todo' \in [Threads -> Seq(Keys)] /\ own' \in [Threads -> Handles \cup {None}]
       /\ target' \in [Threads -> Handles \cup {None}]
  BY <1>2, <1>5, Zenon DEF TypeOK
<1>13. guards' \in [Threads -> [Keys -> Handles \cup {None}]]
  <2>1. [guards[t] EXCEPT ![Key(t)] = h] \in [Keys -> Handles \cup {None}] BY <1>2, <1>6, Zenon
  <2>2. guards' = [guards EXCEPT ![t] = [guards[t] EXCEPT ![Key(t)] = h]] BY <1>5, Zenon
  <2> QED BY <2>1, <2>2, Zenon DEF TypeOK
<1>14. \A u \in Threads : own'[u] # None <=> pc'[u] \in {"insert", "upgrade", "wait", "cleanup", "retry"}
  <2>1. own'[t] = None /\ pc'[t] \notin {"insert", "upgrade", "wait", "cleanup", "retry"} BY <1>9, <1>10, Zenon
  <2> QED BY <1>11, <2>1, ZenonT(40) DEF TypeOK, Same
<1>15. ThreadRight(t)'
  <2> DEFINE q == Tail(todo[t])
  <2>1. ASSUME NEW i \in DOMAIN q PROVE guards'[t][q[i]] = None
    <3>1. i + 1 \in DOMAIN todo[t] /\ i + 1 # 1 /\ q[i] = todo[t][i + 1] BY <1>2, Zenon
    <3>2. q[i] # Key(t) BY <1>2, <1>3, <3>1, Zenon
    <3>3. q[i] \in Keys BY <1>2
    <3> QED BY <1>3, <1>8, <3>1, <3>2, <3>3, Zenon
  <2>2. ASSUME NEW i \in DOMAIN q, NEW j \in DOMAIN q, q[i] = q[j] PROVE i = j
    <3>a. i + 1 \in DOMAIN todo[t] /\ q[i] = todo[t][i + 1] BY <1>2, Zenon
    <3>b. j + 1 \in DOMAIN todo[t] /\ q[j] = todo[t][j + 1] BY <1>2, Zenon
    <3>1. i + 1 = j + 1 BY <1>3, <2>2, <3>a, <3>b, Zenon
    <3>2. i \in Nat /\ j \in Nat BY <1>2
    <3> QED BY <3>1, <3>2
  <2> HIDE DEF q
  <2>3. todo'[t] = q BY <1>9, Zenon DEF q
  <2>4. pc'[t] = "make" => q # <<>> BY <1>10, Zenon DEF q
  <2> QED BY <1>9, <1>10, <2>1, <2>2, <2>3, <2>4, Zenon DEF ThreadRight
<1> QED BY <1>2, <1>4, <1>8, <1>9, <1>10, <1>11, <1>12, <1>13, <1>14, <1>15, Zenon

LEMMA InsertNewKeeps ==
  ASSUME IInv, NEW t \in Threads, InsertNew(t)
  PROVE  IInv'
<1>1. TypeOK /\ EntriesRight /\ ThreadRight(t) BY NoDeadEntryIs, Zenon DEF IInv
<1>2. PICK h : h = own[t] BY Zenon
<1>3. /\ pc[t] = "insert" /\ pc' = [pc EXCEPT ![t] = NextKey(t)] /\ table[Key(t)] = None
      /\ table' = [table EXCEPT ![Key(t)] = h] /\ Guarded(t, h) /\ UNCHANGED <<owner, stored>>
  BY <1>2, Zenon DEF InsertNew, Goto
<1>4. h \in Handles /\ h # None BY <1>1, <1>2, <1>3, NoneIsNone, Zenon DEF TypeOK
<1>5. PICK c : c = Key(t) BY Zenon
<1>6. /\ c \in Keys /\ guards[t][c] = None
      /\ own'[t] = None /\ target'[t] = None /\ pc'[t] \in {"locked", "make"}
      /\ guards'[t][c] = h /\ \A k \in Keys : k # c => guards'[t][k] = guards[t][k]
      /\ \A u \in Threads : u # t => Same(u)
      /\ todo' \in [Threads -> Seq(Keys)] /\ own' \in [Threads -> Handles \cup {None}]
      /\ target' \in [Threads -> Handles \cup {None}]
      /\ guards' \in [Threads -> [Keys -> Handles \cup {None}]]
      /\ \A u \in Threads : own'[u] # None <=> pc'[u] \in {"insert", "upgrade", "wait", "cleanup", "retry"}
      /\ ThreadRight(t)'
  <2>1. pc[t] \in {"insert", "cleanup"} BY <1>3, Zenon
  <2> QED BY <1>1, <1>3, <1>4, <1>5, <2>1, GuardedIs, Zenon
<1>7. table'[c] = h /\ \A k \in Keys : k # c => table'[k] = table[k]
  BY <1>1, <1>3, <1>5, <1>6, Zenon DEF TypeOK
<1>8. TypeOK'
  <2>1. table' \in [Keys -> Handles \cup {None}] BY <1>1, <1>3, <1>4, Zenon DEF TypeOK
  <2>2. NextKey(t) \in {"locked", "make"} BY Zenon DEF NextKey
  <2>3. pc' \in [Threads -> {"idle", "make", "insert", "upgrade", "wait", "cleanup", "retry",
                             "locked", "unlock", "deref", "remove", "done"}]
    BY <1>1, <1>3, <2>2, Zenon DEF TypeOK
  <2> QED BY <1>1, <1>3, <1>6, <2>1, <2>3, Zenon DEF TypeOK
<1>9. (\A k \in Keys : ~Known(h, k)) /\ \A u \in Threads : own[u] = h => u = t
  BY <1>2, <1>4, Zenon DEF IInv, OwnUnknown
<1>10. ASSUME NEW g \in Handles, NEW k \in Keys, Known(g, k)'
       PROVE  Known(g, k) \/ (g = h /\ k = c)
  <2>1. g # None BY NoneIsNone, Zenon
  <2>2. CASE table'[k] = g BY <1>7, <2>2, Zenon DEF Known
  <2>3. ASSUME NEW u \in Threads, guards'[u][k] = g PROVE Known(g, k) \/ (g = h /\ k = c)
    BY <1>6, <2>3, ZenonT(40) DEF Known, Same
  <2>4. ASSUME NEW u \in Threads, target'[u] = g, Key(u)' = k PROVE Known(g, k)
    <3>1. u # t BY <1>6, <2>1, <2>4, Zenon
    <3> QED BY <1>6, <2>4, <3>1, Zenon DEF Known, Same, Key
  <2> QED BY <1>10, <2>2, <2>3, <2>4, Zenon DEF Known
<1>11. OneKey' BY <1>9, <1>10, ZenonT(40) DEF IInv, OneKey
<1>12. OwnUnknown'
  <2>1. \A u \in Threads : own'[u] # None => u # t /\ own'[u] = own[u] /\ own[u] \in Handles
    BY <1>1, <1>6, ZenonT(40) DEF Same, TypeOK
  <2> QED BY <1>9, <1>10, <2>1, Zenon DEF IInv, OwnUnknown
<1>13. EntriesRight'
  <2> SUFFICES ASSUME NEW k \in Keys, table'[k] # None
               PROVE  (Alive(table[k]) \/ \E u \in Threads : pc[u] = "remove" /\ Key(u) = k)'
    BY Zenon DEF EntriesRight
  <2>1. CASE k = c
    <3>1. Alive(h)' BY <1>6, Zenon DEF Alive, Strong
    <3> QED BY <1>7, <2>1, <3>1, Zenon
  <2>2. CASE k # c
    <3>1. PICK g : g = table[k] /\ g = table'[k] BY <1>7, <2>2, Zenon
    <3>2. g # h BY <1>9, <3>1, Zenon DEF Known
    <3>3. CASE Alive(g)
      <4>1. PICK u \in Threads : Strong(g, u) BY <3>3, Zenon DEF Alive
      <4>2. CASE u = t
        <5>1. PICK j \in Keys : guards[t][j] = g BY <1>2, <1>3, <3>2, <4>1, <4>2, Zenon DEF Strong
        <5>2. j # c BY <1>6, <3>1, <5>1, Zenon
        <5> QED BY <1>6, <3>1, <5>1, <5>2, ZenonT(40) DEF Alive, Strong
      <4>3. CASE u # t
        <5>1. Strong(g, u)' BY <1>6, <4>1, <4>3, SameStrong, Zenon
        <5>2. Alive(g)' BY <5>1, Zenon DEF Alive
        <5> QED BY <3>1, <5>2, Zenon
      <4> QED BY <4>2, <4>3, Zenon
    <3>4. CASE \E u \in Threads : pc[u] = "remove" /\ Key(u) = k
      <4>1. PICK u \in Threads : pc[u] = "remove" /\ Key(u) = k BY <3>4, Zenon
      <4>2. u # t BY <1>3, <4>1, Zenon
      <4> QED BY <1>6, <4>1, <4>2, Zenon DEF Same, Key
    <3> QED BY <1>1, <3>1, <3>3, <3>4, Zenon DEF EntriesRight
  <2> QED BY <2>1, <2>2, Zenon
<1>14. \A u \in Threads : ThreadRight(u)' BY <1>6, AllRight, Zenon DEF IInv
<1> QED BY <1>8, <1>11, <1>12, <1>13, <1>14, Zenon DEF IInv, NoDeadEntry, EntriesRight

LEMMA InsertFoundKeeps ==
  ASSUME IInv, NEW t \in Threads, InsertFound(t)
  PROVE  IInv'
<1>1. TypeOK /\ EntriesRight /\ ThreadRight(t) BY NoDeadEntryIs, Zenon DEF IInv
<1>2. /\ pc[t] = "insert" /\ pc' = [pc EXCEPT ![t] = "upgrade"] /\ table[Key(t)] # None
      /\ target' = [target EXCEPT ![t] = table[Key(t)]]
      /\ UNCHANGED <<table, owner, stored, todo, own, guards>>
  BY Zenon DEF InsertFound, Goto
<1>3. Key(t) \in Keys
  <2>1. todo[t] \in Seq(Keys) /\ todo[t] # <<>> BY <1>1, <1>2, Zenon DEF TypeOK, ThreadRight
  <2> QED BY <2>1, HeadTail, Zenon DEF Key
<1>4. table[Key(t)] \in Handles BY <1>1, <1>2, <1>3, Zenon DEF TypeOK
<1>5. TypeOK' BY <1>1, <1>2, <1>4, Zenon DEF TypeOK
<1>6. pc'[t] = "upgrade" /\ target'[t] = table[Key(t)] BY <1>1, <1>2, Zenon DEF TypeOK
<1>7. \A u \in Threads : u # t => Same(u) BY <1>1, <1>2, Zenon DEF TypeOK, Same
<1>8. ThreadRight(t)' BY <1>1, <1>2, <1>6, Zenon DEF ThreadRight, Key
<1>9. \A h, k : h \in Handles /\ k \in Keys /\ Known(h, k)' => Known(h, k)
  BY <1>2, <1>6, <1>7, ZenonT(40) DEF Known, Key, Same
<1>10. EntriesRight'
  <2>1. Key(t)' = Key(t) BY <1>2, Zenon DEF Key
  <2>2. \A h : \A u \in Threads : Strong(h, u) => Alive(h)'
    BY <1>1, <1>2, <1>7, ZenonT(40) DEF Strong, Alive, Same, ThreadRight
  <2> QED BY <1>1, <1>2, <1>7, <2>2, EntriesKept, Zenon DEF Same, Key
<1> QED BY <1>2, <1>5, <1>7, <1>8, <1>9, <1>10, Kept, Zenon

LEMMA UpgradeKeeps ==
  ASSUME IInv, NEW t \in Threads, Upgrade(t)
  PROVE  IInv'
<1>1. TypeOK /\ EntriesRight /\ ThreadRight(t) BY NoDeadEntryIs, Zenon DEF IInv
<1>2. PICK to, h : /\ (to = "wait" /\ h = target[t]) \/ (to = "retry" /\ h = None)
                   /\ pc[t] = "upgrade" /\ pc' = [pc EXCEPT ![t] = to] /\ target' = [target EXCEPT ![t] = h]
                   /\ UNCHANGED <<table, owner, stored, todo, own, guards>>
  <2>1. CASE Alive(target[t]) BY <2>1, Zenon DEF Upgrade, Goto
  <2>2. CASE ~Alive(target[t]) BY <2>2, Zenon DEF Upgrade, Goto
  <2> QED BY <2>1, <2>2, Zenon
<1>3. to \in {"wait", "retry"} /\ h \in Handles \cup {None} BY <1>1, <1>2, Zenon DEF TypeOK
<1>4. TypeOK' BY <1>1, <1>2, <1>3, Zenon DEF TypeOK
<1>5. pc'[t] = to /\ target'[t] = h BY <1>1, <1>2, Zenon DEF TypeOK
<1>6. \A u \in Threads : u # t => Same(u) BY <1>1, <1>2, Zenon DEF TypeOK, Same
<1>7. ThreadRight(t)' BY <1>1, <1>2, <1>5, Zenon DEF ThreadRight, Key
<1>8. \A g, k : g \in Handles /\ k \in Keys /\ Known(g, k)' => Known(g, k)
  <2>1. ASSUME NEW g \in Handles, NEW u \in Threads, target'[u] = g PROVE target[u] = g
    <3>1. g # None BY NoneIsNone, Zenon
    <3>2. CASE u = t BY <1>2, <1>5, <2>1, <3>1, <3>2, Zenon
    <3>3. CASE u # t BY <1>6, <2>1, <3>3, Zenon DEF Same
    <3> QED BY <3>2, <3>3, Zenon
  <2> QED BY <1>2, <2>1, Zenon DEF Known, Key
<1>9. EntriesRight'
  <2>1. \A g : \A u \in Threads : Strong(g, u) => Alive(g)'
    BY <1>1, <1>2, <1>6 DEF Strong, Alive, Same, ThreadRight
  <2> QED BY <1>1, <1>2, <1>6, <2>1, EntriesKept, ZenonT(40) DEF Same, Key
<1> QED BY <1>2, <1>4, <1>6, <1>7, <1>8, <1>9, Kept, ZenonT(40)

LEMMA AcquireKeeps ==
  ASSUME IInv, NEW t \in Threads, Acquire(t)
  PROVE  IInv'
<1>1. TypeOK /\ EntriesRight /\ ThreadRight(t) BY NoDeadEntryIs, Zenon DEF IInv
<1>2. /\ pc[t] = "wait" /\ pc' = [pc EXCEPT ![t] = "cleanup"] /\ owner' = [owner EXCEPT ![target[t]] = t]
      /\ UNCHANGED <<table, stored, todo, own, target, guards>>
  BY Zenon DEF Acquire, Goto
<1>3. TypeOK' BY <1>1, <1>2, Zenon DEF TypeOK
<1>4. pc'[t] = "cleanup" BY <1>1, <1>2, Zenon DEF TypeOK
<1>5. \A u \in Threads : u # t => Same(u) BY <1>1, <1>2, Zenon DEF TypeOK, Same
<1>6. ThreadRight(t)' BY <1>1, <1>2, <1>4, Zenon DEF ThreadRight, Key
<1>7. \A h, k : h \in Handles /\ k \in Keys /\ Known(h, k)' => Known(h, k) BY <1>2, Zenon DEF Known, Key
<1>8. EntriesRight'
  <2>1. \A h : \A u \in Threads : Strong(h, u) => Alive(h)'
    BY <1>2, <1>4, <1>5, Zenon DEF Strong, Alive, Same
  <2> QED BY <1>1, <1>2, <1>5, <2>1, EntriesKept, Zenon DEF Same, Key
<1> QED BY <1>2, <1>3, <1>5, <1>6, <1>7, <1>8, Kept, Zenon

LEMMA StoreLockKeeps ==
  ASSUME IInv, NEW t \in Threads, NEW k \in Keys, StoreLock(t, k)
  PROVE  IInv'
<1>1. TypeOK /\ EntriesRight /\ ThreadRight(t) BY NoDeadEntryIs, Zenon DEF IInv
<1>2. stored' = [stored EXCEPT ![guards[t][k]] = TRUE] /\ UNCHANGED <<table, owner, pc, todo, own, target, guards>>
  BY Zenon DEF StoreLock
<1>3. TypeOK' BY <1>1, <1>2, Zenon DEF TypeOK
<1>4. \A u \in Threads : Same(u) BY <1>2, Zenon DEF Same
<1>5. ThreadRight(t)' BY <1>1, <1>4, SameRight, Zenon
<1>6. \A h, j : h \in Handles /\ j \in Keys /\ Known(h, j)' => Known(h, j) BY <1>2, Zenon DEF Known, Key
<1>7. EntriesRight' BY <1>1, <1>2, Zenon DEF EntriesRight, Alive, Strong, Key
<1> QED BY <1>2, <1>3, <1>4, <1>5, <1>6, <1>7, Kept, Zenon

LEMMA ClearLockKeeps ==
  ASSUME IInv, NEW t \in Threads, NEW k \in Keys, ClearLock(t, k)
  PROVE  IInv'
<1>1. TypeOK /\ EntriesRight /\ ThreadRight(t) BY NoDeadEntryIs, Zenon DEF IInv
<1>2. /\ guards[t][k] # None /\ pc[t] = "locked" /\ pc' = [pc EXCEPT ![t] = "unlock"]
      /\ stored' = [stored EXCEPT ![guards[t][k]] = FALSE] /\ todo' = [todo EXCEPT ![t] = <<k>>]
      /\ UNCHANGED <<table, owner, own, target, guards>>
  BY Zenon DEF ClearLock, Goto
<1>3. TypeOK' BY <1>1, <1>2 DEF TypeOK
<1>4. pc'[t] = "unlock" /\ todo'[t] = <<k>> BY <1>1, <1>2, Zenon DEF TypeOK
<1>5. \A u \in Threads : u # t => Same(u) BY <1>1, <1>2, Zenon DEF TypeOK, Same
<1>6. target[t] = None BY <1>1, <1>2, Zenon DEF ThreadRight
<1>7. ThreadRight(t)' BY <1>1, <1>2, <1>4, <1>6 DEF ThreadRight, Key
<1>8. \A h, j : h \in Handles /\ j \in Keys /\ Known(h, j)' => Known(h, j)
  BY <1>2, <1>5, <1>6, NoneIsNone, Zenon DEF Known, Key, Same
<1>9. EntriesRight'
  <2>1. \A h : \A u \in Threads : Strong(h, u) => Alive(h)'
    BY <1>2, <1>5, Zenon DEF Strong, Alive, Same
  <2>2. pc[t] # "remove" BY <1>2, Zenon
  <2> QED BY <1>1, <1>2, <1>5, <2>1, <2>2, EntriesKept, Zenon DEF Same, Key
<1> QED BY <1>2, <1>3, <1>5, <1>7, <1>8, <1>9, Kept, Zenon

LEMMA UnlockKeeps ==
  ASSUME IInv, NEW t \in Threads, Unlock(t)
  PROVE  IInv'
<1>1. TypeOK /\ EntriesRight /\ ThreadRight(t) BY NoDeadEntryIs, Zenon DEF IInv
<1>2. /\ pc[t] = "unlock" /\ pc' = [pc EXCEPT ![t] = "deref"]
      /\ owner' = [owner EXCEPT ![guards[t][Key(t)]] = None]
      /\ UNCHANGED <<table, stored, todo, own, target, guards>>
  BY Zenon DEF Unlock, Goto
<1>3. TypeOK' BY <1>1, <1>2, Zenon DEF TypeOK
<1>4. pc'[t] = "deref" BY <1>1, <1>2, Zenon DEF TypeOK
<1>5. \A u \in Threads : u # t => Same(u) BY <1>1, <1>2, Zenon DEF TypeOK, Same
<1>6. target[t] = None BY <1>1, <1>2, Zenon DEF ThreadRight
<1>7. ThreadRight(t)' BY <1>1, <1>2, <1>4, <1>6, Zenon DEF ThreadRight, Key
<1>8. \A h, j : h \in Handles /\ j \in Keys /\ Known(h, j)' => Known(h, j)
  BY <1>2, <1>5, <1>6, NoneIsNone, Zenon DEF Known, Key, Same
<1>9. EntriesRight'
  <2>1. \A h : \A u \in Threads : Strong(h, u) => Alive(h)'
    BY <1>2, <1>5, Zenon DEF Strong, Alive, Same
  <2>2. pc[t] # "remove" BY <1>2, Zenon
  <2> QED BY <1>1, <1>2, <1>5, <2>1, <2>2, EntriesKept, Zenon DEF Same, Key
<1> QED BY <1>2, <1>3, <1>5, <1>7, <1>8, <1>9, Kept, Zenon

LEMMA EndKeeps ==
  ASSUME IInv, NEW t \in Threads, End(t)
  PROVE  IInv'
<1>1. TypeOK /\ EntriesRight /\ ThreadRight(t) BY NoDeadEntryIs, Zenon DEF IInv
<1>2. /\ pc[t] = "locked" /\ pc' = [pc EXCEPT ![t] = "done"] /\ todo' = [todo EXCEPT ![t] = <<>>]
      /\ UNCHANGED <<table, owner, stored, own, target, guards>>
  BY Zenon DEF End, Goto
<1>3. TypeOK' BY <1>1, <1>2 DEF TypeOK
<1>4. pc'[t] = "done" BY <1>1, <1>2, Zenon DEF TypeOK
<1>5. \A u \in Threads : u # t => Same(u) BY <1>1, <1>2, Zenon DEF TypeOK, Same
<1>6. target[t] = None BY <1>1, <1>2, Zenon DEF ThreadRight
<1>7. ThreadRight(t)' BY <1>1, <1>2, <1>4, <1>6, Zenon DEF ThreadRight, Key
<1>8. \A h, j : h \in Handles /\ j \in Keys /\ Known(h, j)' => Known(h, j)
  BY <1>2, <1>5, <1>6, NoneIsNone, ZenonT(40) DEF Known, Key, Same
<1>9. EntriesRight'
  <2>1. \A h : \A u \in Threads : Strong(h, u) => Alive(h)'
    BY <1>2, <1>5, Zenon DEF Strong, Alive, Same
  <2>2. pc[t] # "remove" BY <1>2, Zenon
  <2> QED BY <1>1, <1>2, <1>5, <2>1, <2>2, EntriesKept, Zenon DEF Same, Key
<1> QED BY <1>2, <1>3, <1>5, <1>7, <1>8, <1>9, Kept, Zenon
LEMMA CleanupKeeps ==
  ASSUME IInv, NEW t \in Threads, Cleanup(t)
  PROVE  IInv'
<1>1. TypeOK /\ EntriesRight /\ ThreadRight(t) BY NoDeadEntryIs, Zenon DEF IInv
<1>2. PICK h, c : h = target[t] /\ c = Key(t) BY Zenon
<1>3. /\ pc[t] = "cleanup" /\ pc' = [pc EXCEPT ![t] = NextKey(t)] /\ table' = [table EXCEPT ![c] = None]
      /\ owner' = [owner EXCEPT ![own[t]] = None] /\ Guarded(t, h) /\ UNCHANGED stored
  BY <1>2, Zenon DEF Cleanup, Goto, DropKey
<1>4. h # None BY <1>1, <1>2, <1>3, Zenon DEF ThreadRight
<1>5. h \in Handles BY <1>1, <1>2, <1>4, Zenon DEF TypeOK
<1>6. /\ c \in Keys /\ guards[t][c] = None
      /\ own'[t] = None /\ target'[t] = None /\ pc'[t] \in {"locked", "make"}
      /\ guards'[t][c] = h /\ \A k \in Keys : k # c => guards'[t][k] = guards[t][k]
      /\ \A u \in Threads : u # t => Same(u)
      /\ todo' \in [Threads -> Seq(Keys)] /\ own' \in [Threads -> Handles \cup {None}]
      /\ target' \in [Threads -> Handles \cup {None}]
      /\ guards' \in [Threads -> [Keys -> Handles \cup {None}]]
      /\ \A u \in Threads : own'[u] # None <=> pc'[u] \in {"insert", "upgrade", "wait", "cleanup", "retry"}
      /\ ThreadRight(t)'
  <2>1. pc[t] \in {"insert", "cleanup"} BY <1>3, Zenon
  <2> QED BY <1>1, <1>2, <1>3, <1>5, <2>1, GuardedIs, Zenon
<1>7. table'[c] = None /\ \A k \in Keys : k # c => table'[k] = table[k]
  BY <1>1, <1>3, <1>6, Zenon DEF TypeOK
<1>8. TypeOK'
  <2>1. table' \in [Keys -> Handles \cup {None}] BY <1>1, <1>3, Zenon DEF TypeOK
  <2>2. NextKey(t) \in {"locked", "make"} BY Zenon DEF NextKey
  <2>3. pc' \in [Threads -> {"idle", "make", "insert", "upgrade", "wait", "cleanup", "retry",
                             "locked", "unlock", "deref", "remove", "done"}]
    BY <1>1, <1>3, <2>2, Zenon DEF TypeOK
  <2>4. owner' \in [Handles -> Threads \cup {None}] BY <1>1, <1>3, Zenon DEF TypeOK
  <2> QED BY <1>1, <1>3, <1>6, <2>1, <2>3, <2>4, ZenonT(40) DEF TypeOK
<1>9. ASSUME NEW g, NEW k, g \in Handles, k \in Keys, Known(g, k)' PROVE Known(g, k)
  <2>1. g # None BY <1>9, NoneIsNone, Zenon
  <2>2. CASE table'[k] = g BY <1>7, <1>9, <2>1, <2>2, Zenon DEF Known
  <2>3. ASSUME NEW u \in Threads, guards'[u][k] = g PROVE Known(g, k)
    <3>1. CASE u # t BY <1>6, <2>3, <3>1, Zenon DEF Known, Same
    <3>2. CASE u = t /\ k = c BY <1>2, <1>6, <2>3, <3>2, Zenon DEF Known
    <3>3. CASE u = t /\ k # c BY <1>6, <1>9, <2>3, <3>3, Zenon DEF Known
    <3> QED BY <3>1, <3>2, <3>3, Zenon
  <2>4. ASSUME NEW u \in Threads, target'[u] = g, Key(u)' = k PROVE Known(g, k)
    <3>1. u # t BY <1>6, <2>1, <2>4, Zenon
    <3> QED BY <1>6, <2>4, <3>1, Zenon DEF Known, Same, Key
  <2> QED BY <1>9, <2>2, <2>3, <2>4, Zenon DEF Known
<1>10. EntriesRight'
  <2>1. \A k \in Keys : table'[k] # None => k # c /\ table'[k] = table[k] BY <1>7, Zenon
  <2>2. ASSUME NEW g, NEW k \in Keys, NEW u \in Threads, g = table[k], table'[k] # None, Strong(g, u)
        PROVE  Alive(g)'
    <3>1. CASE u # t
      <4>1. Strong(g, u)' BY <1>6, <2>2, <3>1, SameStrong, Zenon
      <4> QED BY <4>1, Zenon DEF Alive
    <3>2. CASE u = t
      <4>1. g # None BY <2>1, <2>2, Zenon
      <4>2. own[t] # g BY <2>2, <4>1, Zenon DEF IInv, OwnUnknown, Known
      <4>3. CASE target[t] = g BY <1>2, <1>6, <4>3, Zenon DEF Alive, Strong
      <4>4. CASE \E j \in Keys : guards[t][j] = g
        <5>1. PICK j \in Keys : guards[t][j] = g BY <4>4, Zenon
        <5>2. j # c BY <1>6, <4>1, <5>1, Zenon
        <5> QED BY <1>6, <5>1, <5>2, Zenon DEF Alive, Strong
      <4> QED BY <2>2, <3>2, <4>2, <4>3, <4>4, Zenon DEF Strong
    <3> QED BY <3>1, <3>2, Zenon
  <2>3. pc[t] # "remove" BY <1>3, Zenon
  <2>4. \A k \in Keys, u \in Threads :
          table'[k] # None /\ pc[u] = "remove" /\ Key(u) = k => pc'[u] = "remove" /\ Key(u)' = k
    BY <1>6, <2>3, Zenon DEF Same, Key
  <2> QED BY <1>1, <2>1, <2>2, <2>4, EntriesKept, Zenon
<1>11. \A u \in Threads : own'[u] # None => own'[u] = own[u] BY <1>6, Zenon DEF Same
<1> QED BY <1>6, <1>8, <1>9, <1>10, <1>11, Kept, Zenon

LEMMA RetryKeeps ==
  ASSUME IInv, NEW t \in Threads, Retry(t)
  PROVE  IInv'
<1>1. TypeOK /\ EntriesRight /\ ThreadRight(t) BY NoDeadEntryIs, Zenon DEF IInv
<1>2. PICK c : c = Key(t) BY Zenon
<1>3. /\ pc[t] = "retry" /\ pc' = [pc EXCEPT ![t] = "make"] /\ table' = [table EXCEPT ![c] = None]
      /\ owner' = [owner EXCEPT ![own[t]] = None] /\ own' = [own EXCEPT ![t] = None]
      /\ UNCHANGED <<stored, todo, target, guards>>
  BY <1>2, Zenon DEF Retry, Goto, DropKey
<1>4. TypeOK' BY <1>1, <1>3, Zenon DEF TypeOK
<1>5. pc'[t] = "make" /\ own'[t] = None BY <1>1, <1>3, Zenon DEF TypeOK
<1>6. \A u \in Threads : u # t => Same(u) BY <1>1, <1>3, Zenon DEF TypeOK, Same
<1>7. ThreadRight(t)' BY <1>1, <1>3, <1>5, Zenon DEF ThreadRight, Key
<1>8. \A k \in Keys : table'[k] # None => table'[k] = table[k] BY <1>1, <1>3, Zenon DEF TypeOK
<1>9. \A h, k : h \in Handles /\ k \in Keys /\ Known(h, k)' => Known(h, k)
  BY <1>3, <1>8, NoneIsNone, Zenon DEF Known, Key
<1>10. EntriesRight'
  <2>1. ASSUME NEW g, NEW k \in Keys, NEW u \in Threads, g = table[k], table'[k] # None, Strong(g, u)
        PROVE  Alive(g)'
    <3>1. CASE u # t
      <4>1. Strong(g, u)' BY <1>6, <2>1, <3>1, SameStrong, ZenonT(40)
      <4> QED BY <4>1, Zenon DEF Alive
    <3>2. CASE u = t
      <4>1. g # None BY <1>8, <2>1, Zenon
      <4>2. own[t] # g BY <2>1, <4>1, Zenon DEF IInv, OwnUnknown, Known
      <4>3. pc[t] \notin {"wait", "cleanup"} BY <1>3, Zenon
      <4> QED BY <1>3, <2>1, <3>2, <4>2, <4>3, ZenonT(40) DEF Alive, Strong
    <3> QED BY <3>1, <3>2, Zenon
  <2>2. pc[t] # "remove" BY <1>3, Zenon
  <2>3. \A k \in Keys, u \in Threads :
          table'[k] # None /\ pc[u] = "remove" /\ Key(u) = k => pc'[u] = "remove" /\ Key(u)' = k
    BY <1>6, <2>2, Zenon DEF Same, Key
  <2> QED BY <1>1, <1>8, <2>1, <2>3, EntriesKept, Zenon
<1>11. \A u \in Threads : own'[u] # None => own'[u] = own[u] BY <1>5, <1>6, Zenon DEF Same
<1> QED BY <1>4, <1>6, <1>7, <1>9, <1>10, <1>11, Kept, Zenon

LEMMA DerefKeeps ==
  ASSUME IInv, NEW t \in Threads, Deref(t)
  PROVE  IInv'
<1>1. TypeOK /\ EntriesRight /\ ThreadRight(t) BY NoDeadEntryIs, Zenon DEF IInv
<1>2. PICK c, h : c = Key(t) /\ h = guards[t][c] BY Zenon
<1>3. PICK to : /\ to = "remove" \/ (to = "locked" /\ \E u \in Threads \ {t} : Strong(h, u))
                /\ pc[t] = "deref" /\ pc' = [pc EXCEPT ![t] = to]
                /\ guards' = [guards EXCEPT ![t][c] = None]
                /\ UNCHANGED <<table, owner, stored, todo, own, target>>
  <2>1. CASE \E u \in Threads \ {t} : Strong(h, u) BY <1>2, <2>1, Zenon DEF Deref, Goto
  <2>2. CASE ~\E u \in Threads \ {t} : Strong(h, u) BY <1>2, <2>2, Zenon DEF Deref, Goto
  <2> QED BY <2>1, <2>2, Zenon
<1>4. c \in Keys /\ h # None /\ target[t] = None
  <2>1. todo[t] \in Seq(Keys) /\ todo[t] # <<>> BY <1>1, <1>3, Zenon DEF TypeOK, ThreadRight
  <2>2. c \in Keys BY <1>2, <2>1, HeadTail, Zenon DEF Key
  <2> QED BY <1>1, <1>2, <1>3, <2>2, Zenon DEF ThreadRight
<1>5. guards[t] \in [Keys -> Handles \cup {None}] BY <1>1, Zenon DEF TypeOK
<1>6. guards'[t] = [guards[t] EXCEPT ![c] = None] BY <1>1, <1>3, Zenon DEF TypeOK
<1>7. \A k \in Keys : guards'[t][k] = IF k = c THEN None ELSE guards[t][k] BY <1>5, <1>6, Zenon
<1>8. TypeOK'
  <2>1. guards' \in [Threads -> [Keys -> Handles \cup {None}]]
    <3>1. [guards[t] EXCEPT ![c] = None] \in [Keys -> Handles \cup {None}] BY <1>5, Zenon
    <3>2. guards' = [guards EXCEPT ![t] = [guards[t] EXCEPT ![c] = None]] BY <1>3, Zenon
    <3> QED BY <1>1, <3>1, <3>2, Zenon DEF TypeOK
  <2>2. to \in {"remove", "locked"} BY <1>3, Zenon
  <2> QED BY <1>1, <1>3, <2>1, <2>2, Zenon DEF TypeOK
<1>9. pc'[t] = to BY <1>1, <1>3, Zenon DEF TypeOK
<1>10. \A u \in Threads : u # t => Same(u) BY <1>1, <1>3, Zenon DEF TypeOK, Same
<1>11. ThreadRight(t)' BY <1>1, <1>3, <1>9, Zenon DEF ThreadRight, Key
<1>12. ASSUME NEW g, NEW k, g \in Handles, k \in Keys, Known(g, k)' PROVE Known(g, k)
  <2>1. g # None BY <1>12, NoneIsNone, Zenon
  <2>2. \A u \in Threads : guards'[u][k] = g => guards[u][k] = g BY <1>7, <1>10, <1>12, <2>1, Zenon DEF Same
  <2> QED BY <1>3, <1>12, <2>2, Zenon DEF Known, Key
<1>13. EntriesRight'
  <2> SUFFICES ASSUME NEW k \in Keys, table'[k] # None
               PROVE  (Alive(table[k]) \/ \E u \in Threads : pc[u] = "remove" /\ Key(u) = k)'
    BY Zenon DEF EntriesRight
  <2>1. PICK g : g = table[k] /\ g = table'[k] /\ g # None BY <1>3, Zenon
  <2>2. ASSUME NEW u \in Threads, u # t, Strong(g, u) PROVE Alive(g)'
    <3>1. Strong(g, u)' BY <1>10, <2>2, SameStrong, Zenon
    <3> QED BY <3>1, Zenon DEF Alive
  <2>3. CASE \E u \in Threads : pc[u] = "remove" /\ Key(u) = k
    <3>1. PICK u \in Threads : pc[u] = "remove" /\ Key(u) = k BY <2>3, Zenon
    <3>2. u # t BY <1>3, <3>1, Zenon
    <3> QED BY <1>10, <3>1, <3>2, Zenon DEF Same, Key
  <2>4. CASE g = h
    <3>0. table[k] \in Handles \cup {None} BY <1>1, Zenon DEF TypeOK
    <3>1. g \in Handles BY <2>1, <3>0, Zenon
    <3>2. k = c BY <1>2, <1>4, <2>1, <2>4, <3>1, Zenon DEF IInv, OneKey, Known
    <3>3. CASE to = "remove" BY <1>2, <1>3, <1>9, <3>2, <3>3, Zenon DEF Key
    <3>4. CASE \E u \in Threads \ {t} : Strong(h, u)
      <4>1. Alive(g)' BY <2>2, <2>4, <3>4, Zenon
      <4> QED BY <2>1, <4>1, Zenon
    <3> QED BY <1>3, <3>3, <3>4, Zenon
  <2>5. CASE g # h /\ Alive(g)
    <3>1. PICK u \in Threads : Strong(g, u) BY <2>5, Zenon DEF Alive
    <3>2. CASE u # t BY <2>1, <2>2, <3>1, <3>2, Zenon
    <3>3. CASE u = t
      <4>1. own[t] = g \/ \E j \in Keys : j # c /\ guards[t][j] = g
        BY <1>2, <1>4, <2>1, <2>5, <3>1, <3>3, ZenonT(40) DEF Strong
      <4>2. Strong(g, t)' BY <1>3, <1>7, <4>1, Zenon DEF Strong
      <4>3. Alive(g)' BY <4>2, Zenon DEF Alive
      <4> QED BY <2>1, <4>3, Zenon
    <3> QED BY <3>2, <3>3, Zenon
  <2> QED BY <1>1, <2>1, <2>3, <2>4, <2>5, ZenonT(40) DEF EntriesRight
<1> QED BY <1>3, <1>8, <1>10, <1>11, <1>12, <1>13, Kept, ZenonT(40)

LEMMA RemoveKeyKeeps ==
  ASSUME IInv, NEW t \in Threads, RemoveKey(t)
  PROVE  IInv'
<1>1. TypeOK /\ EntriesRight /\ ThreadRight(t) BY NoDeadEntryIs, Zenon DEF IInv
<1>2. PICK c : c = Key(t) BY Zenon
<1>3. /\ pc[t] = "remove" /\ pc' = [pc EXCEPT ![t] = "locked"] /\ table' = [table EXCEPT ![c] = None]
      /\ UNCHANGED <<owner, stored, todo, own, target, guards>>
  BY <1>2, Zenon DEF RemoveKey, Goto, DropKey
<1>4. TypeOK' BY <1>1, <1>3, Zenon DEF TypeOK
<1>5. pc'[t] = "locked" BY <1>1, <1>3, Zenon DEF TypeOK
<1>6. \A u \in Threads : u # t => Same(u) BY <1>1, <1>3, Zenon DEF TypeOK, Same
<1>7. ThreadRight(t)' BY <1>1, <1>3, <1>5, Zenon DEF ThreadRight, Key
<1>8. \A k \in Keys : table'[k] # None => k # c /\ table'[k] = table[k] BY <1>1, <1>3, Zenon DEF TypeOK
<1>9. \A h, k : h \in Handles /\ k \in Keys /\ Known(h, k)' => Known(h, k)
  BY <1>3, <1>8, NoneIsNone, ZenonT(40) DEF Known, Key
<1>10. EntriesRight'
  <2>1. \A h : \A u \in Threads : Strong(h, u) => Alive(h)' BY <1>3, <1>6, Zenon DEF Strong, Alive, Same
  <2>2. \A k \in Keys, u \in Threads :
          table'[k] # None /\ pc[u] = "remove" /\ Key(u) = k => pc'[u] = "remove" /\ Key(u)' = k
    BY <1>2, <1>6, <1>8, Zenon DEF Same, Key
  <2> QED BY <1>1, <1>8, <2>1, <2>2, EntriesKept, Zenon
<1> QED BY <1>3, <1>4, <1>6, <1>7, <1>9, <1>10, Kept, Zenon

LEMMA StepKeeps == IInv /\ [Next]_vars => IInv'
<1> SUFFICES ASSUME IInv, [Next]_vars PROVE IInv' BY Zenon
<1>1. CASE UNCHANGED vars
  <2>1. UNCHANGED <<table, owner, stored, pc, todo, own, target, guards>> BY <1>1, Zenon DEF vars
  <2>2. TypeOK' BY <2>1, Zenon DEF IInv, NoDeadEntry, TypeOK
  <2>3. EntriesRight' BY <2>1, NoDeadEntryIs, Zenon DEF IInv, EntriesRight, Alive, Strong, Key
  <2>4. \A u \in Threads : ThreadRight(u)' BY <2>1, Zenon DEF IInv, ThreadRight, Key
  <2>5. OneKey' BY <2>1, ZenonT(40) DEF IInv, OneKey, Known, Key
  <2>6. OwnUnknown' BY <2>1, Zenon DEF IInv, OwnUnknown, Known, Key
  <2> QED BY <2>2, <2>3, <2>4, <2>5, <2>6, Zenon DEF IInv, NoDeadEntry, EntriesRight
<1>2. ASSUME NEW t \in Threads, NEW S \in (SUBSET Keys) \ {{}}, Begin(t, S) PROVE IInv'
  BY <1>2, BeginKeeps, Zenon
<1>3. ASSUME NEW t \in Threads, NEW k \in Keys, StoreLock(t, k) PROVE IInv'
  BY <1>3, StoreLockKeeps, Zenon
<1>4. ASSUME NEW t \in Threads, Step(t) PROVE IInv'
  BY <1>4, MakeKeeps, InsertNewKeeps, InsertFoundKeeps, UpgradeKeeps, AcquireKeeps, CleanupKeeps,
     RetryKeeps, UnlockKeeps, DerefKeeps, RemoveKeyKeeps, EndKeeps, ClearLockKeeps, Zenon DEF Step
<1> QED BY <1>1, <1>2, <1>3, <1>4, Zenon DEF Next

\* The inductive invariant: threads lock their keys one after the other, a handle is known
\* for one key, and the handle lock_key makes is its own until it is in the table.
THEOREM LockTableInvariance == Spec => []IInv
BY InitIInv, StepKeeps, PTL DEF Spec

\* No entry of the table is dead without a thread on its way to remove it, however lock_key,
\* the guards' drops and the removals by the handles' Drop interleave.
THEOREM NoEntryStaysDead == Spec => []NoDeadEntry
<1>1. IInv => NoDeadEntry BY Zenon DEF IInv
<1> QED BY <1>1, LockTableInvariance, PTL
=============================================================================

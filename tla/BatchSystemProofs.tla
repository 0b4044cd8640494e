-------------------------- MODULE BatchSystemProofs --------------------------
(***************************************************************************)
(* An FSM is in one place and the marks of a round stay right, for any     *)
(* number of FSMs, pollers and messages.  The lemmas say what the vector   *)
(* operations of a batch do to what it holds; each action then moves at    *)
(* most one FSM from one place to another.                                 *)
(***************************************************************************)
EXTENDS BatchSystem, TLAPS

(***************************************************************************)
(* Sequences.                                                              *)
(***************************************************************************)
LEMMA SeqIs ==
  ASSUME NEW S, NEW q \in Seq(S)
  PROVE  Len(q) \in Nat /\ DOMAIN q = 1 .. Len(q) /\ \A k \in DOMAIN q : k \in Nat /\ k # 0 /\ k <= Len(q) /\ q[k] \in S
OBVIOUS

LEMMA FrontIs ==
  ASSUME NEW S, NEW q \in Seq(S), q # <<>>
  PROVE  /\ Front(q) \in Seq(S) /\ Len(Front(q)) = Len(q) - 1
         /\ \A k \in 1 .. Len(q) - 1 : Front(q)[k] = q[k]
<1>1. Len(q) \in Nat /\ Len(q) # 0 /\ DOMAIN q = 1 .. Len(q) OBVIOUS
<1>2. Front(q) \in Seq(S) BY <1>1 DEF Front
<1>3. Len(Front(q)) = Len(q) - 1 BY <1>1 DEF Front
<1>4. \A k \in 1 .. Len(q) - 1 : Front(q)[k] = q[k] BY <1>1 DEF Front
<1> QED BY <1>2, <1>3, <1>4, Zenon

\* swap_remove: one element less, and only the place it was taken from changes.
LEMMA SwapRemoveIs ==
  ASSUME NEW S, NEW q \in Seq(S), NEW k \in DOMAIN q
  PROVE  /\ SwapRemove(q, k) \in Seq(S) /\ Len(SwapRemove(q, k)) = Len(q) - 1
         /\ \A j \in 1 .. Len(q) - 1 : SwapRemove(q, k)[j] = IF j = k THEN q[Len(q)] ELSE q[j]
<1> PICK r : r = SwapRemove(q, k) BY Zenon
<1>1. Len(q) \in Nat /\ Len(q) # 0 /\ DOMAIN q = 1 .. Len(q) /\ q # <<>> OBVIOUS
<1>2. CASE k = Len(q)
  <2>1. r = Front(q) BY <1>2, Zenon DEF SwapRemove
  <2>a. \A n \in Nat : \A j \in 1 .. n - 1 : j # n OBVIOUS
  <2>2. \A j \in 1 .. Len(q) - 1 : j # k BY <1>1, <1>2, <2>a, Zenon
  <2>3. r \in Seq(S) /\ Len(r) = Len(q) - 1 /\ \A j \in 1 .. Len(q) - 1 : r[j] = q[j]
    BY <1>1, <2>1, FrontIs, Zenon
  <2> QED BY <2>2, <2>3, Zenon
<1>3. CASE k # Len(q)
  <2> DEFINE c == [q EXCEPT ![k] = q[Len(q)]]
  <2>1. c \in Seq(S) /\ Len(c) = Len(q) /\ c # <<>> BY <1>1
  <2>2. \A j \in 1 .. Len(q) : c[j] = IF j = k THEN q[Len(q)] ELSE q[j] BY <1>1, Zenon
  <2>3. \A j \in 1 .. Len(q) - 1 : j \in 1 .. Len(q) BY <1>1
  <2>4. r = Front(c) BY <1>3, Zenon DEF SwapRemove, Last
  <2> HIDE DEF c
  <2>5. r \in Seq(S) /\ Len(r) = Len(c) - 1 /\ \A j \in 1 .. Len(c) - 1 : r[j] = c[j]
    BY <2>1, <2>4, FrontIs, Zenon
  <2>6. Len(r) = Len(q) - 1 BY <2>1, <2>5, Zenon
  <2>7. ASSUME NEW j \in 1 .. Len(q) - 1 PROVE r[j] = IF j = k THEN q[Len(q)] ELSE q[j]
    <3>1. r[j] = c[j] BY <2>1, <2>5, Zenon
    <3>2. c[j] = IF j = k THEN q[Len(q)] ELSE q[j] BY <2>2, <2>3, Zenon
    <3> QED BY <3>1, <3>2, Zenon
  <2> QED BY <2>5, <2>6, <2>7, Zenon
<1>99. /\ r \in Seq(S) /\ Len(r) = Len(q) - 1
       /\ \A j \in 1 .. Len(q) - 1 : r[j] = IF j = k THEN q[Len(q)] ELSE q[j]
  BY <1>2, <1>3, Zenon
<1> QED BY <1>99, Zenon

\* push and swap: one element more, and only the place it was put in changes.
LEMMA PutBackIs ==
  ASSUME NEW S, NEW q \in Seq(S), NEW k \in 1 .. Len(q) + 1, NEW x \in S
  PROVE  /\ PutBack(q, k, x) \in Seq(S) /\ Len(PutBack(q, k, x)) = Len(q) + 1 /\ PutBack(q, k, x)[k] = x
         /\ \A j \in 1 .. Len(q) : j # k => PutBack(q, k, x)[j] = q[j]
         /\ k # Len(q) + 1 => PutBack(q, k, x)[Len(q) + 1] = q[k]
<1> PICK r : r = PutBack(q, k, x) BY Zenon
<1>1. Len(q) \in Nat /\ DOMAIN q = 1 .. Len(q) OBVIOUS
<1>2. CASE k > Len(q)
  <2>1. r = Append(q, x) /\ k = Len(q) + 1 BY <1>1, <1>2 DEF PutBack
  <2> QED BY <1>1, <2>1
<1>3. CASE ~(k > Len(q))
  <2> DEFINE c == [q EXCEPT ![k] = x]
  <2>0. k \in 1 .. Len(q) /\ k # Len(q) + 1 BY <1>1, <1>3
  <2>1. c \in Seq(S) /\ Len(c) = Len(q) BY <1>1, <2>0
  <2>2. c[k] = x /\ \A j \in 1 .. Len(q) : j # k => c[j] = q[j] BY <1>1, <2>0, Zenon
  <2>3. r = Append(c, q[k]) BY <1>3, Zenon DEF PutBack
  <2>4. q[k] \in S BY <1>1, <2>0
  <2> HIDE DEF c
  <2>5. r \in Seq(S) /\ Len(r) = Len(c) + 1 /\ r[Len(c) + 1] = q[k] /\ \A j \in 1 .. Len(c) : r[j] = c[j]
    BY <2>1, <2>3, <2>4
  <2> QED BY <2>0, <2>1, <2>2, <2>5, Zenon
<1>99. /\ r \in Seq(S) /\ Len(r) = Len(q) + 1 /\ r[k] = x
       /\ \A j \in 1 .. Len(q) : j # k => r[j] = q[j]
       /\ k # Len(q) + 1 => r[Len(q) + 1] = q[k]
  BY <1>2, <1>3, Zenon
<1> QED BY <1>99, Zenon

(***************************************************************************)
(* What a sequence holds, and how often.                                   *)
(***************************************************************************)
LEMMA EmptyIn == ASSUME NEW f PROVE ~In(<<>>, f) /\ Once(<<>>, f)
BY DEF In, Once

LEMMA TailIn ==
  ASSUME NEW S, NEW q \in Seq(S), q # <<>>, NEW f
  PROVE  /\ Head(q) \in S /\ Tail(q) \in Seq(S) /\ In(q, Head(q))
         /\ Once(q, f) => Once(Tail(q), f) /\ (f = Head(q) => ~In(Tail(q), f))
         /\ In(Tail(q), f) => In(q, f)
         /\ In(q, f) /\ f # Head(q) => In(Tail(q), f)
<1> PICK h, r : h = Head(q) /\ r = Tail(q) BY Zenon
<1>1. Len(q) \in Nat /\ Len(q) # 0 /\ DOMAIN q = 1 .. Len(q) OBVIOUS
<1>2. h = q[1] /\ 1 \in DOMAIN q BY <1>1
<1>3. h \in S BY <1>2
<1>4. r \in Seq(S) /\ Len(r) = Len(q) - 1 BY <1>1
<1>5. ASSUME NEW k \in DOMAIN r PROVE k + 1 \in DOMAIN q /\ k + 1 # 1 /\ r[k] = q[k + 1] /\ k \in Nat
  <2>1. k \in 1 .. Len(q) - 1 BY <1>4
  <2> QED BY <1>1, <2>1
<1>6. ASSUME NEW k \in DOMAIN q, k # 1 PROVE \E j \in DOMAIN r : r[j] = q[k]
  <2>1. k - 1 \in DOMAIN r /\ (k - 1) + 1 = k BY <1>1, <1>4, <1>6
  <2> QED BY <1>5, <2>1, Zenon
<1>7. ASSUME Once(q, f) PROVE Once(r, f)
  <2> SUFFICES ASSUME NEW j \in DOMAIN r, NEW k \in DOMAIN r, r[j] = f, r[k] = f PROVE j = k
    BY Zenon DEF Once
  <2>1. j + 1 \in DOMAIN q /\ q[j + 1] = f /\ j \in Nat BY <1>5, Zenon
  <2>2. k + 1 \in DOMAIN q /\ q[k + 1] = f /\ k \in Nat BY <1>5, Zenon
  <2>3. j + 1 = k + 1 BY <1>7, <2>1, <2>2, Zenon DEF Once
  <2> QED BY ONLY <2>1, <2>2, <2>3
<1>8. ASSUME Once(q, f), f = h PROVE ~In(r, f) BY <1>2, <1>5, <1>8, Zenon DEF Once, In
<1>9. In(r, f) => In(q, f) BY <1>5, Zenon DEF In
<1>10. In(q, f) /\ f # h => In(r, f) BY <1>2, <1>6, Zenon DEF In
<1>99. /\ h \in S /\ r \in Seq(S) /\ In(q, h)
       /\ Once(q, f) => Once(r, f) /\ (f = h => ~In(r, f))
       /\ In(r, f) => In(q, f)
       /\ In(q, f) /\ f # h => In(r, f)
  BY <1>2, <1>3, <1>4, <1>7, <1>8, <1>9, <1>10, Zenon DEF In
<1> QED BY <1>99, Zenon

LEMMA AppendIn ==
  ASSUME NEW S, NEW q \in Seq(S), NEW x \in S, NEW f
  PROVE  /\ Append(q, x) \in Seq(S) /\ Len(Append(q, x)) = Len(q) + 1 /\ Append(q, x)[Len(q) + 1] = x /\ \A k \in DOMAIN q : k \in DOMAIN Append(q, x) /\ Append(q, x)[k] = q[k]
         /\ Once(q, f) /\ (f = x => ~In(q, f)) => Once(Append(q, x), f)
         /\ In(Append(q, x), f) <=> In(q, f) \/ f = x
<1> PICK r : r = Append(q, x) BY Zenon
<1>1. Len(q) \in Nat /\ DOMAIN q = 1 .. Len(q) OBVIOUS
<1>2. r \in Seq(S) /\ Len(r) = Len(q) + 1 /\ r[Len(q) + 1] = x /\ Len(q) + 1 \in DOMAIN r BY <1>1
<1>3. \A k \in DOMAIN q : k \in DOMAIN r /\ r[k] = q[k] BY <1>1
<1>4. \A k \in DOMAIN r : k \in DOMAIN q \/ k = Len(q) + 1 BY <1>1
<1>5. In(r, f) <=> In(q, f) \/ f = x BY <1>2, <1>3, <1>4, Zenon DEF In
<1>6. ASSUME Once(q, f), f = x => ~In(q, f) PROVE Once(r, f)
  BY <1>2, <1>3, <1>4, <1>6, Zenon DEF Once, In
<1>99. /\ r \in Seq(S) /\ Len(r) = Len(q) + 1 /\ r[Len(q) + 1] = x /\ \A k \in DOMAIN q : k \in DOMAIN r /\ r[k] = q[k]
       /\ Once(q, f) /\ (f = x => ~In(q, f)) => Once(r, f)
       /\ In(r, f) <=> In(q, f) \/ f = x
  BY <1>2, <1>3, <1>5, <1>6, Zenon
<1> QED BY <1>99, Zenon

LEMMA SwapRemoveIn ==
  ASSUME NEW S, NEW q \in Seq(S), NEW k \in DOMAIN q, NEW f
  PROVE  /\ Once(q, f) => Once(SwapRemove(q, k), f) /\ (f = q[k] => ~In(SwapRemove(q, k), f))
         /\ In(SwapRemove(q, k), f) => In(q, f)
         /\ In(q, f) /\ f # q[k] => In(SwapRemove(q, k), f)
<1> PICK r : r = SwapRemove(q, k) BY Zenon
<1>1. Len(q) \in Nat /\ Len(q) # 0 /\ DOMAIN q = 1 .. Len(q) OBVIOUS
<1>2. /\ r \in Seq(S) /\ Len(r) = Len(q) - 1
      /\ \A j \in 1 .. Len(q) - 1 : r[j] = IF j = k THEN q[Len(q)] ELSE q[j]
  BY SwapRemoveIs, Zenon
<1>3. DOMAIN r = 1 .. Len(q) - 1 BY <1>2
<1>4. \A j \in 1 .. Len(q) - 1 : j \in DOMAIN q /\ j # Len(q)
  <2>1. \A n \in Nat : \A j \in 1 .. n - 1 : j \in 1 .. n /\ j # n OBVIOUS
  <2> QED BY <1>1, <2>1, Zenon
<1>5. Len(q) \in DOMAIN q /\ \A j \in DOMAIN q : j # Len(q) => j \in 1 .. Len(q) - 1 BY ONLY <1>1
<1> DEFINE from(j) == IF j = k THEN Len(q) ELSE j
<1>6. \A j \in DOMAIN r : from(j) \in DOMAIN q /\ from(j) # k /\ r[j] = q[from(j)] BY <1>2, <1>3, <1>4, <1>5, Zenon
<1>7. \A j, l \in DOMAIN r : from(j) = from(l) => j = l BY <1>3, <1>4, Zenon
<1>8. \A j \in DOMAIN q : j # k => \E l \in DOMAIN r : r[l] = q[j]
  <2> SUFFICES ASSUME NEW j \in DOMAIN q, j # k PROVE \E l \in DOMAIN r : r[l] = q[j] BY Zenon
  <2>1. CASE j = Len(q)
    <3>1. k \in DOMAIN r BY <1>3, <1>5, <2>1, Zenon
    <3> QED BY <1>2, <1>3, <2>1, <3>1, Zenon
  <2>2. CASE j # Len(q)
    <3>1. j \in DOMAIN r BY <1>3, <1>5, <2>2, Zenon
    <3> QED BY <1>2, <1>3, <3>1, Zenon
  <2> QED BY <2>1, <2>2, Zenon
<1> HIDE DEF from
<1>9. ASSUME Once(q, f) PROVE Once(r, f)
  <2> SUFFICES ASSUME NEW j \in DOMAIN r, NEW l \in DOMAIN r, r[j] = f, r[l] = f PROVE j = l
    BY Zenon DEF Once
  <2>1. from(j) \in DOMAIN q /\ q[from(j)] = f BY <1>6, Zenon
  <2>2. from(l) \in DOMAIN q /\ q[from(l)] = f BY <1>6, Zenon
  <2>3. from(j) = from(l) BY <1>9, <2>1, <2>2, Zenon DEF Once
  <2> QED BY <1>7, <2>3, Zenon
<1>10. ASSUME Once(q, f), f = q[k] PROVE ~In(r, f) BY <1>6, <1>10, Zenon DEF Once, In
<1>11. In(r, f) => In(q, f) BY <1>6, Zenon DEF In
<1>12. In(q, f) /\ f # q[k] => In(r, f) BY <1>8, Zenon DEF In
<1>99. /\ Once(q, f) => Once(r, f) /\ (f = q[k] => ~In(r, f))
       /\ In(r, f) => In(q, f)
       /\ In(q, f) /\ f # q[k] => In(r, f)
  BY <1>9, <1>10, <1>11, <1>12, Zenon
<1> QED BY <1>99, Zenon

LEMMA PutBackIn ==
  ASSUME NEW S, NEW q \in Seq(S), NEW k \in 1 .. Len(q) + 1, NEW x \in S, NEW f
  PROVE  /\ Once(q, f) /\ (f = x => ~In(q, f)) => Once(PutBack(q, k, x), f)
         /\ In(PutBack(q, k, x), f) <=> In(q, f) \/ f = x
<1> PICK r : r = PutBack(q, k, x) BY Zenon
<1>1. Len(q) \in Nat /\ DOMAIN q = 1 .. Len(q) OBVIOUS
<1> DEFINE n == Len(q) + 1
<1>2. /\ r \in Seq(S) /\ Len(r) = n /\ r[k] = x
      /\ \A j \in 1 .. Len(q) : j # k => r[j] = q[j]
      /\ k # n => r[n] = q[k]
  BY PutBackIs
<1>3. DOMAIN r = 1 .. n BY <1>2
<1>4. n \in 1 .. n /\ n \notin DOMAIN q /\ \A j \in 1 .. n : j = n \/ j \in DOMAIN q BY ONLY <1>1
<1>5. \A j \in DOMAIN q : j \in 1 .. n BY ONLY <1>1
<1> HIDE DEF n
<1> DEFINE from(j) == IF j = n THEN k ELSE j
<1>6. \A j \in DOMAIN r : j # k => from(j) \in DOMAIN q /\ r[j] = q[from(j)]
  BY <1>1, <1>2, <1>3, <1>4, Zenon DEF n
<1>7. \A j, l \in DOMAIN r : j # k /\ l # k /\ from(j) = from(l) => j = l BY Zenon
<1>8. k \in DOMAIN r BY <1>3, Zenon DEF n
<1>9. \A j \in DOMAIN q : \E l \in DOMAIN r : r[l] = q[j]
  <2> SUFFICES ASSUME NEW j \in DOMAIN q PROVE \E l \in DOMAIN r : r[l] = q[j] BY Zenon
  <2>1. CASE j = k BY <1>2, <1>3, <1>4, <2>1, Zenon
  <2>2. CASE j # k BY <1>1, <1>2, <1>3, <1>5, <2>2, Zenon
  <2> QED BY <2>1, <2>2, Zenon
<1> HIDE DEF from
<1>10. ASSUME Once(q, f), f = x => ~In(q, f) PROVE Once(r, f)
  <2> SUFFICES ASSUME NEW j \in DOMAIN r, NEW l \in DOMAIN r, r[j] = f, r[l] = f PROVE j = l
    BY Zenon DEF Once
  <2>1. j # k => from(j) \in DOMAIN q /\ q[from(j)] = f BY <1>6, Zenon
  <2>2. l # k => from(l) \in DOMAIN q /\ q[from(l)] = f BY <1>6, Zenon
  <2>3. CASE j = k \/ l = k
    <3>1. f = x BY <1>2, <2>3, Zenon
    <3>2. ~In(q, f) BY <1>10, <3>1, Zenon
    <3> QED BY <2>1, <2>2, <2>3, <3>2, Zenon DEF In
  <2>4. CASE j # k /\ l # k
    <3>1. from(j) = from(l) BY <1>10, <2>1, <2>2, <2>4, Zenon DEF Once
    <3> QED BY <1>7, <2>4, <3>1, Zenon
  <2> QED BY <2>3, <2>4, Zenon
<1>11. In(r, f) <=> In(q, f) \/ f = x
  <2>1. In(r, f) => In(q, f) \/ f = x BY <1>2, <1>6, Zenon DEF In
  <2>2. In(q, f) => In(r, f) BY <1>9, Zenon DEF In
  <2>3. f = x => In(r, f) BY <1>2, <1>8, Zenon DEF In
  <2> QED BY <2>1, <2>2, <2>3, Zenon
<1>99. /\ Once(q, f) /\ (f = x => ~In(q, f)) => Once(r, f)
       /\ In(r, f) <=> In(q, f) \/ f = x
  BY <1>10, <1>11, Zenon
<1> QED BY <1>99, Zenon

\* The Empty markers of a shutdown are no FSMs.
LEMMA MarkersIn ==
  ASSUME NEW S, NEW q \in Seq(S), Empty \in S,
         NEW f, f # Empty
  PROVE  q \o [k \in 1 .. Markers |-> Empty] \in Seq(S) /\ (Once(q, f) => Once(q \o [k \in 1 .. Markers |-> Empty], f)) /\ (In(q \o [k \in 1 .. Markers |-> Empty], f) <=> In(q, f))
<1> PICK r : r = q \o [k \in 1 .. Markers |-> Empty] BY Zenon
<1>1. Len(q) \in Nat /\ DOMAIN q = 1 .. Len(q) OBVIOUS
<1>2. Markers \in Nat BY MarkersAssumption, Zenon
<1> DEFINE e == [k \in 1 .. Markers |-> Empty]
<1>3. e \in Seq(S) /\ Len(e) = Markers BY <1>2
<1>4. \A k \in 1 .. Markers : e[k] = Empty BY Zenon
<1>5. r = q \o e BY Zenon
<1> HIDE DEF e
<1>6. r \in Seq(S) /\ Len(r) = Len(q) + Markers BY <1>1, <1>2, <1>3, <1>5
<1>7. \A k \in DOMAIN q : k \in DOMAIN r /\ r[k] = q[k] BY <1>1, <1>2, <1>3, <1>5
<1>8. ASSUME NEW k \in DOMAIN r, k \notin DOMAIN q PROVE r[k] = Empty
  <2>1. k - Len(q) \in 1 .. Markers BY <1>1, <1>2, <1>6, <1>8
  <2>2. r[k] = e[k - Len(q)] BY <1>1, <1>2, <1>3, <1>5, <1>6, <1>8
  <2> QED BY <1>4, <2>1, <2>2, Zenon
<1>9. Once(q, f) => Once(r, f) BY <1>7, <1>8, Zenon DEF Once
<1>10. In(r, f) <=> In(q, f) BY <1>7, <1>8, Zenon DEF In
<1>99. r \in Seq(S) /\ (Once(q, f) => Once(r, f)) /\ (In(r, f) <=> In(q, f))
  BY <1>6, <1>9, <1>10, Zenon
<1> QED BY <1>99, Zenon

(***************************************************************************)
(* What an action leaves alone.                                            *)
(***************************************************************************)
LEMMA Names == Control \in Fsms /\ Empty \notin Fsms /\ Control \notin Normals /\ Control # Empty /\ Fsms = Normals \cup {Control}
<1>1. Control # Empty BY Zenon DEF Control, Empty
<1> QED BY <1>1, NormalsAssumption, Zenon DEF Fsms

LEMMA Parts ==
  ASSUME IInv
  PROVE  BoxType /\ RoundType /\ ~panicked /\ ShutRight /\ (\A p \in Pollers : BatchRight(p)) /\ \A f \in Fsms : Unique(f)
BY Zenon DEF IInv, TypeOK

LEMMA IInvNext ==
  ASSUME BoxType', RoundType', ~panicked', ShutRight', \A p \in Pollers : BatchRight(p)', \A f \in Fsms : Unique(f)'
  PROVE  IInv'
BY Zenon DEF IInv, TypeOK

LEMMA BoxIs ==
  ASSUME BoxType
  PROVE  /\ chan \in Seq(Fsms \cup {Empty}) /\ mail \in [Fsms -> Nat] /\ sends \in 0 .. MaxMail
         /\ idle \subseteq Fsms /\ closed \subseteq Fsms /\ stopped \subseteq closed
         /\ \A f \in Fsms : mail[f] \in Nat
BY Zenon DEF BoxType

LEMMA RoundIs ==
  ASSUME RoundType, NEW p \in Pollers
  PROVE  /\ normals[p] \in Seq(Normals) /\ timers[p] \in Nat /\ control[p] \in BOOLEAN
         /\ i[p] \in Nat \ {0} /\ hot[p] \in Nat /\ maxb[p] \in Nat
         /\ marks[p] \in Seq(MarkType) /\ held[p] \in Seq(MarkType)
BY Zenon DEF RoundType

\* The round of poller q is left alone.
Same(q) == /\ pc'[q] = pc[q] /\ normals'[q] = normals[q] /\ timers'[q] = timers[q]
           /\ control'[q] = control[q] /\ run'[q] = run[q] /\ i'[q] = i[q]
           /\ marks'[q] = marks[q] /\ held'[q] = held[q]

LEMMA SameRight ==
  ASSUME NEW q \in Pollers, Same(q), BatchRight(q)
  PROVE  BatchRight(q)'
BY Zenon DEF Same, BatchRight

LEMMA OthersRight ==
  ASSUME NEW p \in Pollers, \A q \in Pollers : BatchRight(q), BatchRight(p)',
         \A q \in Pollers : q # p => Same(q)
  PROVE  \A q \in Pollers : BatchRight(q)'
BY SameRight, Zenon

\* An FSM no action moves.
LEMMA StaysUnique ==
  ASSUME NEW f, Unique(f), Once(chan', f), \A p \in Pollers : Once(normals'[p], f),
         In(chan', f) <=> In(chan, f), \A p \in Pollers : Has(p, f)' <=> Has(p, f),
         f \in idle' <=> f \in idle, f \in closed => f \in closed'
  PROVE  Unique(f)'
BY Zenon DEF Unique

\* FSMs of which an action only moves some out of their mailbox, or drops closed ones.
LEMMA SameHas ==
  ASSUME NEW f, UNCHANGED <<normals, control>>
  PROVE  \A p \in Pollers : (Has(p, f)' <=> Has(p, f)) /\ (Once(normals[p], f) => Once(normals'[p], f))
BY Zenon DEF Has

LEMMA InitIInv == Init => IInv
<1> SUFFICES ASSUME Init PROVE IInv BY Zenon
<1>1. BoxType BY BatchAssumption DEF Init, BoxType
<1>2. RoundType BY BatchAssumption DEF Init, RoundType
<1>3. ~panicked BY Zenon DEF Init
<1>4. ShutRight
  <2>1. chan = <<>> /\ shut = "up" /\ \A p \in Pollers : run[p] BY Zenon DEF Init
  <2> QED BY <2>1, EmptyIn, Zenon DEF ShutRight
<1>5. \A p \in Pollers : BatchRight(p) BY DEF Init, BatchRight
<1>6. ASSUME NEW f \in Fsms PROVE Unique(f)
  <2>1. /\ chan = <<>> /\ f \in idle
        /\ \A p \in Pollers : normals[p] = <<>> /\ ~control[p]
    BY Zenon DEF Init
  <2>2. \A p \in Pollers : ~Has(p, f) /\ Once(normals[p], f) BY <2>1, EmptyIn, Zenon DEF Has
  <2>3. ~In(chan, f) /\ Once(chan, f) BY <2>1, EmptyIn, Zenon
  <2> QED BY <2>1, <2>2, <2>3, Zenon DEF Unique
<1> QED BY <1>1, <1>2, <1>3, <1>4, <1>5, <1>6, Zenon DEF IInv, TypeOK

(***************************************************************************)
(* The outside.                                                            *)
(***************************************************************************)
LEMMA SendKeeps ==
  ASSUME IInv, NEW f \in Fsms, Send(f)
  PROVE  IInv'
<1>1. BoxType /\ RoundType /\ ~panicked /\ ShutRight /\ (\A p \in Pollers : BatchRight(p)) /\ \A g \in Fsms : Unique(g)
  BY Parts, Zenon
<1>2. /\ sends < MaxMail /\ sends' = sends + 1 /\ mail' = [mail EXCEPT ![f] = mail[f] + 1] /\ idle' = idle \ {f}
      /\ UNCHANGED <<closed, stopped, shut>>
  BY Zenon DEF Send, Set
<1>3. UNCHANGED <<pc, normals, timers, control, maxb, run, i, hot, marks, held, panicked>> BY Zenon DEF Send, locals
<1>4. (f \in idle /\ chan' = Append(chan, f)) \/ (f \notin idle /\ chan' = chan) BY Zenon DEF Send
<1>5. /\ chan' \in Seq(Fsms \cup {Empty})
      /\ \A g : g # f => (Once(chan, g) => Once(chan', g)) /\ (In(chan', g) <=> In(chan, g))
      /\ f \in idle => (Once(chan, f) /\ ~In(chan, f) => Once(chan', f)) /\ In(chan', f)
  <2>1. chan \in Seq(Fsms \cup {Empty}) BY <1>1, BoxIs, Zenon
  <2>2. CASE f \notin idle BY <1>4, <2>1, <2>2, Zenon
  <2>3. CASE f \in idle
    <3>1. chan' = Append(chan, f) /\ f \in Fsms \cup {Empty} BY <1>4, <2>3, Zenon
    <3>2. ASSUME NEW g
          PROVE  /\ chan' \in Seq(Fsms \cup {Empty})
                 /\ Once(chan, g) /\ (g = f => ~In(chan, g)) => Once(chan', g)
                 /\ In(chan', g) <=> In(chan, g) \/ g = f
      BY ONLY <2>1, <3>1, AppendIn
    <3> QED BY <3>2, Zenon
  <2> QED BY <2>2, <2>3, Zenon
<1>6. BoxType'
  <2>1. mail' \in [Fsms -> Nat] /\ sends' \in 0 .. MaxMail BY <1>1, <1>2, BatchAssumption DEF BoxType
  <2> QED BY <1>1, <1>2, <1>5, <2>1, Zenon DEF BoxType
<1>7. RoundType' BY <1>1, <1>3, Zenon DEF RoundType
<1>8. ShutRight' BY <1>1, <1>2, <1>3, <1>5, Names, Zenon DEF ShutRight
<1>9. \A p \in Pollers : BatchRight(p)' BY <1>1, <1>3, SameRight, Zenon DEF Same
<1>10. ASSUME NEW g \in Fsms PROVE Unique(g)'
  <2>0. Unique(g) BY <1>1, Zenon
  <2>1. \A p \in Pollers : (Has(p, g)' <=> Has(p, g)) /\ Once(normals'[p], g) BY <1>3, <2>0, SameHas, Zenon DEF Unique
  <2>2. CASE g # f \/ f \notin idle
    <3>1. Once(chan', g) /\ (In(chan', g) <=> In(chan, g)) BY <1>4, <1>5, <2>0, <2>2, Zenon DEF Unique
    <3> QED BY <1>2, <2>0, <2>1, <2>2, <3>1, StaysUnique, Zenon
  <2>3. CASE g = f /\ f \in idle
    <3>1. ~In(chan, f) /\ \A p \in Pollers : ~Has(p, f) BY <2>0, <2>3, Zenon DEF Unique
    <3>2. Once(chan', f) /\ In(chan', f) BY <1>5, <2>0, <2>3, <3>1, Zenon DEF Unique
    <3>3. f \notin idle' BY <1>2, Zenon
    <3> QED BY <2>1, <2>3, <3>1, <3>2, <3>3, Zenon DEF Unique
  <2> QED BY <2>2, <2>3, Zenon
<1> QED BY <1>1, <1>3, <1>6, <1>7, <1>8, <1>9, <1>10, IInvNext, Zenon

LEMMA CloseKeeps ==
  ASSUME IInv, NEW f \in Fsms, Close(f)
  PROVE  IInv'
<1>1. BoxType /\ RoundType /\ ~panicked /\ ShutRight /\ (\A p \in Pollers : BatchRight(p)) /\ \A g \in Fsms : Unique(g)
  BY Parts, Zenon
<1>2. closed' = closed \cup {f} /\ idle' = idle \ {f} /\ UNCHANGED <<chan, sends, stopped, shut>>
  BY Zenon DEF Close
<1>3. UNCHANGED <<pc, normals, timers, control, maxb, run, i, hot, marks, held, panicked>> BY Zenon DEF Close, locals
<1>4. mail' = [mail EXCEPT ![f] = 0] \/ mail' = mail BY Zenon DEF Close, Set
<1>5. BoxType'
  <2>1. mail' \in [Fsms -> Nat] BY <1>1, <1>4 DEF BoxType
  <2> QED BY <1>1, <1>2, <2>1, Zenon DEF BoxType
<1>6. RoundType' BY <1>1, <1>3, Zenon DEF RoundType
<1>7. ShutRight'
  <2>1. closed = Fsms => closed' = Fsms BY <1>2, Zenon
  <2> QED BY <1>1, <1>2, <1>3, <2>1, Zenon DEF ShutRight
<1>8. \A p \in Pollers : BatchRight(p)' BY <1>1, <1>3, SameRight, Zenon DEF Same
<1>9. ASSUME NEW g \in Fsms PROVE Unique(g)'
  <2>0. Unique(g) BY <1>1, Zenon
  <2>1. \A p \in Pollers : (Has(p, g)' <=> Has(p, g)) /\ Once(normals'[p], g) BY <1>3, <2>0, SameHas, Zenon DEF Unique
  <2>2. /\ (g \in idle' => g \in idle) /\ (g \notin closed' => g # f /\ g \notin closed)
        /\ g # f => (g \in idle => g \in idle')
    BY <1>2, Zenon
  <2> QED BY <1>2, <2>0, <2>1, <2>2, Zenon DEF Unique
<1> QED BY <1>1, <1>3, <1>5, <1>6, <1>7, <1>8, <1>9, IInvNext, Zenon

LEMMA CloseAllKeeps ==
  ASSUME IInv, CloseAll
  PROVE  IInv'
<1>1. BoxType /\ RoundType /\ ~panicked /\ ShutRight /\ (\A p \in Pollers : BatchRight(p)) /\ \A g \in Fsms : Unique(g)
  BY Parts, Zenon
<1>2. /\ shut = "up" /\ shut' = "closed" /\ closed' = Fsms /\ idle' = {}
      /\ mail' = [f \in Fsms |-> IF f \in idle THEN 0 ELSE mail[f]] /\ UNCHANGED <<chan, sends, stopped>>
  BY Zenon DEF CloseAll
<1>3. UNCHANGED <<pc, normals, timers, control, maxb, run, i, hot, marks, held, panicked>> BY Zenon DEF CloseAll, locals
<1>4. BoxType'
  <2>1. mail' \in [Fsms -> Nat] /\ shut' \in {"up", "closed", "marked"} BY <1>1, <1>2, Zenon DEF BoxType
  <2> QED BY <1>1, <1>2, <2>1, Zenon DEF BoxType
<1>5. RoundType' BY <1>1, <1>3, Zenon DEF RoundType
<1>6. ShutRight'
  <2>1. shut # "marked" BY <1>2, Zenon
  <2> QED BY <1>1, <1>2, <1>3, <2>1, Zenon DEF ShutRight
<1>7. \A p \in Pollers : BatchRight(p)' BY <1>1, <1>3, SameRight, Zenon DEF Same
<1>8. ASSUME NEW g \in Fsms PROVE Unique(g)'
  <2>0. Unique(g) BY <1>1, Zenon
  <2>1. \A p \in Pollers : (Has(p, g)' <=> Has(p, g)) /\ Once(normals'[p], g) BY <1>3, <2>0, SameHas, Zenon DEF Unique
  <2>2. g \notin idle' /\ g \in closed' BY <1>2, Zenon
  <2> QED BY <1>2, <2>0, <2>1, <2>2, Zenon DEF Unique
<1> QED BY <1>1, <1>3, <1>4, <1>5, <1>6, <1>7, <1>8, IInvNext, Zenon

LEMMA SendMarkersKeeps ==
  ASSUME IInv, SendMarkers
  PROVE  IInv'
<1>1. BoxType /\ RoundType /\ ~panicked /\ ShutRight /\ (\A p \in Pollers : BatchRight(p)) /\ \A g \in Fsms : Unique(g)
  BY Parts, Zenon
<1>2. /\ shut = "closed" /\ shut' = "marked" /\ chan' = chan \o [k \in 1 .. Markers |-> Empty]
      /\ UNCHANGED <<mail, sends, idle, closed, stopped>>
  BY Zenon DEF SendMarkers, boxes
<1>3. UNCHANGED <<pc, normals, timers, control, maxb, run, i, hot, marks, held, panicked>> BY Zenon DEF SendMarkers, locals
<1>4. /\ chan' \in Seq(Fsms \cup {Empty})
      /\ \A g \in Fsms : (Once(chan, g) => Once(chan', g)) /\ (In(chan', g) <=> In(chan, g))
  <2>1. chan \in Seq(Fsms \cup {Empty}) /\ Empty \in Fsms \cup {Empty} BY <1>1, BoxIs, Zenon
  <2>2. chan' = chan \o [k \in 1 .. Markers |-> Empty] BY <1>2, Zenon
  <2>3. ASSUME NEW g, g # Empty
        PROVE  /\ chan' \in Seq(Fsms \cup {Empty})
               /\ (Once(chan, g) => Once(chan', g)) /\ (In(chan', g) <=> In(chan, g))
    BY ONLY <2>1, <2>2, <2>3, MarkersIn, Zenon
  <2> QED BY <2>3, Names, Zenon
<1>5. BoxType'
  <2>1. shut' \in {"up", "closed", "marked"} BY <1>2, Zenon
  <2> QED BY <1>1, <1>2, <1>4, <2>1, Zenon DEF BoxType
<1>6. RoundType' BY <1>1, <1>3, Zenon DEF RoundType
<1>7. ShutRight'
  <2>1. closed = Fsms BY <1>1, <1>2, Zenon DEF ShutRight
  <2> QED BY <1>2, <2>1, Zenon DEF ShutRight
<1>8. \A p \in Pollers : BatchRight(p)' BY <1>1, <1>3, SameRight, Zenon DEF Same
<1>9. ASSUME NEW g \in Fsms PROVE Unique(g)'
  <2>0. Unique(g) BY <1>1, Zenon
  <2>1. \A p \in Pollers : (Has(p, g)' <=> Has(p, g)) /\ Once(normals'[p], g) BY <1>3, <2>0, SameHas, Zenon DEF Unique
  <2>2. Once(chan', g) /\ (In(chan', g) <=> In(chan, g)) BY <1>4, <2>0, Zenon DEF Unique
  <2> QED BY <1>2, <2>0, <2>1, <2>2, StaysUnique, Zenon
<1> QED BY <1>1, <1>3, <1>5, <1>6, <1>7, <1>8, <1>9, IInvNext, Zenon

(***************************************************************************)
(* One round: fetching, and the control FSM.                               *)
(***************************************************************************)
\* The program counters that an action of one poller goes to.
Counters == {"fetch", "control", "crelease", "ccheck", "normals", "more", "resched", "check", "exit"}

\* A step of p that goes to c.
LEMMA GotoIs ==
  ASSUME RoundType, NEW p \in Pollers, NEW c \in Counters, pc' = Set(pc, p, c)
  PROVE  /\ pc'[p] = c /\ (\A q \in Pollers : q # p => pc'[q] = pc[q])
         /\ pc' \in [Pollers -> Counters]
<1>1. pc \in [Pollers -> Counters] BY Zenon DEF RoundType, Counters
<1> QED BY <1>1, Zenon DEF Set

LEMMA RoundNext ==
  ASSUME pc' \in [Pollers -> Counters], normals' \in [Pollers -> Seq(Normals)],
         timers' \in [Pollers -> Nat], control' \in [Pollers -> BOOLEAN],
         maxb' \in [Pollers -> Nat], run' \in [Pollers -> BOOLEAN],
         i' \in [Pollers -> Nat \ {0}], hot' \in [Pollers -> Nat],
         marks' \in [Pollers -> Seq(MarkType)], held' \in [Pollers -> Seq(MarkType)]
  PROVE  RoundType'
BY Zenon DEF RoundType, Counters

LEMMA RoundNow ==
  ASSUME RoundType
  PROVE  /\ pc \in [Pollers -> Counters] /\ normals \in [Pollers -> Seq(Normals)]
         /\ timers \in [Pollers -> Nat] /\ control \in [Pollers -> BOOLEAN]
         /\ maxb \in [Pollers -> Nat] /\ run \in [Pollers -> BOOLEAN]
         /\ i \in [Pollers -> Nat \ {0}] /\ hot \in [Pollers -> Nat]
         /\ marks \in [Pollers -> Seq(MarkType)] /\ held \in [Pollers -> Seq(MarkType)]
BY Zenon DEF RoundType, Counters

\* A batch without marks.
LEMMA NoMarks ==
  ASSUME NEW p \in Pollers, marks'[p] = <<>>, pc'[p] # "check", pc'[p] = "ccheck" => ~control'[p],
         Len(normals'[p]) <= timers'[p]
  PROVE  BatchRight(p)'
<1>1. DOMAIN marks'[p] = {} OBVIOUS
<1> QED BY <1>1, Zenon DEF BatchRight

\* An FSM that only p has now.
LEMMA Taken ==
  ASSUME NEW p \in Pollers, NEW f, Once(chan', f), ~In(chan', f), f \notin idle',
         \A q \in Pollers : Once(normals'[q], f), \A q \in Pollers : Has(q, f)' <=> q = p
  PROVE  Unique(f)'
BY Zenon DEF Unique

\* An FSM in its mailbox, or a closed one that was dropped.
LEMMA Given ==
  ASSUME NEW f, Once(chan', f), ~In(chan', f), \A q \in Pollers : Once(normals'[q], f),
         \A q \in Pollers : ~Has(q, f)', f \notin closed' => f \in idle'
  PROVE  Unique(f)'
BY Zenon DEF Unique

\* Batch::push takes the FSM at the head of the channel into the batch of p.
LEMMA PushHeadIs ==
  ASSUME IInv, NEW p \in Pollers, chan # <<>>, Head(chan) # Empty, chan' = Tail(chan), PushHead(p),
         idle' = idle, closed \subseteq closed'
  PROVE  /\ chan' \in Seq(Fsms \cup {Empty}) /\ (In(chan', Empty) => In(chan, Empty)) /\ ~panicked'
         /\ \A f \in Fsms : Unique(f)'
         /\ normals' \in [Pollers -> Seq(Normals)] /\ timers' \in [Pollers -> Nat] /\ control' \in [Pollers -> BOOLEAN]
         /\ \A q \in Pollers : q # p => normals'[q] = normals[q] /\ timers'[q] = timers[q] /\ control'[q] = control[q]
         /\ \/ Head(chan) = Control /\ normals'[p] = normals[p] /\ timers'[p] = timers[p]
            \/ /\ Head(chan) \in Normals /\ normals'[p] = Append(normals[p], Head(chan))
               /\ timers'[p] = timers[p] + 1 /\ control' = control
<1>1. BoxType /\ RoundType /\ ~panicked /\ \A g \in Fsms : Unique(g) BY Parts, Zenon
<1>2. chan \in Seq(Fsms \cup {Empty}) BY <1>1, BoxIs, Zenon
<1>3. /\ normals \in [Pollers -> Seq(Normals)] /\ timers \in [Pollers -> Nat] /\ control \in [Pollers -> BOOLEAN]
      /\ normals[p] \in Seq(Normals) /\ timers[p] \in Nat
  BY <1>1, RoundIs, RoundNow, Zenon
<1>4. ASSUME NEW f
      PROVE  /\ Head(chan) \in Fsms \cup {Empty} /\ chan' \in Seq(Fsms \cup {Empty}) /\ In(chan, Head(chan))
             /\ Once(chan, f) => Once(chan', f) /\ (f = Head(chan) => ~In(chan', f))
             /\ In(chan', f) => In(chan, f)
             /\ In(chan, f) /\ f # Head(chan) => In(chan', f)
  BY <1>2, TailIn, Zenon
<1>5. PICK h : h = Head(chan) /\ h \in Fsms BY <1>4, Zenon
<1>6. Unique(h) /\ In(chan, h) BY <1>1, <1>4, <1>5, Zenon
<1>7. h \notin idle /\ \A q \in Pollers : ~Has(q, h) BY <1>6, Zenon DEF Unique
<1>8. ~In(chan', h) /\ Once(chan', h) BY <1>4, <1>5, <1>6, Zenon DEF Unique
<1>9. CASE h = Control
  <2>1. /\ panicked' = (panicked \/ control[p]) /\ control' = Set(control, p, TRUE) /\ normals' = normals /\ timers' = timers
    BY <1>5, <1>9, Zenon DEF PushHead
  <2>2. ~control[p] BY <1>7, <1>9, Zenon DEF Has
  <2>3. control'[p] = TRUE /\ (\A q \in Pollers : q # p => control'[q] = control[q]) /\ control' \in [Pollers -> BOOLEAN]
    BY <1>3, <2>1, Zenon DEF Set
  <2>4. ASSUME NEW f \in Fsms PROVE Unique(f)'
    <3>0. Unique(f) BY <1>1, Zenon
    <3>1. \A q \in Pollers : Once(normals'[q], f) BY <2>1, <3>0, Zenon DEF Unique
    <3>2. CASE f = h
      <4>1. \A q \in Pollers : Has(q, h)' <=> q = p BY <1>7, <1>9, <2>1, <2>3, Zenon DEF Has
      <4> QED BY <1>7, <1>8, <3>1, <3>2, <4>1, Taken, Zenon
    <3>3. CASE f # h
      <4>1. \A q \in Pollers : Has(q, f)' <=> Has(q, f) BY <1>9, <2>1, <3>3, Zenon DEF Has
      <4>2. Once(chan', f) /\ (In(chan', f) <=> In(chan, f)) BY <1>4, <1>5, <3>0, <3>3, Zenon DEF Unique
      <4> QED BY <3>0, <3>1, <4>1, <4>2, StaysUnique, Zenon
    <3> QED BY <3>2, <3>3, Zenon
  <2>5. ~panicked' BY <1>1, <2>1, <2>2, Zenon
  <2> QED BY <1>3, <1>4, <1>5, <1>9, <2>1, <2>3, <2>4, <2>5, Zenon
<1>10. CASE h # Control
  <2>0. h \in Normals BY <1>5, <1>10, Names, Zenon
  <2>a. normals[p] \in Seq(Normals) BY <1>3, Zenon
  <2>1. /\ normals' = Set(normals, p, Append(normals[p], h)) /\ timers' = Set(timers, p, timers[p] + 1)
        /\ control' = control /\ panicked' = panicked
    BY <1>5, <1>10, Zenon DEF PushHead
  <2>2. ASSUME NEW f
        PROVE  /\ Append(normals[p], h) \in Seq(Normals)
               /\ Once(normals[p], f) /\ (f = h => ~In(normals[p], f)) => Once(Append(normals[p], h), f)
               /\ In(Append(normals[p], h), f) <=> In(normals[p], f) \/ f = h
    BY ONLY <2>0, <2>a, AppendIn
  <2>3. /\ normals'[p] = Append(normals[p], h) /\ (\A q \in Pollers : q # p => normals'[q] = normals[q])
        /\ normals' \in [Pollers -> Seq(Normals)]
    BY <1>3, <2>1, <2>2, Zenon DEF Set
  <2>4. timers[p] + 1 \in Nat BY <1>3
  <2>5. timers'[p] = timers[p] + 1 /\ (\A q \in Pollers : q # p => timers'[q] = timers[q]) /\ timers' \in [Pollers -> Nat]
    BY <1>3, <2>1, <2>4, Zenon DEF Set
  <2>6. ASSUME NEW f \in Fsms PROVE Unique(f)'
    <3>0. Unique(f) BY <1>1, Zenon
    <3>1. \A q \in Pollers : Once(normals[q], f) BY <3>0, Zenon DEF Unique
    <3>2. CASE f = h
      <4>0. \A q \in Pollers : ~In(normals[q], h) BY <1>7, Zenon DEF Has
      <4>1. \A q \in Pollers : Once(normals'[q], h) BY <2>2, <2>3, <3>1, <3>2, <4>0, Zenon
      <4>2. \A q \in Pollers : In(normals'[q], h) <=> q = p BY <2>2, <2>3, <4>0, Zenon
      <4>3. \A q \in Pollers : Has(q, h)' <=> q = p BY <1>10, <4>2, Zenon DEF Has
      <4> QED BY <1>7, <1>8, <3>2, <4>1, <4>3, Taken, Zenon
    <3>3. CASE f # h
      <4>0. \A q \in Pollers : (In(normals'[q], f) <=> In(normals[q], f)) /\ Once(normals'[q], f)
        BY <2>2, <2>3, <3>1, <3>3, Zenon
      <4>1. \A q \in Pollers : Has(q, f)' <=> Has(q, f) BY <2>1, <4>0, Zenon DEF Has
      <4>2. Once(chan', f) /\ (In(chan', f) <=> In(chan, f)) BY <1>4, <1>5, <3>0, <3>3, Zenon DEF Unique
      <4> QED BY <3>0, <4>0, <4>1, <4>2, StaysUnique, Zenon
    <3> QED BY <3>2, <3>3, Zenon
  <2>7. ~panicked' /\ control' \in [Pollers -> BOOLEAN] BY <1>1, <1>3, <2>1, Zenon
  <2> QED BY <1>4, <1>5, <2>0, <2>1, <2>3, <2>5, <2>6, <2>7, Zenon
<1> QED BY <1>9, <1>10, Zenon

\* begin leaves the rest of the round alone.
LEMMA BeginRoundIs ==
  ASSUME RoundType, NEW p \in Pollers, BeginRound(p), normals' \in [Pollers -> Seq(Normals)],
         timers' \in [Pollers -> Nat], control' \in [Pollers -> BOOLEAN]
  PROVE  /\ RoundType' /\ pc'[p] = "control" /\ marks' = marks /\ held' = held /\ run' = run
         /\ \A q \in Pollers : q # p => pc'[q] = pc[q] /\ i'[q] = i[q]
<1>0. /\ pc' = Set(pc, p, "control") /\ i' = Set(i, p, 1) /\ hot' = Set(hot, p, 0) /\ marks' = marks /\ held' = held /\ run' = run
      /\ \E b \in {Len(normals'[p]), MaxBatch} : maxb' = Set(maxb, p, b)
  BY Zenon DEF BeginRound
<1>1. "control" \in Counters /\ 1 \in Nat \ {0} /\ 0 \in Nat BY DEF Counters
<1>2. Len(normals'[p]) \in Nat /\ MaxBatch \in Nat
  <2>1. normals'[p] \in Seq(Normals) BY Zenon
  <2>2. Len(normals'[p]) \in Nat BY <2>1, SeqIs, Zenon
  <2> QED BY <2>2, BatchAssumption, Zenon
<1>3. /\ pc'[p] = "control" /\ (\A q \in Pollers : q # p => pc'[q] = pc[q]) /\ pc' \in [Pollers -> Counters]
  BY <1>0, <1>1, GotoIs, Zenon
<1>4. (\A q \in Pollers : q # p => i'[q] = i[q]) /\ i' \in [Pollers -> Nat \ {0}]
  <2>1. i \in [Pollers -> Nat \ {0}] BY RoundNow, Zenon
  <2> QED BY <1>0, <1>1, <2>1, Zenon DEF Set
<1>5. hot' \in [Pollers -> Nat]
  <2>1. hot \in [Pollers -> Nat] BY RoundNow, Zenon
  <2> QED BY <1>0, <1>1, <2>1, Zenon DEF Set
<1>6. maxb' \in [Pollers -> Nat]
  <2>1. maxb \in [Pollers -> Nat] BY RoundNow, Zenon
  <2>2. PICK b \in Nat : maxb' = Set(maxb, p, b) BY <1>0, <1>2, Zenon
  <2> QED BY <2>1, <2>2, Zenon DEF Set
<1>7. run' \in [Pollers -> BOOLEAN] /\ marks' \in [Pollers -> Seq(MarkType)] /\ held' \in [Pollers -> Seq(MarkType)]
  BY <1>0, RoundNow, Zenon
<1>8. RoundType' BY <1>3, <1>4, <1>5, <1>6, <1>7, RoundNext, Zenon
<1> QED BY <1>0, <1>3, <1>4, <1>8, Zenon

\* A step of p that only goes on to c, and may take mail.
LEMMA GoesOn ==
  ASSUME IInv, NEW p \in Pollers, NEW c \in Counters, pc' = Set(pc, p, c), c # "check", c # "ccheck", pc[p] # "check",
         c \in {"more", "resched"} \/ marks[p] = <<>>, mail' \in [Fsms -> Nat],
         UNCHANGED <<chan, sends, idle, closed, stopped, shut, normals, timers, control, locals, panicked>>
  PROVE  IInv'
<1>1. BoxType /\ RoundType /\ ~panicked /\ ShutRight /\ (\A q \in Pollers : BatchRight(q)) /\ \A g \in Fsms : Unique(g)
  BY Parts, Zenon
<1>2. UNCHANGED <<maxb, run, i, hot, marks, held>> BY Zenon DEF locals
<1>3. pc'[p] = c /\ (\A q \in Pollers : q # p => pc'[q] = pc[q]) /\ pc' \in [Pollers -> Counters]
  BY <1>1, GotoIs, Zenon
<1>4. BoxType' BY <1>1, Zenon DEF BoxType
<1>5. RoundType' BY <1>1, <1>2, <1>3, Zenon DEF RoundType, Counters
<1>6. ShutRight' BY <1>1, <1>2, Zenon DEF ShutRight
<1>7. \A q \in Pollers : q # p => Same(q) BY <1>2, <1>3, Zenon DEF Same
<1>8. BatchRight(p)'
  <2>0. BatchRight(p) BY <1>1, Zenon
  <2>1. Len(normals[p]) <= timers[p] BY <2>0, Zenon DEF BatchRight
  <2>2. CASE marks[p] = <<>> BY <1>2, <1>3, <2>1, <2>2, NoMarks, Zenon
  <2>3. CASE c \in {"more", "resched"}
    <3>1. pc'[p] \notin {"fetch", "control", "crelease", "ccheck", "exit"} /\ pc'[p] # "normals" /\ pc'[p] # "ccheck" BY <1>3, <2>3, Zenon
    <3> QED BY <1>2, <1>3, <2>0, <2>1, <3>1, Zenon DEF BatchRight
  <2> QED BY <2>2, <2>3, Zenon
<1>9. ASSUME NEW g \in Fsms PROVE Unique(g)' BY <1>1, Zenon DEF Unique, Has
<1>10. \A q \in Pollers : BatchRight(q)' BY <1>1, <1>7, <1>8, OthersRight, Zenon
<1> QED BY <1>1, <1>4, <1>5, <1>6, <1>9, <1>10, IInvNext, Zenon

LEMMA MarksEmpty ==
  ASSUME IInv, NEW p \in Pollers, pc[p] \in {"fetch", "control", "crelease", "ccheck", "exit"}
  PROVE  marks[p] = <<>> /\ Len(normals[p]) <= timers[p]
<1>1. BatchRight(p) BY Parts, Zenon
<1>2. pc[p] # "check" BY Zenon
<1> QED BY <1>1, <1>2, Zenon DEF BatchRight

LEMMA NoControlKeeps ==
  ASSUME IInv, NEW p \in Pollers, NoControl(p)
  PROVE  IInv'
<1>1. pc[p] = "control" /\ pc' = Set(pc, p, "normals") BY Zenon DEF NoControl, Goto
<1>2. "normals" \in Counters /\ "normals" # "check" /\ "normals" # "ccheck" /\ pc[p] # "check" /\ pc[p] \in {"fetch", "control", "crelease", "ccheck", "exit"}
  BY <1>1, Zenon DEF Counters
<1>3. marks[p] = <<>> BY <1>2, MarksEmpty, Zenon
<1>4. UNCHANGED <<chan, mail, sends, idle, closed, stopped, shut, normals, timers, control, locals, panicked>>
  BY Zenon DEF NoControl, boxes
<1>5. mail' \in [Fsms -> Nat] BY <1>4, Parts, BoxIs, Zenon
<1> QED BY <1>1, <1>2, <1>3, <1>4, <1>5, GoesOn, Zenon

LEMMA ControlBusyKeeps ==
  ASSUME IInv, NEW p \in Pollers, ControlBusy(p)
  PROVE  IInv'
<1>1. pc[p] = "control" /\ pc' = Set(pc, p, "normals") BY Zenon DEF ControlBusy, Goto
<1>2. "normals" \in Counters /\ "normals" # "check" /\ "normals" # "ccheck" /\ pc[p] # "check" /\ pc[p] \in {"fetch", "control", "crelease", "ccheck", "exit"}
  BY <1>1, Zenon DEF Counters
<1>3. marks[p] = <<>> BY <1>2, MarksEmpty, Zenon
<1>4. UNCHANGED <<chan, sends, idle, closed, stopped, shut, normals, timers, control, locals, panicked>>
  BY Zenon DEF ControlBusy
<1>5. mail' \in [Fsms -> Nat]
  <2>1. mail \in [Fsms -> Nat] BY Parts, BoxIs, Zenon
  <2>2. mail[Control] > 0 /\ \E new \in {0, 1} : mail' = Set(mail, Control, mail[Control] - 1 + new)
    BY Zenon DEF ControlBusy
  <2>a. PICK new \in {0, 1} : mail' = Set(mail, Control, mail[Control] - 1 + new) BY <2>2, Zenon
  <2>3. mail[Control] - 1 + new \in Nat BY <2>1, <2>2, Names
  <2> QED BY <2>1, <2>a, <2>3, Zenon DEF Set
<1> QED BY <1>1, <1>2, <1>3, <1>4, <1>5, GoesOn, Zenon

LEMMA ControlDoneKeeps ==
  ASSUME IInv, NEW p \in Pollers, ControlDone(p)
  PROVE  IInv'
<1>1. pc[p] = "control" /\ pc' = Set(pc, p, "crelease") BY Zenon DEF ControlDone, Goto
<1>2. "crelease" \in Counters /\ "crelease" # "check" /\ "crelease" # "ccheck" /\ pc[p] # "check"
      /\ pc[p] \in {"fetch", "control", "crelease", "ccheck", "exit"}
  BY <1>1, Zenon DEF Counters
<1>3. marks[p] = <<>> BY <1>2, MarksEmpty, Zenon
<1>4. UNCHANGED <<chan, sends, idle, closed, stopped, shut, normals, timers, control, locals, panicked>>
  BY Zenon DEF ControlDone
<1>5. mail' \in [Fsms -> Nat]
  <2>1. mail \in [Fsms -> Nat] /\ 0 \in Nat BY Parts, BoxIs, Zenon
  <2> QED BY <2>1, Zenon DEF ControlDone, Set
<1> QED BY <1>1, <1>2, <1>3, <1>4, <1>5, GoesOn, Zenon

LEMMA NormalsDoneKeeps ==
  ASSUME IInv, NEW p \in Pollers, NormalsDone(p)
  PROVE  IInv'
<1>1. pc[p] = "normals" /\ pc' = Set(pc, p, "more") BY Zenon DEF NormalsDone, Goto
<1>2. "more" \in Counters /\ "more" # "check" /\ "more" # "ccheck" /\ pc[p] # "check" BY <1>1, Zenon DEF Counters
<1>3. UNCHANGED <<chan, mail, sends, idle, closed, stopped, shut, normals, timers, control, locals, panicked>>
  BY Zenon DEF NormalsDone, boxes
<1>4. mail' \in [Fsms -> Nat] BY <1>3, Parts, BoxIs, Zenon
<1>5. "more" \in {"more", "resched"} BY Zenon
<1> QED BY <1>1, <1>2, <1>3, <1>4, <1>5, GoesOn, Zenon

LEMMA MoreNoneKeeps ==
  ASSUME IInv, NEW p \in Pollers, MoreNone(p)
  PROVE  IInv'
<1>1. pc[p] = "more" /\ pc' = Set(pc, p, "resched") BY Zenon DEF MoreNone, Goto
<1>2. "resched" \in Counters /\ "resched" # "check" /\ "resched" # "ccheck" /\ pc[p] # "check" BY <1>1, Zenon DEF Counters
<1>3. UNCHANGED <<chan, mail, sends, idle, closed, stopped, shut, normals, timers, control, locals, panicked>>
  BY Zenon DEF MoreNone, boxes
<1>4. mail' \in [Fsms -> Nat] BY <1>3, Parts, BoxIs, Zenon
<1>5. "resched" \in {"more", "resched"} BY Zenon
<1> QED BY <1>1, <1>2, <1>3, <1>4, <1>5, GoesOn, Zenon

\* Batch::clear drops FSMs that are all closed.
LEMMA ExitKeeps ==
  ASSUME IInv, NEW p \in Pollers, Exit(p), marks[p] = <<>>, closed = Fsms,
         UNCHANGED <<mail, sends, idle, closed, stopped, shut, locals, panicked>>,
         chan' \in Seq(Fsms \cup {Empty}), \A g : (In(chan', g) => In(chan, g)) /\ (Once(chan, g) => Once(chan', g))
  PROVE  IInv'
<1>1. BoxType /\ RoundType /\ ~panicked /\ ShutRight /\ (\A q \in Pollers : BatchRight(q)) /\ \A g \in Fsms : Unique(g)
  BY Parts, Zenon
<1>2. UNCHANGED <<maxb, run, i, hot, marks, held>> BY Zenon DEF locals
<1>3. /\ pc' = Set(pc, p, "exit") /\ normals' = Set(normals, p, <<>>) /\ timers' = Set(timers, p, 0)
      /\ control' = Set(control, p, FALSE)
  BY Zenon DEF Exit
<1>4. "exit" \in Counters /\ "exit" # "check" /\ "exit" # "ccheck" /\ 0 \in Nat /\ <<>> \in Seq(Normals) /\ Len(<<>>) <= 0 BY DEF Counters
<1>5. pc'[p] = "exit" /\ (\A q \in Pollers : q # p => pc'[q] = pc[q]) /\ pc' \in [Pollers -> Counters]
  BY <1>1, <1>3, <1>4, GotoIs, Zenon
<1>6. /\ normals \in [Pollers -> Seq(Normals)] /\ timers \in [Pollers -> Nat] /\ control \in [Pollers -> BOOLEAN]
  BY <1>1, RoundNow, Zenon
<1>7. normals'[p] = <<>> /\ (\A q \in Pollers : q # p => normals'[q] = normals[q]) /\ normals' \in [Pollers -> Seq(Normals)]
  BY <1>3, <1>4, <1>6, Zenon DEF Set
<1>8. timers'[p] = 0 /\ (\A q \in Pollers : q # p => timers'[q] = timers[q]) /\ timers' \in [Pollers -> Nat]
  BY <1>3, <1>4, <1>6, Zenon DEF Set
<1>9. control'[p] = FALSE /\ (\A q \in Pollers : q # p => control'[q] = control[q]) /\ control' \in [Pollers -> BOOLEAN]
  BY <1>3, <1>6, Zenon DEF Set
<1>10. BoxType' BY <1>1, Zenon DEF BoxType
<1>11. RoundType' BY <1>1, <1>2, <1>5, <1>7, <1>8, <1>9, Zenon DEF RoundType, Counters
<1>12. ShutRight' BY <1>1, <1>2, Zenon DEF ShutRight
<1>13. \A q \in Pollers : q # p => Same(q) BY <1>2, <1>5, <1>7, <1>8, <1>9, Zenon DEF Same
<1>14. BatchRight(p)' BY <1>2, <1>4, <1>5, <1>7, <1>8, NoMarks, Zenon
<1>15. ASSUME NEW g \in Fsms PROVE Unique(g)'
  <2>0. Unique(g) BY <1>1, Zenon
  <2>1. \A q \in Pollers : Has(q, g)' => Has(q, g) BY <1>7, <1>9, EmptyIn, Zenon DEF Has
  <2>2. \A q \in Pollers : Once(normals'[q], g) BY <1>7, <2>0, EmptyIn, Zenon DEF Unique
  <2>3. g \in closed' BY Zenon
  <2> QED BY <2>0, <2>1, <2>2, <2>3, Zenon DEF Unique
<1>16. \A q \in Pollers : BatchRight(q)' BY <1>1, <1>13, <1>14, OthersRight, Zenon
<1> QED BY <1>1, <1>10, <1>11, <1>12, <1>15, <1>16, IInvNext, Zenon

LEMMA EndRoundKeeps ==
  ASSUME IInv, NEW p \in Pollers, EndRound(p)
  PROVE  IInv'
<1>1. BoxType /\ RoundType /\ ~panicked /\ ShutRight /\ (\A q \in Pollers : BatchRight(q)) /\ \A g \in Fsms : Unique(g)
  BY Parts, Zenon
<1>2. pc[p] = "resched" /\ marks[p] = <<>> /\ UNCHANGED <<chan, mail, sends, idle, closed, stopped, shut, locals, panicked>>
  BY Zenon DEF EndRound, boxes
<1>3. chan \in Seq(Fsms \cup {Empty}) /\ mail \in [Fsms -> Nat] BY <1>1, BoxIs, Zenon
<1>4. CASE run[p]
  <2>1. pc' = Set(pc, p, "fetch") /\ UNCHANGED <<normals, timers, control>> BY <1>4, Zenon DEF EndRound
  <2>2. "fetch" \in Counters /\ "fetch" # "check" /\ "fetch" # "ccheck" /\ pc[p] # "check" BY <1>2, Zenon DEF Counters
  <2> QED BY <1>2, <1>3, <2>1, <2>2, GoesOn, Zenon
<1>5. CASE ~run[p]
  <2>1. Exit(p) BY <1>5, Zenon DEF EndRound
  <2>2. shut = "marked" BY <1>1, <1>5, Zenon DEF ShutRight
  <2>3. shut # "up" BY <2>2, Zenon
  <2>4. closed = Fsms BY <1>1, <2>3, Zenon DEF ShutRight
  <2> QED BY <1>2, <1>3, <2>1, <2>4, ExitKeeps, Zenon
<1> QED BY <1>4, <1>5, Zenon

LEMMA FetchSomeKeeps ==
  ASSUME IInv, NEW p \in Pollers, FetchSome(p)
  PROVE  IInv'
<1>1. BoxType /\ RoundType /\ ~panicked /\ ShutRight /\ (\A q \in Pollers : BatchRight(q)) /\ \A g \in Fsms : Unique(g)
  BY Parts, Zenon
<1>2. pc[p] = "fetch" /\ ~control[p] /\ chan # <<>> /\ chan' = Tail(chan) /\ UNCHANGED <<mail, sends, idle, closed, stopped, shut>>
  BY Zenon DEF FetchSome, boxes
<1>3. pc[p] \in {"fetch", "control", "crelease", "ccheck", "exit"} BY <1>2, Zenon
<1>4. marks[p] = <<>> /\ Len(normals[p]) <= timers[p] BY <1>3, MarksEmpty, Zenon
<1>5. chan \in Seq(Fsms \cup {Empty}) BY <1>1, BoxIs, Zenon
<1>6. CASE Head(chan) = Empty
  <2>1. Exit(p) /\ UNCHANGED <<locals, panicked>> BY <1>6, Zenon DEF FetchSome
  <2>2. ASSUME NEW f
        PROVE  /\ chan' \in Seq(Fsms \cup {Empty}) /\ In(chan, Head(chan))
               /\ Once(chan, f) => Once(chan', f) /\ (f = Head(chan) => ~In(chan', f))
               /\ In(chan', f) => In(chan, f)
    BY <1>2, <1>5, TailIn, Zenon
  <2>3. shut = "marked" BY <1>1, <1>6, <2>2, Zenon DEF ShutRight
  <2>4. shut # "up" BY <2>3, Zenon
  <2>5. closed = Fsms BY <1>1, <2>4, Zenon DEF ShutRight
  <2>6. chan' \in Seq(Fsms \cup {Empty}) /\ \A g : (In(chan', g) => In(chan, g)) /\ (Once(chan, g) => Once(chan', g))
    BY <2>2, Zenon
  <2> QED BY <1>2, <1>4, <2>1, <2>5, <2>6, ExitKeeps, Zenon
<1>7. CASE Head(chan) # Empty
  <2>1. PushHead(p) /\ BeginRound(p) BY <1>7, Zenon DEF FetchSome
  <2>2. /\ chan' \in Seq(Fsms \cup {Empty}) /\ (In(chan', Empty) => In(chan, Empty)) /\ ~panicked'
        /\ \A f \in Fsms : Unique(f)'
        /\ normals' \in [Pollers -> Seq(Normals)] /\ timers' \in [Pollers -> Nat] /\ control' \in [Pollers -> BOOLEAN]
        /\ \A q \in Pollers : q # p => normals'[q] = normals[q] /\ timers'[q] = timers[q] /\ control'[q] = control[q]
        /\ \/ normals'[p] = normals[p] /\ timers'[p] = timers[p]
           \/ /\ Head(chan) \in Normals /\ normals'[p] = Append(normals[p], Head(chan)) /\ timers'[p] = timers[p] + 1
    BY <1>2, <1>7, <2>1, PushHeadIs, Zenon
  <2>3. /\ RoundType' /\ pc'[p] = "control" /\ marks' = marks /\ held' = held /\ run' = run
        /\ \A q \in Pollers : q # p => pc'[q] = pc[q] /\ i'[q] = i[q]
    BY <1>1, <2>1, <2>2, BeginRoundIs, Zenon
  <2>4. BoxType' BY <1>1, <1>2, <2>2, Zenon DEF BoxType
  <2>5. ShutRight' BY <1>1, <1>2, <2>2, <2>3, Zenon DEF ShutRight
  <2>6. \A q \in Pollers : q # p => Same(q) BY <2>2, <2>3, Zenon DEF Same
  <2>7. Len(normals'[p]) <= timers'[p]
    <3>0. normals[p] \in Seq(Normals) /\ timers[p] \in Nat BY <1>1, RoundIs, Zenon
    <3>1. CASE normals'[p] = normals[p] /\ timers'[p] = timers[p] BY <1>4, <3>1, Zenon
    <3>2. CASE Head(chan) \in Normals /\ normals'[p] = Append(normals[p], Head(chan)) /\ timers'[p] = timers[p] + 1
      <4>1. Len(normals'[p]) = Len(normals[p]) + 1 BY <3>0, <3>2
      <4>2. Len(normals[p]) \in Nat BY <3>0
      <4> QED BY ONLY <1>4, <3>0, <3>2, <4>1, <4>2
    <3> QED BY <2>2, <3>1, <3>2, Zenon
  <2>8. pc'[p] # "check" /\ pc'[p] # "ccheck" BY <2>3, Zenon
  <2>9. BatchRight(p)' BY <1>4, <2>3, <2>7, <2>8, NoMarks, Zenon
  <2>10. \A q \in Pollers : BatchRight(q)' BY <1>1, <2>6, <2>9, OthersRight, Zenon
  <2> QED BY <2>2, <2>3, <2>4, <2>5, <2>10, IInvNext, Zenon
<1> QED BY <1>6, <1>7, Zenon

LEMMA FetchNoneKeeps ==
  ASSUME IInv, NEW p \in Pollers, FetchNone(p)
  PROVE  IInv'
<1>1. BoxType /\ RoundType /\ ~panicked /\ ShutRight /\ (\A q \in Pollers : BatchRight(q)) /\ \A g \in Fsms : Unique(g)
  BY Parts, Zenon
<1>2. pc[p] = "fetch" /\ BeginRound(p) /\ UNCHANGED <<chan, mail, sends, idle, closed, stopped, shut, normals, timers, control, panicked>>
  BY Zenon DEF FetchNone, boxes
<1>3. pc[p] \in {"fetch", "control", "crelease", "ccheck", "exit"} BY <1>2, Zenon
<1>4. marks[p] = <<>> /\ Len(normals[p]) <= timers[p] BY <1>3, MarksEmpty, Zenon
<1>5. normals' \in [Pollers -> Seq(Normals)] /\ timers' \in [Pollers -> Nat] /\ control' \in [Pollers -> BOOLEAN]
  BY <1>1, <1>2, RoundNow, Zenon
<1>6. /\ RoundType' /\ pc'[p] = "control" /\ marks' = marks /\ held' = held /\ run' = run
      /\ \A q \in Pollers : q # p => pc'[q] = pc[q] /\ i'[q] = i[q]
  BY <1>1, <1>2, <1>5, BeginRoundIs, Zenon
<1>7. BoxType' BY <1>1, <1>2, Zenon DEF BoxType
<1>8. ShutRight' BY <1>1, <1>2, <1>6, Zenon DEF ShutRight
<1>9. \A q \in Pollers : q # p => Same(q) BY <1>2, <1>6, Zenon DEF Same
<1>10. pc'[p] # "check" /\ pc'[p] # "ccheck" BY <1>6, Zenon
<1>11. BatchRight(p)' BY <1>2, <1>4, <1>6, <1>10, NoMarks, Zenon
<1>12. \A q \in Pollers : BatchRight(q)' BY <1>1, <1>9, <1>11, OthersRight, Zenon
<1>13. ASSUME NEW g \in Fsms PROVE Unique(g)' BY <1>1, <1>2, Zenon DEF Unique, Has
<1> QED BY <1>1, <1>2, <1>6, <1>7, <1>8, <1>12, <1>13, IInvNext, Zenon

\* The control FSM is in the slot of its own only.
LEMMA HasControl ==
  ASSUME RoundType
  PROVE  \A q \in Pollers : ~In(normals[q], Control) /\ (Has(q, Control) <=> control[q]) /\ Once(normals[q], Control)
<1> SUFFICES ASSUME NEW q \in Pollers PROVE ~In(normals[q], Control) /\ (Has(q, Control) <=> control[q]) /\ Once(normals[q], Control) BY Zenon
<1>1. normals[q] \in Seq(Normals) BY RoundIs, Zenon
<1>2. \A k \in DOMAIN normals[q] : normals[q][k] \in Normals BY <1>1, SeqIs, Zenon
<1> QED BY <1>2, Names, Zenon DEF Has, In, Once

\* A step of p on the control FSM.
LEMMA ControlMoves ==
  ASSUME IInv, NEW p \in Pollers, NEW c \in {"ccheck", "normals"}, pc[p] \in {"control", "crelease", "ccheck"},
         pc' = Set(pc, p, c), NEW b \in BOOLEAN, control' = Set(control, p, b), c = "ccheck" => ~b,
         mail' \in [Fsms -> Nat], idle' \subseteq Fsms, stopped' \subseteq closed,
         UNCHANGED <<chan, sends, closed, shut, normals, timers, locals, panicked>>,
         \A g \in Fsms : g # Control => (g \in idle' <=> g \in idle), Unique(Control)'
  PROVE  IInv'
<1>1. BoxType /\ RoundType /\ ~panicked /\ ShutRight /\ (\A q \in Pollers : BatchRight(q)) /\ \A g \in Fsms : Unique(g)
  BY Parts, Zenon
<1>2. UNCHANGED <<maxb, run, i, hot, marks, held>> BY Zenon DEF locals
<1>3. c \in Counters /\ c # "check" /\ pc[p] \in {"fetch", "control", "crelease", "ccheck", "exit"} BY Zenon DEF Counters
<1>4. marks[p] = <<>> /\ Len(normals[p]) <= timers[p] BY <1>3, MarksEmpty, Zenon
<1>5. pc'[p] = c /\ (\A q \in Pollers : q # p => pc'[q] = pc[q]) /\ pc' \in [Pollers -> Counters]
  BY <1>1, <1>3, GotoIs, Zenon
<1>6. control'[p] = b /\ (\A q \in Pollers : q # p => control'[q] = control[q]) /\ control' \in [Pollers -> BOOLEAN]
  <2>1. control \in [Pollers -> BOOLEAN] BY <1>1, RoundNow, Zenon
  <2> QED BY <2>1, Zenon DEF Set
<1>7. BoxType' BY <1>1, Zenon DEF BoxType
<1>8. RoundType' BY <1>1, <1>2, <1>5, <1>6, Zenon DEF RoundType, Counters
<1>9. ShutRight' BY <1>1, <1>2, Zenon DEF ShutRight
<1>10. \A q \in Pollers : q # p => Same(q) BY <1>2, <1>5, <1>6, Zenon DEF Same
<1>11. BatchRight(p)' BY <1>2, <1>3, <1>4, <1>5, <1>6, NoMarks, Zenon
<1>12. \A q \in Pollers : BatchRight(q)' BY <1>1, <1>10, <1>11, OthersRight, Zenon
<1>13. ASSUME NEW g \in Fsms PROVE Unique(g)'
  <2>1. CASE g = Control BY <2>1, Zenon
  <2>2. CASE g # Control
    <3>1. \A q \in Pollers : Has(q, g)' <=> Has(q, g) BY <2>2, Zenon DEF Has
    <3>2. Unique(g) BY <1>1, Zenon
    <3>3. g \in idle' <=> g \in idle BY <2>2, Zenon
    <3> QED BY <3>1, <3>2, <3>3, Zenon DEF Unique
  <2> QED BY <2>1, <2>2, Zenon
<1> QED BY <1>1, <1>7, <1>8, <1>9, <1>12, <1>13, IInvNext, Zenon

LEMMA ControlReleaseKeeps ==
  ASSUME IInv, NEW p \in Pollers, ControlRelease(p)
  PROVE  IInv'
<1>1. BoxType /\ RoundType /\ ~panicked /\ ShutRight /\ (\A q \in Pollers : BatchRight(q)) /\ \A g \in Fsms : Unique(g)
  BY Parts, Zenon
<1>2. /\ control[p] /\ pc[p] = "crelease" /\ pc' = Set(pc, p, "ccheck") /\ control' = Set(control, p, FALSE)
      /\ mail' \in {mail, Set(mail, Control, 0)} /\ UNCHANGED <<chan, sends, closed, stopped, shut, normals, timers, locals, panicked>>
      /\ (Control \in closed /\ idle' = idle) \/ (Control \notin closed /\ idle' = idle \cup {Control})
  BY Zenon DEF ControlRelease, Goto
<1>3. mail' \in [Fsms -> Nat]
  <2>1. mail \in [Fsms -> Nat] /\ 0 \in Nat BY <1>1, BoxIs, Zenon
  <2> QED BY <1>2, <2>1, Zenon DEF Set
<1>4. idle' \subseteq Fsms /\ stopped' \subseteq closed BY <1>1, <1>2, BoxIs, Names, Zenon
<1>5. /\ Unique(Control) /\ (\A q \in Pollers : Has(q, Control) <=> control[q]) /\ \A q \in Pollers : Once(normals[q], Control)
  BY <1>1, Names, HasControl, Zenon
<1>6. ~In(chan, Control) /\ Once(chan, Control) /\ \A q \in Pollers : control[q] => q = p
  BY <1>2, <1>5, Zenon DEF Unique
<1>7. control \in [Pollers -> BOOLEAN] BY <1>1, RoundNow, Zenon
<1>8. \A q \in Pollers : ~control'[q] BY <1>2, <1>6, <1>7, Zenon DEF Set
<1>a. \A q \in Pollers : ~In(normals[q], Control) BY <1>1, HasControl, Zenon
<1>9. \A q \in Pollers : ~Has(q, Control)' BY <1>2, <1>8, <1>a, Zenon DEF Has
<1>10. Unique(Control)' BY <1>2, <1>5, <1>6, <1>9, Given, Zenon
<1>11. \A g \in Fsms : g # Control => (g \in idle' <=> g \in idle) BY <1>2, Zenon
<1>12. pc[p] \in {"control", "crelease", "ccheck"} /\ "ccheck" \in {"ccheck", "normals"} /\ FALSE \in BOOLEAN BY <1>2, Zenon
<1> QED BY <1>2, <1>3, <1>4, <1>10, <1>11, <1>12, ControlMoves, Zenon

LEMMA ControlStopKeeps ==
  ASSUME IInv, NEW p \in Pollers, ControlStop(p)
  PROVE  IInv'
<1>1. BoxType /\ RoundType /\ ~panicked /\ ShutRight /\ (\A q \in Pollers : BatchRight(q)) /\ \A g \in Fsms : Unique(g)
  BY Parts, Zenon
<1>2. /\ control[p] /\ Control \in closed /\ pc[p] = "control" /\ pc' = Set(pc, p, "normals")
      /\ stopped' = stopped \cup {Control} /\ UNCHANGED <<chan, sends, idle, closed, shut, normals, timers, locals, panicked>>
      /\ \E left \in 0 .. mail[Control] : mail' = Set(mail, Control, left) /\ control' = Set(control, p, left > 0)
  BY Zenon DEF ControlStop, Goto
<1>3. PICK left \in 0 .. mail[Control] : mail' = Set(mail, Control, left) /\ control' = Set(control, p, left > 0)
  BY <1>2, Zenon
<1>a. mail \in [Fsms -> Nat] BY <1>1, BoxIs, Zenon
<1>b. left \in Nat
  <2>1. mail[Control] \in Nat BY <1>a, Names, Zenon
  <2> QED BY <2>1
<1>4. mail' \in [Fsms -> Nat] BY <1>3, <1>a, <1>b, Zenon DEF Set
<1>5. PICK b \in BOOLEAN : b <=> left > 0 BY Zenon
<1>6. b = (left > 0) BY <1>b, <1>5
<1>7. control' = Set(control, p, b) BY <1>3, <1>6, Zenon
<1>8. idle' \subseteq Fsms /\ stopped' \subseteq closed BY <1>1, <1>2, BoxIs, Zenon
<1>9. /\ Unique(Control) /\ (\A q \in Pollers : Has(q, Control) <=> control[q]) /\ \A q \in Pollers : Once(normals[q], Control)
  BY <1>1, Names, HasControl, Zenon
<1>10. ~In(chan, Control) /\ Once(chan, Control) /\ Control \notin idle /\ \A q \in Pollers : control[q] => q = p
  BY <1>2, <1>9, Zenon DEF Unique
<1>11. control \in [Pollers -> BOOLEAN] BY <1>1, RoundNow, Zenon
<1>12. control'[p] = b /\ \A q \in Pollers : q # p => ~control'[q]
  <2>1. control'[p] = b /\ \A q \in Pollers : q # p => control'[q] = control[q] BY <1>7, <1>11, Zenon DEF Set
  <2> QED BY <1>10, <2>1, Zenon
<1>13. \A q \in Pollers : ~In(normals[q], Control) BY <1>1, HasControl, Zenon
<1>14. \A q \in Pollers : Has(q, Control)' <=> control'[q] BY <1>2, <1>13, Zenon DEF Has
<1>15. \A q \in Pollers : Once(normals'[q], Control) BY <1>2, <1>9, Zenon
<1>16. Unique(Control)'
  <2>1. CASE b
    <3>1. \A q \in Pollers : Has(q, Control)' <=> q = p BY <1>12, <1>14, <2>1, Zenon
    <3> QED BY <1>2, <1>10, <1>15, <3>1, Taken, Zenon
  <2>2. CASE ~b
    <3>1. \A q \in Pollers : ~Has(q, Control)' BY <1>12, <1>14, <2>2, Zenon
    <3> QED BY <1>2, <1>10, <1>15, <3>1, Given, Zenon
  <2> QED BY <2>1, <2>2, Zenon
<1>17. pc[p] \in {"control", "crelease", "ccheck"} /\ "normals" \in {"ccheck", "normals"} /\ "normals" # "ccheck" BY <1>2, Zenon
<1> QED BY <1>2, <1>4, <1>7, <1>8, <1>16, <1>17, ControlMoves, Zenon

LEMMA ControlCheckKeeps ==
  ASSUME IInv, NEW p \in Pollers, ControlCheck(p)
  PROVE  IInv'
<1>1. BoxType /\ RoundType /\ ~panicked /\ ShutRight /\ (\A q \in Pollers : BatchRight(q)) /\ \A g \in Fsms : Unique(g)
  BY Parts, Zenon
<1>2. /\ pc[p] = "ccheck" /\ pc' = Set(pc, p, "normals")
      /\ UNCHANGED <<chan, mail, sends, closed, stopped, shut, normals, timers, locals, panicked>>
      /\ \/ Control \in idle /\ control' = Set(control, p, TRUE) /\ idle' = idle \ {Control}
         \/ control' = Set(control, p, FALSE) /\ idle' = idle
  <2>1. /\ pc[p] = "ccheck" /\ pc' = Set(pc, p, "normals")
        /\ UNCHANGED <<chan, mail, sends, closed, stopped, shut, normals, timers, locals, panicked>>
    BY Zenon DEF ControlCheck, Goto
  <2>2. /\ control' = Set(control, p, mail[Control] # 0 /\ Control \in idle)
        /\ idle' = IF mail[Control] # 0 /\ Control \in idle THEN idle \ {Control} ELSE idle
    BY Zenon DEF ControlCheck
  <2>3. CASE mail[Control] # 0 /\ Control \in idle
    <3>1. (mail[Control] # 0 /\ Control \in idle) = TRUE BY <2>3, Zenon
    <3> QED BY <2>1, <2>2, <2>3, <3>1, Zenon
  <2>4. CASE ~(mail[Control] # 0 /\ Control \in idle)
    <3>1. (mail[Control] # 0 /\ Control \in idle) = FALSE BY <2>4, Zenon
    <3> QED BY <2>1, <2>2, <2>4, <3>1, Zenon
  <2> QED BY <2>3, <2>4, Zenon
<1>3. mail' \in [Fsms -> Nat] BY <1>1, <1>2, BoxIs, Zenon
<1>4. idle' \subseteq Fsms /\ stopped' \subseteq closed BY <1>1, <1>2, BoxIs, Zenon
<1>5. /\ Unique(Control) /\ (\A q \in Pollers : Has(q, Control) <=> control[q]) /\ \A q \in Pollers : Once(normals[q], Control)
  BY <1>1, Names, HasControl, Zenon
<1>6. ~control[p] BY <1>1, <1>2, Zenon DEF BatchRight
<1>7. control \in [Pollers -> BOOLEAN] BY <1>1, RoundNow, Zenon
<1>8. pc[p] \in {"control", "crelease", "ccheck"} /\ "normals" \in {"ccheck", "normals"} /\ "normals" # "ccheck" BY <1>2, Zenon
<1>9. \A q \in Pollers : ~In(normals[q], Control) BY <1>1, HasControl, Zenon
<1>10. \A q \in Pollers : (Has(q, Control)' <=> control'[q]) /\ Once(normals'[q], Control) BY <1>2, <1>5, <1>9, Zenon DEF Has
<1>11. \A g \in Fsms : g # Control => (g \in idle' <=> g \in idle) BY <1>2, Zenon
<1>12. CASE Control \in idle /\ control' = Set(control, p, TRUE) /\ idle' = idle \ {Control}
  <2>1. ~In(chan, Control) /\ Once(chan, Control) /\ \A q \in Pollers : ~control[q] BY <1>5, <1>12, Zenon DEF Unique
  <2>2. \A q \in Pollers : control'[q] <=> q = p BY <1>7, <1>12, <2>1, Zenon DEF Set
  <2>3. \A q \in Pollers : Has(q, Control)' <=> q = p BY <1>10, <2>2, Zenon
  <2>4. Control \notin idle' BY <1>12, Zenon
  <2>5. Unique(Control)' BY <1>2, <1>10, <2>1, <2>3, <2>4, Taken, Zenon
  <2>6. TRUE \in BOOLEAN BY Zenon
  <2> QED BY <1>2, <1>3, <1>4, <1>8, <1>11, <1>12, <2>5, <2>6, ControlMoves, Zenon
<1>13. CASE control' = Set(control, p, FALSE) /\ idle' = idle
  <2>1. \A q \in Pollers : control'[q] <=> control[q] BY <1>6, <1>7, <1>13, Zenon DEF Set
  <2>2. \A q \in Pollers : Has(q, Control)' <=> Has(q, Control) BY <1>5, <1>10, <2>1, Zenon
  <2>3. Unique(Control)' BY <1>2, <1>5, <1>10, <1>13, <2>2, Zenon DEF Unique
  <2>4. FALSE \in BOOLEAN BY Zenon
  <2> QED BY <1>2, <1>3, <1>4, <1>8, <1>11, <1>13, <2>3, <2>4, ControlMoves, Zenon
<1> QED BY <1>2, <1>12, <1>13, Zenon

(***************************************************************************)
(* One round: handling the normal FSMs.                                    *)
(***************************************************************************)
LEMMA MarkTypeIs ==
  \A x \in MarkType : x.index \in Nat /\ x.index # 0 /\ x.fsm \in Normals
BY Zenon DEF MarkType

LEMMA Arith ==
  /\ \A a, b, c \in Nat : a <= b /\ b <= c => a <= c
  /\ \A a, b, c \in Nat : a < b /\ b < c => a < c
  /\ \A a, b \in Nat : a # 0 /\ a <= b => a \in 1 .. b
  /\ \A a \in Nat : a < a + 1 /\ a + 1 # 0 /\ a + 1 \in Nat
  /\ \A a, b \in Nat : a <= b => ~(a > b)
OBVIOUS

\* At most one mark, for the k-th normal f.
MarkFor(m, f, k) == m = <<>> \/ \E x \in MarkType : m = <<x>> /\ x.index = k /\ x.fsm = f

\* A mark for the k-th normal, behind those that are there.
LEMMA MarksGrow ==
  ASSUME NEW p \in Pollers, RoundType, BatchRight(p), NEW f, NEW k \in Nat,
         normals'[p] \in Seq(Normals), k <= Len(normals'[p]), normals'[p][k] = f,
         Len(normals[p]) <= Len(normals'[p]), \A j \in DOMAIN normals[p] : normals'[p][j] = normals[p][j],
         \A j \in DOMAIN marks[p] : marks[p][j].index < k,
         NEW m, marks'[p] = marks[p] \o m, MarkFor(m, f, k),
         pc'[p] \in {"normals", "more"}, i'[p] \in Nat, pc'[p] = "normals" => k < i'[p],
         Len(normals'[p]) <= timers'[p]
  PROVE  BatchRight(p)' /\ marks'[p] \in Seq(MarkType)
<1>1. marks[p] \in Seq(MarkType) /\ normals[p] \in Seq(Normals) BY RoundIs, Zenon
<1>2. /\ marks'[p] \in Seq(MarkType)
      /\ \A j \in DOMAIN marks'[p] :
           \/ j \in DOMAIN marks[p] /\ marks'[p][j] = marks[p][j]
           \/ j = Len(marks[p]) + 1 /\ marks'[p][j].index = k /\ marks'[p][j].fsm = f
  <2>1. CASE m = <<>>
    <3>1. marks'[p] = marks[p] BY <1>1, <2>1
    <3> QED BY <1>1, <3>1, Zenon
  <2>2. CASE \E x \in MarkType : m = <<x>> /\ x.index = k /\ x.fsm = f
    <3>1. PICK x \in MarkType : m = <<x>> /\ x.index = k /\ x.fsm = f BY <2>2, Zenon
    <3>2. marks'[p] = Append(marks[p], x) BY <1>1, <3>1
    <3>3. /\ marks'[p] \in Seq(MarkType) /\ Len(marks'[p]) = Len(marks[p]) + 1 /\ marks'[p][Len(marks[p]) + 1] = x
          /\ \A j \in DOMAIN marks[p] : marks'[p][j] = marks[p][j]
      BY ONLY <1>1, <3>1, <3>2, AppendIn
    <3>4. \A j \in DOMAIN marks'[p] : j \in DOMAIN marks[p] \/ j = Len(marks[p]) + 1 BY ONLY <1>1, <3>3
    <3> QED BY <3>1, <3>3, <3>4, Zenon
  <2> QED BY <2>1, <2>2, Zenon DEF MarkFor
<1>3. Len(normals[p]) \in Nat /\ DOMAIN normals[p] = 1 .. Len(normals[p]) /\ Len(normals'[p]) \in Nat BY <1>1, SeqIs, Zenon
<1>4. /\ Len(marks[p]) \in Nat /\ DOMAIN marks[p] = 1 .. Len(marks[p])
      /\ \A j \in DOMAIN marks[p] : j \in Nat /\ marks[p][j] \in MarkType
  BY <1>1, SeqIs, Zenon
<1>5. \A j \in DOMAIN marks[p] : /\ marks[p][j].index \in Nat /\ marks[p][j].index # 0 /\ marks[p][j].index <= Len(normals[p])
                                 /\ normals[p][marks[p][j].index] = marks[p][j].fsm
  BY <1>4, MarkTypeIs, Zenon DEF BatchRight
<1>6. ASSUME NEW j \in DOMAIN marks'[p]
      PROVE  /\ marks'[p][j].index <= Len(normals'[p]) /\ normals'[p][marks'[p][j].index] = marks'[p][j].fsm
             /\ pc'[p] = "normals" => marks'[p][j].index < i'[p]
  <2>1. CASE j \in DOMAIN marks[p] /\ marks'[p][j] = marks[p][j]
    <3>1. /\ marks[p][j].index \in Nat /\ marks[p][j].index # 0 /\ marks[p][j].index <= Len(normals[p])
          /\ normals[p][marks[p][j].index] = marks[p][j].fsm /\ marks[p][j].index < k
      BY <1>5, <2>1, Zenon
    <3>2. marks[p][j].index \in DOMAIN normals[p] BY <1>3, <3>1, Arith, Zenon
    <3>3. marks[p][j].index <= Len(normals'[p]) BY <1>3, <3>1, Arith, Zenon
    <3>4. pc'[p] = "normals" => marks[p][j].index < i'[p] BY <3>1, Arith, Zenon
    <3> QED BY <2>1, <3>1, <3>2, <3>3, <3>4, Zenon
  <2>2. CASE marks'[p][j].index = k /\ marks'[p][j].fsm = f BY <2>2, Zenon
  <2> QED BY <1>2, <2>1, <2>2, Zenon
<1>7. ASSUME NEW j \in DOMAIN marks'[p], NEW l \in DOMAIN marks'[p], j < l
      PROVE  marks'[p][j].index < marks'[p][l].index
  <2>1. CASE j \in DOMAIN marks[p] /\ l \in DOMAIN marks[p] /\ marks'[p][j] = marks[p][j] /\ marks'[p][l] = marks[p][l]
    BY <1>7, <2>1, Zenon DEF BatchRight
  <2>2. CASE j \in DOMAIN marks[p] /\ marks'[p][j] = marks[p][j] /\ marks'[p][l].index = k
    BY <2>2, Zenon
  <2>3. CASE j = Len(marks[p]) + 1
    <3>1. l \in DOMAIN marks[p] \/ l = Len(marks[p]) + 1 BY <1>2, Zenon
    <3> QED BY ONLY <1>4, <1>7, <2>3, <3>1
  <2> QED BY <1>2, <2>1, <2>2, <2>3, Zenon
<1>8. /\ pc'[p] \notin {"fetch", "control", "crelease", "ccheck", "exit"} /\ pc'[p] # "ccheck" /\ pc'[p] # "check" BY Zenon
<1> QED BY <1>2, <1>6, <1>7, <1>8, Zenon DEF BatchRight

LEMMA OutcomeIs ==
  ASSUME BoxType, NEW f \in Fsms, NEW o \in Outcomes(f)
  PROVE  mail[f] - o[1] \in Nat /\ (o[2] = None \/ o[2] \in Nat)
<1>1. mail[f] \in Nat BY BoxIs, Zenon
<1>2. \/ o = <<mail[f], 0, FALSE>> \/ o = <<0, None, FALSE>> \/ o = <<0, mail[f], FALSE>>
      \/ mail[f] > 0 /\ (o = <<1, None, FALSE>> \/ o = <<1, None, TRUE>>)
  BY Zenon DEF Outcomes
<1>3. (o[1] = mail[f] \/ o[1] = 0 \/ (mail[f] > 0 /\ o[1] = 1)) /\ (o[2] = 0 \/ o[2] = None \/ o[2] = mail[f])
  <2>1. CASE o = <<mail[f], 0, FALSE>> BY <2>1, Zenon
  <2>2. CASE o = <<0, None, FALSE>> BY <2>2, Zenon
  <2>3. CASE o = <<0, mail[f], FALSE>> BY <2>3, Zenon
  <2>4. CASE mail[f] > 0 /\ o = <<1, None, FALSE>> BY <2>4, Zenon
  <2>5. CASE mail[f] > 0 /\ o = <<1, None, TRUE>> BY <2>5, Zenon
  <2> QED BY <1>2, <2>1, <2>2, <2>3, <2>4, <2>5, Zenon
<1> QED BY <1>1, <1>3

LEMMA HandleIs ==
  ASSUME BoxType, NEW f \in Fsms, NEW o \in Outcomes(f), Handle(f, o), chan' \in Seq(Fsms \cup {Empty}), shut' = shut
  PROVE  BoxType' /\ closed \subseteq closed' /\ idle' = idle /\ (closed = Fsms => closed' = Fsms)
<1>1. mail \in [Fsms -> Nat] /\ closed \subseteq Fsms /\ stopped \subseteq closed BY BoxIs, Zenon
<1>2. mail[f] - o[1] \in Nat BY OutcomeIs, Zenon
<1>3. /\ mail' = Set(mail, f, mail[f] - o[1]) /\ sends' = sends /\ idle' = idle
      /\ \/ stopped' = stopped /\ closed' = closed
         \/ stopped' = stopped \cup {f} /\ closed' = closed \cup {f}
  BY Zenon DEF Handle
<1>4. mail' \in [Fsms -> Nat] BY <1>1, <1>2, <1>3, Zenon DEF Set
<1>5. closed \subseteq closed' /\ closed' \subseteq Fsms /\ stopped' \subseteq closed' BY <1>1, <1>3, Zenon
<1>6. closed = Fsms => closed' = Fsms BY <1>5, Zenon
<1>7. BoxType' BY <1>3, <1>4, <1>5, Zenon DEF BoxType
<1> QED BY <1>3, <1>5, <1>6, <1>7, Zenon

LEMMA MarkIs ==
  ASSUME NEW f \in Normals, NEW k \in Nat \ {0}, NEW policy \in Policies, NEW len \in Nat
  PROVE  Mark(f, k, policy, len) \in MarkType /\ Mark(f, k, policy, len).index = k /\ Mark(f, k, policy, len).fsm = f
BY Zenon DEF Mark, MarkType

LEMMA MarkOfIs ==
  ASSUME BoxType, NEW f \in Normals, NEW k \in Nat \ {0}, NEW o \in Outcomes(f), NEW cold
  PROVE  MarkFor(MarkOf(f, k, o, cold), f, k)
<1>0. f \in Fsms BY Names, Zenon
<1>1. o[2] = None \/ o[2] \in Nat BY <1>0, OutcomeIs, Zenon
<1>2. "Remove" \in Policies /\ "Schedule" \in Policies /\ "Release" \in Policies /\ 0 \in Nat BY Zenon DEF Policies
<1>3. CASE o[3] \/ f \in stopped
  <2>1. MarkOf(f, k, o, cold) = <<Mark(f, k, "Remove", 0)>> BY <1>3, Zenon DEF MarkOf
  <2>2. Mark(f, k, "Remove", 0) \in MarkType /\ Mark(f, k, "Remove", 0).index = k /\ Mark(f, k, "Remove", 0).fsm = f
    BY <1>1, <1>2, <1>3, MarkIs
  <2> QED BY <2>1, <2>2, Zenon DEF MarkFor
<1>4. CASE ~(o[3] \/ f \in stopped) /\ ~cold
  <2>1. MarkOf(f, k, o, cold) = <<Mark(f, k, "Schedule", 0)>> BY <1>4, Zenon DEF MarkOf
  <2>2. Mark(f, k, "Schedule", 0) \in MarkType /\ Mark(f, k, "Schedule", 0).index = k /\ Mark(f, k, "Schedule", 0).fsm = f
    BY <1>1, <1>2, <1>4, MarkIs
  <2> QED BY <2>1, <2>2, Zenon DEF MarkFor
<1>5. CASE ~(o[3] \/ f \in stopped) /\ ~(~cold) /\ o[2] # None
  <2>1. MarkOf(f, k, o, cold) = <<Mark(f, k, "Release", o[2])>> BY <1>5, Zenon DEF MarkOf
  <2>2. Mark(f, k, "Release", o[2]) \in MarkType /\ Mark(f, k, "Release", o[2]).index = k /\ Mark(f, k, "Release", o[2]).fsm = f
    BY <1>1, <1>2, <1>5, MarkIs
  <2> QED BY <2>1, <2>2, Zenon DEF MarkFor
<1>6. CASE ~(o[3] \/ f \in stopped) /\ ~(~cold) /\ ~(o[2] # None)
  <2>1. MarkOf(f, k, o, cold) = <<>> BY <1>6, Zenon DEF MarkOf
  <2> QED BY <2>1, Zenon DEF MarkFor
<1> QED BY <1>3, <1>4, <1>5, <1>6, Zenon

LEMMA HandleNormalKeeps ==
  ASSUME IInv, NEW p \in Pollers, HandleNormal(p)
  PROVE  IInv'
<1>1. BoxType /\ RoundType /\ ~panicked /\ ShutRight /\ (\A q \in Pollers : BatchRight(q)) /\ \A g \in Fsms : Unique(g)
  BY Parts, Zenon
<1>2. /\ pc[p] = "normals" /\ i[p] <= Len(normals[p]) /\ i' = Set(i, p, i[p] + 1)
      /\ UNCHANGED <<chan, shut, pc, normals, timers, control, maxb, run, held>>
  BY Zenon DEF HandleNormal
<1>3. PICK f : f = normals[p][i[p]] BY Zenon
<1>4. PICK o, h, cold, stop :
        /\ o \in Outcomes(f)
        /\ h = hot[p] + 1 \/ h = hot[p]
        /\ Handle(f, o) /\ hot' = Set(hot, p, h)
        /\ marks' = Set(marks, p, marks[p] \o MarkOf(f, i[p], o, cold))
        /\ panicked' = (panicked \/ (~stop /\ i[p] > timers[p]))
  BY <1>3, Zenon DEF HandleNormal
<1>5. /\ normals[p] \in Seq(Normals) /\ timers[p] \in Nat /\ i[p] \in Nat /\ i[p] # 0 /\ hot[p] \in Nat
      /\ marks[p] \in Seq(MarkType) /\ BatchRight(p)
  BY <1>1, RoundIs, Zenon
<1>6. Len(normals[p]) \in Nat /\ DOMAIN normals[p] = 1 .. Len(normals[p]) BY <1>5, SeqIs, Zenon
<1>7. i[p] \in DOMAIN normals[p] BY <1>2, <1>5, <1>6, Arith, Zenon
<1>8. f \in Normals /\ f \in Fsms BY <1>3, <1>5, <1>7, SeqIs, Names, Zenon
<1>9. BoxType' /\ closed \subseteq closed' /\ idle' = idle /\ (closed = Fsms => closed' = Fsms)
  <2>1. chan' \in Seq(Fsms \cup {Empty}) BY <1>1, <1>2, BoxIs, Zenon
  <2> QED BY <1>1, <1>2, <1>4, <1>8, <2>1, HandleIs, Zenon
<1>10. pc[p] # "check" BY <1>2, Zenon
<1>11. Len(normals[p]) <= timers[p] BY <1>5, <1>10, Zenon DEF BatchRight
<1>12. ~panicked'
  <2>1. i[p] <= timers[p] BY <1>2, <1>5, <1>6, <1>11, Arith, Zenon
  <2>2. ~(i[p] > timers[p]) BY <1>5, <2>1, Arith, Zenon
  <2> QED BY <1>1, <1>4, <2>2, Zenon
<1>13. i \in [Pollers -> Nat \ {0}] /\ hot \in [Pollers -> Nat] /\ marks \in [Pollers -> Seq(MarkType)] BY <1>1, RoundNow, Zenon
<1>14. i'[p] = i[p] + 1 /\ (\A q \in Pollers : q # p => i'[q] = i[q]) /\ i' \in [Pollers -> Nat \ {0}]
  <2>1. i[p] + 1 \in Nat \ {0} BY <1>5
  <2> QED BY <1>2, <1>13, <2>1, Zenon DEF Set
<1>15. hot' \in [Pollers -> Nat]
  <2>1. h \in Nat BY <1>4, <1>5
  <2> QED BY <1>4, <1>13, <2>1, Zenon DEF Set
<1>16. PICK m : m = MarkOf(f, i[p], o, cold) BY Zenon
<1>17. marks'[p] = marks[p] \o m /\ \A q \in Pollers : q # p => marks'[q] = marks[q]
  BY <1>4, <1>13, <1>16, Zenon DEF Set
<1>18. BatchRight(p)' /\ marks'[p] \in Seq(MarkType)
  <2>1. MarkFor(m, f, i[p])
    <3>1. i[p] \in Nat \ {0} BY <1>5, Zenon
    <3> QED BY <1>1, <1>4, <1>8, <1>16, <3>1, MarkOfIs, Zenon
  <2>2. \A j \in DOMAIN marks[p] : marks[p][j].index < i[p] BY <1>2, <1>5, Zenon DEF BatchRight
  <2>3. pc'[p] = "normals" /\ pc'[p] \in {"normals", "more"} BY <1>2, Zenon
  <2>4. normals'[p] = normals[p] /\ timers'[p] = timers[p] BY <1>2, Zenon
  <2>5. i'[p] \in Nat /\ i[p] < i'[p] /\ Len(normals[p]) <= Len(normals'[p]) BY <1>5, <1>6, <1>14, <2>4
  <2>6. normals'[p] \in Seq(Normals) /\ i[p] <= Len(normals'[p]) /\ normals'[p][i[p]] = f /\ Len(normals'[p]) <= timers'[p]
        /\ \A j \in DOMAIN normals[p] : normals'[p][j] = normals[p][j]
    BY <1>2, <1>3, <1>5, <1>11, <2>4, Zenon
  <2> QED BY <1>1, <1>5, <1>17, <2>1, <2>2, <2>3, <2>5, <2>6, MarksGrow, Zenon
<1>19. marks' \in [Pollers -> Seq(MarkType)]
  <2>1. marks[p] \o m \in Seq(MarkType) BY <1>17, <1>18, Zenon
  <2> QED BY <1>4, <1>13, <1>16, <2>1, Zenon DEF Set
<1>20. RoundType' BY <1>1, <1>2, <1>14, <1>15, <1>19, Zenon DEF RoundType
<1>21. ShutRight' BY <1>1, <1>2, <1>9, Zenon DEF ShutRight
<1>22. \A q \in Pollers : q # p => Same(q) BY <1>2, <1>14, <1>17, Zenon DEF Same
<1>23. \A q \in Pollers : BatchRight(q)' BY <1>1, <1>18, <1>22, OthersRight, Zenon
<1>24. ASSUME NEW g \in Fsms PROVE Unique(g)'
  <2>1. Unique(g) /\ (g \in closed => g \in closed') BY <1>1, <1>9, Zenon
  <2> QED BY <1>2, <1>9, <2>1, Zenon DEF Unique, Has
<1> QED BY <1>9, <1>12, <1>20, <1>21, <1>23, <1>24, IInvNext, Zenon

LEMMA MoreNormalKeeps ==
  ASSUME IInv, NEW p \in Pollers, MoreNormal(p)
  PROVE  IInv'
<1>1. BoxType /\ RoundType /\ ~panicked /\ ShutRight /\ (\A q \in Pollers : BatchRight(q)) /\ \A g \in Fsms : Unique(g)
  BY Parts, Zenon
<1>2. /\ pc[p] = "more" /\ chan # <<>> /\ Head(chan) \in Normals /\ chan' = Tail(chan) /\ PushHead(p)
      /\ UNCHANGED <<shut, pc, maxb, run, i, hot, held>>
  BY Zenon DEF MoreNormal
<1>3. PICK f : f = Head(chan) BY Zenon
<1>4. PICK o : o \in Outcomes(f) /\ Handle(f, o) /\ marks' = Set(marks, p, marks[p] \o MarkOf(f, Len(normals[p]) + 1, o, TRUE))
  BY <1>3, Zenon DEF MoreNormal
<1>5. f \in Normals /\ f \in Fsms /\ f # Control /\ Head(chan) # Empty BY <1>2, <1>3, Names, Zenon
<1>6. chan' \in Seq(Fsms \cup {Empty})
  <2>1. chan \in Seq(Fsms \cup {Empty}) BY <1>1, BoxIs, Zenon
  <2> QED BY <1>2, <2>1, TailIn, Zenon
<1>7. BoxType' /\ closed \subseteq closed' /\ idle' = idle /\ (closed = Fsms => closed' = Fsms)
  BY <1>1, <1>2, <1>4, <1>5, <1>6, HandleIs, Zenon
<1>8. /\ (In(chan', Empty) => In(chan, Empty)) /\ ~panicked' /\ \A g \in Fsms : Unique(g)'
      /\ normals' \in [Pollers -> Seq(Normals)] /\ timers' \in [Pollers -> Nat] /\ control' \in [Pollers -> BOOLEAN]
      /\ \A q \in Pollers : q # p => normals'[q] = normals[q] /\ timers'[q] = timers[q] /\ control'[q] = control[q]
      /\ normals'[p] = Append(normals[p], f) /\ timers'[p] = timers[p] + 1
  BY <1>2, <1>3, <1>5, <1>7, PushHeadIs, Zenon
<1>9. /\ normals[p] \in Seq(Normals) /\ timers[p] \in Nat /\ marks[p] \in Seq(MarkType) /\ i[p] \in Nat /\ BatchRight(p)
  BY <1>1, RoundIs, Zenon
<1>10. PICK k : k = Len(normals[p]) + 1 BY Zenon
<1>11. /\ Len(normals[p]) \in Nat /\ DOMAIN normals[p] = 1 .. Len(normals[p]) /\ Len(normals'[p]) = k /\ normals'[p][k] = f
       /\ \A j \in DOMAIN normals[p] : normals'[p][j] = normals[p][j]
  <2>1. Len(normals[p]) \in Nat /\ DOMAIN normals[p] = 1 .. Len(normals[p]) BY <1>9, SeqIs, Zenon
  <2>2. normals[p] \in Seq(Normals) /\ normals'[p] = Append(normals[p], f) BY <1>8, <1>9, Zenon
  <2> QED BY ONLY <1>5, <1>10, <2>1, <2>2, AppendIn
<1>12. pc[p] # "check" BY <1>2, Zenon
<1>13. Len(normals[p]) <= timers[p] BY <1>9, <1>12, Zenon DEF BatchRight
<1>14. /\ k \in Nat \ {0} /\ k \in Nat /\ k <= Len(normals'[p]) /\ Len(normals[p]) <= Len(normals'[p])
       /\ Len(normals'[p]) <= timers'[p] /\ \A n \in Nat : n <= Len(normals[p]) => n < k
  BY ONLY <1>8, <1>9, <1>10, <1>11, <1>13
<1>15. PICK m : m = MarkOf(f, k, o, TRUE) BY Zenon
<1>16. marks \in [Pollers -> Seq(MarkType)] BY <1>1, RoundNow, Zenon
<1>17. marks'[p] = marks[p] \o m /\ \A q \in Pollers : q # p => marks'[q] = marks[q]
  BY <1>4, <1>10, <1>15, <1>16, Zenon DEF Set
<1>18. BatchRight(p)' /\ marks'[p] \in Seq(MarkType)
  <2>1. MarkFor(m, f, k) BY <1>1, <1>4, <1>5, <1>14, <1>15, MarkOfIs, Zenon
  <2>2. \A j \in DOMAIN marks[p] : marks[p][j].index < k
    <3>1. \A j \in DOMAIN marks[p] : marks[p][j].index \in Nat BY <1>9, SeqIs, MarkTypeIs, Zenon
    <3> QED BY <1>9, <1>14, <3>1, Zenon DEF BatchRight
  <2>3. pc'[p] # "normals" /\ pc'[p] \in {"normals", "more"} BY <1>2, Zenon
  <2>4. normals'[p] \in Seq(Normals) /\ i'[p] \in Nat BY <1>2, <1>8, <1>9, Zenon
  <2> QED BY <1>1, <1>9, <1>11, <1>14, <1>17, <2>1, <2>2, <2>3, <2>4, MarksGrow, Zenon
<1>19. marks' \in [Pollers -> Seq(MarkType)]
  <2>1. marks[p] \o m \in Seq(MarkType) BY <1>17, <1>18, Zenon
  <2> QED BY <1>4, <1>10, <1>15, <1>16, <2>1, Zenon DEF Set
<1>20. RoundType' BY <1>1, <1>2, <1>8, <1>19, Zenon DEF RoundType
<1>21. ShutRight' BY <1>1, <1>2, <1>7, <1>8, Zenon DEF ShutRight
<1>22. \A q \in Pollers : q # p => Same(q) BY <1>2, <1>8, <1>17, Zenon DEF Same
<1>23. \A q \in Pollers : BatchRight(q)' BY <1>1, <1>18, <1>22, OthersRight, Zenon
<1> QED BY <1>7, <1>8, <1>20, <1>21, <1>23, IInvNext, Zenon

LEMMA ReschedRight ==
  ASSUME NEW p \in Pollers, BatchRight(p), pc[p] = "more", pc'[p] = "resched",
         normals'[p] = normals[p], timers'[p] = timers[p], marks'[p] = marks[p]
  PROVE  BatchRight(p)'
<1>1. pc[p] # "check" /\ pc'[p] \notin {"fetch", "control", "crelease", "ccheck", "exit"} /\ pc'[p] # "normals" /\ pc'[p] # "ccheck" /\ pc'[p] # "check"
  BY Zenon
<1> QED BY <1>1, Zenon DEF BatchRight

LEMMA MoreOtherKeeps ==
  ASSUME IInv, NEW p \in Pollers, MoreOther(p)
  PROVE  IInv'
<1>1. BoxType /\ RoundType /\ ~panicked /\ ShutRight /\ (\A q \in Pollers : BatchRight(q)) /\ \A g \in Fsms : Unique(g)
  BY Parts, Zenon
<1>2. /\ chan # <<>> /\ Head(chan) \notin Normals /\ chan' = Tail(chan) /\ pc[p] = "more" /\ pc' = Set(pc, p, "resched")
      /\ UNCHANGED <<mail, sends, idle, closed, stopped, shut, maxb, i, hot, marks, held>>
  BY Zenon DEF MoreOther, Goto, boxes
<1>3. "resched" \in Counters BY Zenon DEF Counters
<1>4. pc'[p] = "resched" /\ (\A q \in Pollers : q # p => pc'[q] = pc[q]) /\ pc' \in [Pollers -> Counters]
  BY <1>1, <1>2, <1>3, GotoIs, Zenon
<1>5. BatchRight(p) /\ run \in [Pollers -> BOOLEAN] BY <1>1, RoundNow, Zenon
<1>6. chan \in Seq(Fsms \cup {Empty}) BY <1>1, BoxIs, Zenon
<1>7. CASE Head(chan) = Empty
  <2>1. run' = Set(run, p, FALSE) /\ UNCHANGED <<normals, timers, control, panicked>> BY <1>7, Zenon DEF MoreOther
  <2>2. ASSUME NEW f
        PROVE  /\ chan' \in Seq(Fsms \cup {Empty}) /\ In(chan, Head(chan))
               /\ Once(chan, f) => Once(chan', f)
               /\ In(chan', f) => In(chan, f)
               /\ In(chan, f) /\ f # Head(chan) => In(chan', f)
    BY <1>2, <1>6, TailIn, Zenon
  <2>3. run' \in [Pollers -> BOOLEAN] /\ \A q \in Pollers : q # p => run'[q] = run[q] BY <1>5, <2>1, Zenon DEF Set
  <2>4. shut = "marked" BY <1>1, <1>7, <2>2, Zenon DEF ShutRight
  <2>5. BoxType' BY <1>1, <1>2, <2>2, Zenon DEF BoxType
  <2>6. RoundType' BY <1>1, <1>2, <1>4, <2>1, <2>3, Zenon DEF RoundType, Counters
  <2>7. ShutRight' BY <1>1, <1>2, <2>4, Zenon DEF ShutRight
  <2>8. \A q \in Pollers : q # p => Same(q) BY <1>2, <1>4, <2>1, <2>3, Zenon DEF Same
  <2>9. BatchRight(p)' BY <1>2, <1>4, <1>5, <2>1, ReschedRight, Zenon
  <2>10. \A q \in Pollers : BatchRight(q)' BY <1>1, <2>8, <2>9, OthersRight, Zenon
  <2>11. ASSUME NEW g \in Fsms PROVE Unique(g)'
    <3>1. Unique(g) /\ g # Head(chan) BY <1>1, <1>7, Names, Zenon
    <3>2. Once(chan', g) /\ (In(chan', g) <=> In(chan, g)) BY <2>2, <3>1, Zenon DEF Unique
    <3> QED BY <1>2, <2>1, <3>1, <3>2, Zenon DEF Unique, Has
  <2> QED BY <1>1, <2>1, <2>5, <2>6, <2>7, <2>10, <2>11, IInvNext, Zenon
<1>8. CASE Head(chan) # Empty
  <2>1. PushHead(p) /\ run' = run BY <1>8, Zenon DEF MoreOther
  <2>2. /\ chan' \in Seq(Fsms \cup {Empty}) /\ (In(chan', Empty) => In(chan, Empty)) /\ ~panicked'
        /\ \A g \in Fsms : Unique(g)'
        /\ normals' \in [Pollers -> Seq(Normals)] /\ timers' \in [Pollers -> Nat] /\ control' \in [Pollers -> BOOLEAN]
        /\ \A q \in Pollers : q # p => normals'[q] = normals[q] /\ timers'[q] = timers[q] /\ control'[q] = control[q]
        /\ normals'[p] = normals[p] /\ timers'[p] = timers[p]
    BY <1>2, <1>8, <2>1, PushHeadIs, Zenon
  <2>3. BoxType' BY <1>1, <1>2, <2>2, Zenon DEF BoxType
  <2>4. RoundType' BY <1>1, <1>2, <1>4, <2>1, <2>2, Zenon DEF RoundType, Counters
  <2>5. ShutRight' BY <1>1, <1>2, <2>1, <2>2, Zenon DEF ShutRight
  <2>6. \A q \in Pollers : q # p => Same(q) BY <1>2, <1>4, <2>1, <2>2, Zenon DEF Same
  <2>7. BatchRight(p)' BY <1>2, <1>4, <1>5, <2>2, ReschedRight, Zenon
  <2>8. \A q \in Pollers : BatchRight(q)' BY <1>1, <2>6, <2>7, OthersRight, Zenon
  <2> QED BY <2>2, <2>3, <2>4, <2>5, <2>8, IInvNext, Zenon
<1> QED BY <1>7, <1>8, Zenon

(***************************************************************************)
(* The end of the round.                                                   *)
(***************************************************************************)
\* The last mark names a slot of the batch, and those before it smaller slots.
LEMMA LastMark ==
  ASSUME IInv, NEW p \in Pollers, marks[p] # <<>>, NEW m, m = Last(marks[p]), NEW r, r = Front(marks[p])
  PROVE  /\ m \in MarkType /\ m.index \in DOMAIN normals[p] /\ normals[p][m.index] = m.fsm /\ m.fsm \in Normals
         /\ r \in Seq(MarkType)
         /\ \A k \in DOMAIN r : k \in DOMAIN marks[p] /\ r[k] = marks[p][k] /\ r[k] \in MarkType /\ r[k].index < m.index
<1>1. BatchRight(p) /\ RoundType BY Parts, Zenon
<1>2. marks[p] \in Seq(MarkType) /\ normals[p] \in Seq(Normals) BY <1>1, RoundIs, Zenon
<1>3. Len(marks[p]) \in Nat /\ DOMAIN marks[p] = 1 .. Len(marks[p]) /\ Len(marks[p]) # 0 BY <1>2
<1>4. Len(marks[p]) \in DOMAIN marks[p] /\ \A k \in 1 .. Len(marks[p]) - 1 : k \in DOMAIN marks[p] /\ k < Len(marks[p]) BY ONLY <1>3
<1>5. m = marks[p][Len(marks[p])] BY Zenon DEF Last
<1>6. m \in MarkType BY ONLY <1>2, <1>4, <1>5
<1>7. m.index <= Len(normals[p]) /\ normals[p][m.index] = m.fsm BY <1>1, <1>4, <1>5, Zenon DEF BatchRight
<1>8. Len(normals[p]) \in Nat /\ DOMAIN normals[p] = 1 .. Len(normals[p]) BY <1>2, SeqIs, Zenon
<1>9. m.index \in Nat /\ m.index # 0 /\ m.fsm \in Normals BY <1>6, MarkTypeIs, Zenon
<1>10. m.index \in DOMAIN normals[p] BY <1>7, <1>8, <1>9, Arith, Zenon
<1>11. r \in Seq(MarkType) /\ Len(r) = Len(marks[p]) - 1 /\ \A k \in 1 .. Len(marks[p]) - 1 : r[k] = marks[p][k]
  BY <1>2, FrontIs, Zenon
<1>12. DOMAIN r = 1 .. Len(marks[p]) - 1 BY <1>11
<1>13. ASSUME NEW k \in DOMAIN r PROVE k \in DOMAIN marks[p] /\ r[k] = marks[p][k] /\ r[k] \in MarkType /\ r[k].index < m.index
  <2>1. k \in DOMAIN marks[p] /\ k < Len(marks[p]) /\ r[k] = marks[p][k] BY <1>4, <1>11, <1>12, Zenon
  <2>2. marks[p][k].index < marks[p][Len(marks[p])].index BY <1>1, <1>4, <2>1, Zenon DEF BatchRight
  <2>3. r[k] \in MarkType BY <1>11, SeqIs, Zenon
  <2> QED BY <1>5, <2>1, <2>2, <2>3, Zenon
<1> QED BY <1>6, <1>7, <1>9, <1>10, <1>11, <1>13, Zenon

\* The marks of p name the FSMs they were kept for, and go up.
Kept(p) ==
  /\ \A k \in DOMAIN marks[p] : /\ marks[p][k].index <= Len(normals[p])
                                /\ normals[p][marks[p][k].index] = marks[p][k].fsm
  /\ \A j, k \in DOMAIN marks[p] : j < k => marks[p][j].index < marks[p][k].index

LEMMA KeptRight ==
  ASSUME NEW p \in Pollers, Kept(p)', pc'[p] = "resched", Len(normals'[p]) <= timers'[p]
  PROVE  BatchRight(p)'
<1>1. pc'[p] \notin {"fetch", "control", "crelease", "ccheck", "exit"} /\ pc'[p] # "normals" /\ pc'[p] # "ccheck" /\ pc'[p] # "check"
  BY Zenon
<1> QED BY <1>1, Zenon DEF BatchRight, Kept

\* The last mark is popped, and the FSM it names stays.
LEMMA PopKept ==
  ASSUME IInv, NEW p \in Pollers, marks[p] # <<>>, marks'[p] = Front(marks[p]), normals'[p] = normals[p]
  PROVE  Kept(p)'
<1>1. PICK m, r : m = Last(marks[p]) /\ r = Front(marks[p]) BY Zenon
<1>2. \A k \in DOMAIN r : k \in DOMAIN marks[p] /\ r[k] = marks[p][k] BY <1>1, LastMark, Zenon
<1>3. BatchRight(p) BY Parts, Zenon
<1>4. marks'[p] = r BY <1>1, Zenon
<1> QED BY <1>2, <1>3, <1>4, Zenon DEF Kept, BatchRight

\* The last mark is popped and the FSM it names swap_removed: the other marks are below it,
\* so none of their slots changes.
LEMMA SwapKept ==
  ASSUME IInv, NEW p \in Pollers, marks[p] # <<>>, NEW m, m = Last(marks[p]),
         marks' = Set(marks, p, Front(marks[p])), normals' = Set(normals, p, SwapRemove(normals[p], m.index))
  PROVE  /\ normals' \in [Pollers -> Seq(Normals)] /\ Len(normals'[p]) = Len(normals[p]) - 1 /\ Kept(p)'
         /\ \A k \in DOMAIN marks'[p] : marks'[p][k].index < m.index
         /\ \A q \in Pollers : q # p => normals'[q] = normals[q] /\ marks'[q] = marks[q]
         /\ \A g : g # m.fsm => (In(normals'[p], g) <=> In(normals[p], g))
         /\ \A g : Once(normals[p], g) => Once(normals'[p], g)
         /\ Once(normals[p], m.fsm) => ~In(normals'[p], m.fsm)
         /\ marks' \in [Pollers -> Seq(MarkType)] /\ marks'[p] = Front(marks[p])
<1>1. RoundType /\ BatchRight(p) BY Parts, Zenon
<1>2. normals \in [Pollers -> Seq(Normals)] /\ marks \in [Pollers -> Seq(MarkType)] /\ normals[p] \in Seq(Normals)
  BY <1>1, RoundIs, RoundNow, Zenon
<1>3. PICK r : r = Front(marks[p]) BY Zenon
<1>4. /\ m \in MarkType /\ m.index \in DOMAIN normals[p] /\ normals[p][m.index] = m.fsm /\ m.fsm \in Normals
      /\ r \in Seq(MarkType)
      /\ \A k \in DOMAIN r : k \in DOMAIN marks[p] /\ r[k] = marks[p][k] /\ r[k] \in MarkType /\ r[k].index < m.index
  BY <1>3, LastMark, ZenonT(40)
<1>5. PICK n, d : n = SwapRemove(normals[p], d) /\ d = m.index BY Zenon
<1>6. /\ n \in Seq(Normals) /\ Len(n) = Len(normals[p]) - 1
      /\ \A j \in 1 .. Len(normals[p]) - 1 : n[j] = IF j = d THEN normals[p][Len(normals[p])] ELSE normals[p][j]
  <2>1. normals[p] \in Seq(Normals) /\ d \in DOMAIN normals[p] /\ n = SwapRemove(normals[p], d) BY <1>2, <1>4, <1>5, Zenon
  <2> QED BY ONLY <2>1, SwapRemoveIs, ZenonT(40)
<1>7. ASSUME NEW g
      PROVE  /\ Once(normals[p], g) => Once(n, g) /\ (g = m.fsm => ~In(n, g))
             /\ In(n, g) => In(normals[p], g)
             /\ In(normals[p], g) /\ g # m.fsm => In(n, g)
  <2>1. normals[p] \in Seq(Normals) /\ d \in DOMAIN normals[p] /\ n = SwapRemove(normals[p], d) /\ m.fsm = normals[p][d]
    BY <1>2, <1>4, <1>5, Zenon
  <2>2. /\ Once(normals[p], g) => Once(n, g) /\ (g = normals[p][d] => ~In(n, g))
        /\ In(n, g) => In(normals[p], g)
        /\ In(normals[p], g) /\ g # normals[p][d] => In(n, g)
    BY ONLY <2>1, SwapRemoveIn, Zenon
  <2> QED BY <2>1, <2>2, Zenon
<1>8. normals'[p] = n /\ (\A q \in Pollers : q # p => normals'[q] = normals[q]) /\ normals' \in [Pollers -> Seq(Normals)]
  BY <1>2, <1>5, <1>6, Zenon DEF Set
<1>9. marks'[p] = r /\ (\A q \in Pollers : q # p => marks'[q] = marks[q]) /\ marks' \in [Pollers -> Seq(MarkType)]
  BY <1>2, <1>3, <1>4, Zenon DEF Set
<1>10. ASSUME NEW k \in DOMAIN r PROVE r[k].index <= Len(n) /\ n[r[k].index] = r[k].fsm
  <2>1. /\ r[k].index < d /\ r[k].index \in Nat /\ r[k].index # 0 /\ normals[p][r[k].index] = r[k].fsm
    BY <1>1, <1>4, <1>5, MarkTypeIs, Zenon DEF BatchRight
  <2>2. Len(normals[p]) \in Nat /\ DOMAIN normals[p] = 1 .. Len(normals[p]) BY <1>2, SeqIs, Zenon
  <2>3. d \in 1 .. Len(normals[p]) BY <1>4, <1>5, <2>2, Zenon
  <2>4. r[k].index \in 1 .. Len(normals[p]) - 1 /\ r[k].index # d /\ r[k].index <= Len(normals[p]) - 1 BY ONLY <2>1, <2>2, <2>3
  <2> QED BY <1>6, <2>1, <2>4, Zenon
<1>11. ASSUME NEW j \in DOMAIN r, NEW k \in DOMAIN r, j < k PROVE r[j].index < r[k].index
  BY <1>1, <1>4, <1>11, Zenon DEF BatchRight
<1>12. Kept(p)' BY <1>8, <1>9, <1>10, <1>11, ZenonT(40) DEF Kept
<1>13. Len(normals'[p]) = Len(normals[p]) - 1 BY <1>6, <1>8, Zenon
<1>14. \A k \in DOMAIN marks'[p] : marks'[p][k].index < m.index BY <1>4, <1>9, Zenon
<1> QED BY <1>3, <1>7, <1>8, <1>9, <1>12, <1>13, <1>14, Zenon

\* The FSM f that p had is in no batch any more; the others are where they were.
LEMMA Gone ==
  ASSUME NEW p \in Pollers, NEW f \in Normals, Unique(f), Has(p, f), control' = control,
         \A q \in Pollers : q # p => normals'[q] = normals[q],
         \A g : g # f => (In(normals'[p], g) <=> In(normals[p], g)),
         \A g : Once(normals[p], g) => Once(normals'[p], g),
         Once(normals[p], f) => ~In(normals'[p], f)
  PROVE  /\ \A q \in Pollers : ~Has(q, f)' /\ Once(normals'[q], f)
         /\ Once(chan, f) /\ ~In(chan, f) /\ f \notin idle
         /\ \A g : g # f /\ Unique(g) => \A q \in Pollers : (Has(q, g)' <=> Has(q, g)) /\ Once(normals'[q], g)
<1>1. \A q \in Pollers : Once(normals[q], f) /\ (Has(q, f) => q = p) BY Zenon DEF Unique
<1>2. f # Control BY Names, Zenon
<1>3. \A q \in Pollers : ~In(normals'[q], f) BY <1>1, Zenon DEF Has
<1>4. \A q \in Pollers : ~Has(q, f)' BY <1>2, <1>3, Zenon DEF Has
<1>5. \A q \in Pollers : Once(normals'[q], f) BY <1>1, Zenon
<1>6. ASSUME NEW g, g # f, Unique(g), NEW q \in Pollers PROVE (Has(q, g)' <=> Has(q, g)) /\ Once(normals'[q], g)
  <2>1. (In(normals'[q], g) <=> In(normals[q], g)) /\ (Once(normals[q], g) => Once(normals'[q], g)) BY <1>6, Zenon
  <2> QED BY <1>6, <2>1, Zenon DEF Has, Unique
<1>7. Once(chan, f) /\ ~In(chan, f) /\ f \notin idle BY Zenon DEF Unique
<1> QED BY <1>4, <1>5, <1>6, <1>7, Zenon

\* The FSM of the last mark is in the batch.
LEMMA HasLast ==
  ASSUME IInv, NEW p \in Pollers, marks[p] # <<>>, NEW m, m = Last(marks[p])
  PROVE  /\ m \in MarkType /\ m.fsm \in Normals /\ m.fsm \in Fsms /\ Has(p, m.fsm) /\ normals[p][m.index] = m.fsm
         /\ Len(normals[p]) \in Nat /\ m.index \in Nat /\ m.index <= Len(normals[p]) /\ Len(normals[p]) # 0
<1>1. /\ m \in MarkType /\ m.index \in DOMAIN normals[p] /\ normals[p][m.index] = m.fsm /\ m.fsm \in Normals
  <2>1. PICK r : r = Front(marks[p]) BY Zenon
  <2> QED BY <2>1, LastMark, Zenon
<1>2. normals[p] \in Seq(Normals) BY Parts, RoundIs, Zenon
<1>3. Len(normals[p]) \in Nat /\ m.index \in Nat /\ m.index <= Len(normals[p]) /\ Len(normals[p]) # 0
  BY ONLY <1>1, <1>2
<1>4. m.fsm \in Fsms /\ Has(p, m.fsm) BY <1>1, Names, Zenon DEF Has, In
<1> QED BY <1>1, <1>3, <1>4, Zenon

LEMMA ReleaseNormalKeeps ==
  ASSUME IInv, NEW p \in Pollers, ReleaseNormal(p)
  PROVE  IInv'
<1>1. BoxType /\ RoundType /\ ~panicked /\ ShutRight /\ (\A q \in Pollers : BatchRight(q)) /\ \A g \in Fsms : Unique(g)
  BY Parts, Zenon
<1>2. PICK m : m = Last(marks[p]) BY Zenon
<1>3. /\ pc[p] = "resched" /\ marks[p] # <<>> /\ marks' = Set(marks, p, Front(marks[p])) /\ pc' = Set(pc, p, "check")
      /\ UNCHANGED <<chan, sends, closed, stopped, shut, timers, control, maxb, run, i, hot, panicked>>
  BY Zenon DEF ReleaseNormal
<1>4. /\ m \in MarkType /\ m.fsm \in Normals /\ m.fsm \in Fsms /\ Has(p, m.fsm) /\ normals[p][m.index] = m.fsm
      /\ Len(normals[p]) \in Nat /\ m.index \in Nat /\ m.index <= Len(normals[p]) /\ Len(normals[p]) # 0
  BY <1>2, <1>3, HasLast, Zenon
<1>5. /\ normals' = Set(normals, p, SwapRemove(normals[p], m.index)) /\ held' = Set(held, p, <<[m EXCEPT !.fsm = m.fsm]>>)
      /\ \/ m.fsm \in closed /\ idle' = idle /\ mail' = Set(mail, m.fsm, 0)
         \/ m.fsm \notin closed /\ idle' = idle \cup {m.fsm} /\ mail' = mail
  <2>1. PICK f : f = m.fsm BY Zenon
  <2>2. f = normals[p][m.index] BY <1>4, <2>1, Zenon
  <2>3. /\ normals' = Set(normals, p, SwapRemove(normals[p], m.index)) /\ held' = Set(held, p, <<[m EXCEPT !.fsm = f]>>)
        /\ idle' = (IF f \in closed THEN idle ELSE idle \cup {f})
        /\ mail' = (IF f \in closed THEN Set(mail, f, 0) ELSE mail)
    BY <1>2, <2>2, Zenon DEF ReleaseNormal
  <2> QED BY <2>1, <2>3, Zenon
<1>6. /\ normals' \in [Pollers -> Seq(Normals)] /\ Len(normals'[p]) = Len(normals[p]) - 1 /\ Kept(p)'
      /\ \A k \in DOMAIN marks'[p] : marks'[p][k].index < m.index
      /\ \A q \in Pollers : q # p => normals'[q] = normals[q] /\ marks'[q] = marks[q]
      /\ \A g : g # m.fsm => (In(normals'[p], g) <=> In(normals[p], g))
      /\ \A g : Once(normals[p], g) => Once(normals'[p], g)
      /\ Once(normals[p], m.fsm) => ~In(normals'[p], m.fsm)
      /\ marks' \in [Pollers -> Seq(MarkType)]
  BY <1>2, <1>3, <1>5, SwapKept, Zenon
<1>7. /\ \A q \in Pollers : ~Has(q, m.fsm)' /\ Once(normals'[q], m.fsm)
      /\ Once(chan, m.fsm) /\ ~In(chan, m.fsm) /\ m.fsm \notin idle
      /\ \A g : g # m.fsm /\ Unique(g) => \A q \in Pollers : (Has(q, g)' <=> Has(q, g)) /\ Once(normals'[q], g)
  BY <1>1, <1>3, <1>4, <1>6, Gone, Zenon
<1>8. "check" \in Counters BY Zenon DEF Counters
<1>9. pc'[p] = "check" /\ (\A q \in Pollers : q # p => pc'[q] = pc[q]) /\ pc' \in [Pollers -> Counters]
  BY <1>1, <1>3, <1>8, GotoIs, Zenon
<1>10. PICK h : h = [m EXCEPT !.fsm = m.fsm] BY Zenon
<1>11. h \in MarkType /\ h.index = m.index /\ <<h>> \in Seq(MarkType) /\ Len(<<h>>) = 1 /\ <<h>>[1] = h
  <2>1. h \in MarkType /\ h.index = m.index BY ONLY <1>4, <1>10, Zenon DEF MarkType
  <2> QED BY <2>1
<1>12. held'[p] = <<h>> /\ (\A q \in Pollers : q # p => held'[q] = held[q]) /\ held' \in [Pollers -> Seq(MarkType)]
  <2>1. held \in [Pollers -> Seq(MarkType)] BY <1>1, RoundNow, Zenon
  <2> QED BY <1>5, <1>10, <1>11, <2>1, Zenon DEF Set
<1>13. BoxType'
  <2>1. mail \in [Fsms -> Nat] /\ 0 \in Nat BY <1>1, BoxIs, Zenon
  <2>2. mail' \in [Fsms -> Nat] BY <1>5, <2>1, Zenon DEF Set
  <2>3. idle' \subseteq Fsms BY <1>1, <1>4, <1>5, BoxIs, Zenon
  <2> QED BY <1>1, <1>3, <2>2, <2>3, Zenon DEF BoxType
<1>14. RoundType' BY <1>1, <1>3, <1>6, <1>9, <1>12, Zenon DEF RoundType, Counters
<1>15. ShutRight' BY <1>1, <1>3, Zenon DEF ShutRight
<1>16. \A q \in Pollers : q # p => Same(q) BY <1>3, <1>6, <1>9, <1>12, Zenon DEF Same
<1>17. BatchRight(p)'
  <2>1. pc[p] # "check" BY <1>3, Zenon
  <2>2. Len(normals[p]) <= timers[p] /\ timers[p] \in Nat BY <1>1, <2>1, RoundIs, Zenon DEF BatchRight
  <2>3. timers'[p] = timers[p] BY <1>3, Zenon
  <2>4. Len(normals'[p]) < timers'[p] /\ m.index <= Len(normals'[p]) + 1 BY ONLY <1>4, <1>6, <2>2, <2>3
  <2>5. held'[p][1] = h /\ Len(held'[p]) = 1 BY <1>11, <1>12, Zenon
  <2>6. pc'[p] \notin {"fetch", "control", "crelease", "ccheck", "exit"} /\ pc'[p] # "normals" /\ pc'[p] # "ccheck" BY <1>9, ZenonT(40)
  <2> QED BY <1>6, <1>9, <1>11, <2>4, <2>5, <2>6, ZenonT(40) DEF BatchRight, Kept
<1>18. \A q \in Pollers : BatchRight(q)' BY <1>1, <1>16, <1>17, OthersRight, Zenon
<1>19. ASSUME NEW g \in Fsms PROVE Unique(g)'
  <2>1. CASE g = m.fsm
    <3>1. g \notin closed' => g \in idle' BY <1>3, <1>5, <2>1, Zenon
    <3> QED BY <1>3, <1>7, <2>1, <3>1, Given, Zenon
  <2>2. CASE g # m.fsm
    <3>1. Unique(g) BY <1>1, Zenon
    <3>2. \A q \in Pollers : (Has(q, g)' <=> Has(q, g)) /\ Once(normals'[q], g) BY <1>7, <2>2, <3>1, Zenon
    <3>3. g \in idle' <=> g \in idle BY <1>5, <2>2, Zenon
    <3> QED BY <1>3, <3>1, <3>2, <3>3, Zenon DEF Unique
  <2> QED BY <2>1, <2>2, Zenon
<1> QED BY <1>1, <1>3, <1>13, <1>14, <1>15, <1>18, <1>19, IInvNext, ZenonT(40)

LEMMA RemoveNormalKeeps ==
  ASSUME IInv, NEW p \in Pollers, RemoveNormal(p)
  PROVE  IInv'
<1>1. BoxType /\ RoundType /\ ~panicked /\ ShutRight /\ (\A q \in Pollers : BatchRight(q)) /\ \A g \in Fsms : Unique(g)
  BY Parts, Zenon
<1>2. PICK m : m = Last(marks[p]) BY Zenon
<1>3. /\ pc[p] = "resched" /\ marks[p] # <<>> /\ marks' = Set(marks, p, Front(marks[p]))
      /\ UNCHANGED <<chan, mail, sends, closed, stopped, shut, pc, control, maxb, run, i, hot, held>>
  BY Zenon DEF RemoveNormal
<1>4. /\ m \in MarkType /\ m.fsm \in Normals /\ m.fsm \in Fsms /\ Has(p, m.fsm) /\ normals[p][m.index] = m.fsm
      /\ Len(normals[p]) \in Nat /\ m.index \in Nat /\ m.index <= Len(normals[p]) /\ Len(normals[p]) # 0
  BY <1>2, <1>3, HasLast, Zenon
<1>5. \/ /\ normals' = Set(normals, p, SwapRemove(normals[p], m.index)) /\ timers' = Set(timers, p, timers[p] - 1)
         /\ \/ m.fsm \in closed /\ idle' = idle
            \/ m.fsm \notin closed /\ idle' = idle \cup {m.fsm}
         /\ panicked' = (panicked \/ m.index > timers[p])
      \/ UNCHANGED <<normals, timers, idle, panicked>>
  <2>1. PICK f : f = m.fsm BY Zenon
  <2>2. f = normals[p][m.index] BY <1>4, <2>1, Zenon
  <2>3. \/ /\ normals' = Set(normals, p, SwapRemove(normals[p], m.index)) /\ timers' = Set(timers, p, timers[p] - 1)
           /\ idle' = (IF f \in closed THEN idle ELSE idle \cup {f})
           /\ panicked' = (panicked \/ m.index > timers[p])
        \/ UNCHANGED <<normals, timers, idle, panicked>>
    BY <1>2, <2>2, Zenon DEF RemoveNormal
  <2> QED BY <2>1, <2>3, Zenon
<1>6. pc[p] # "check" BY <1>3, Zenon
<1>7. Len(normals[p]) <= timers[p] /\ timers[p] \in Nat BY <1>1, <1>6, RoundIs, Zenon DEF BatchRight
<1>8. ShutRight' BY <1>1, <1>3, Zenon DEF ShutRight
<1>9. CASE UNCHANGED <<normals, timers, idle, panicked>>
  <2>0. PICK r : r = Front(marks[p]) BY Zenon
  <2>1. r \in Seq(MarkType) BY <1>2, <1>3, <2>0, LastMark, Zenon
  <2>2. marks \in [Pollers -> Seq(MarkType)] BY <1>1, RoundNow, Zenon
  <2>3. marks'[p] = Front(marks[p]) /\ (\A q \in Pollers : q # p => marks'[q] = marks[q]) /\ marks' \in [Pollers -> Seq(MarkType)]
    BY <1>3, <2>0, <2>1, <2>2, Zenon DEF Set
  <2>4. Kept(p)' BY <1>3, <1>9, <2>3, PopKept, Zenon
  <2>5. BatchRight(p)' BY <1>3, <1>7, <1>9, <2>4, KeptRight, Zenon
  <2>6. \A q \in Pollers : q # p => Same(q) BY <1>3, <1>9, <2>3, Zenon DEF Same
  <2>7. \A q \in Pollers : BatchRight(q)' BY <1>1, <2>5, <2>6, OthersRight, Zenon
  <2>8. RoundType' BY <1>1, <1>3, <1>9, <2>3, Zenon DEF RoundType
  <2>9. BoxType' BY <1>1, <1>3, <1>9, Zenon DEF BoxType
  <2>10. ASSUME NEW g \in Fsms PROVE Unique(g)' BY <1>1, <1>3, <1>9, Zenon DEF Unique, Has
  <2> QED BY <1>1, <1>8, <1>9, <2>7, <2>8, <2>9, <2>10, IInvNext, ZenonT(40)
<1>10. CASE /\ normals' = Set(normals, p, SwapRemove(normals[p], m.index)) /\ timers' = Set(timers, p, timers[p] - 1)
            /\ \/ m.fsm \in closed /\ idle' = idle
               \/ m.fsm \notin closed /\ idle' = idle \cup {m.fsm}
            /\ panicked' = (panicked \/ m.index > timers[p])
  <2>1. /\ normals' \in [Pollers -> Seq(Normals)] /\ Len(normals'[p]) = Len(normals[p]) - 1 /\ Kept(p)'
        /\ \A k \in DOMAIN marks'[p] : marks'[p][k].index < m.index
        /\ \A q \in Pollers : q # p => normals'[q] = normals[q] /\ marks'[q] = marks[q]
        /\ \A g : g # m.fsm => (In(normals'[p], g) <=> In(normals[p], g))
        /\ \A g : Once(normals[p], g) => Once(normals'[p], g)
        /\ Once(normals[p], m.fsm) => ~In(normals'[p], m.fsm)
        /\ marks' \in [Pollers -> Seq(MarkType)]
    BY <1>2, <1>3, <1>10, SwapKept, Zenon
  <2>2. /\ \A q \in Pollers : ~Has(q, m.fsm)' /\ Once(normals'[q], m.fsm)
        /\ Once(chan, m.fsm) /\ ~In(chan, m.fsm) /\ m.fsm \notin idle
        /\ \A g : g # m.fsm /\ Unique(g) => \A q \in Pollers : (Has(q, g)' <=> Has(q, g)) /\ Once(normals'[q], g)
    BY <1>1, <1>3, <1>4, <2>1, Gone, Zenon
  <2>3. timers[p] - 1 \in Nat /\ ~(m.index > timers[p]) BY ONLY <1>4, <1>7
  <2>4. timers'[p] = timers[p] - 1 /\ (\A q \in Pollers : q # p => timers'[q] = timers[q]) /\ timers' \in [Pollers -> Nat]
    <3>1. timers \in [Pollers -> Nat] BY <1>1, RoundNow, Zenon
    <3> QED BY <1>10, <2>3, <3>1, Zenon DEF Set
  <2>5. ~panicked' BY <1>1, <1>10, <2>3, Zenon
  <2>6. Len(normals'[p]) <= timers'[p] BY ONLY <1>4, <1>7, <2>1, <2>4
  <2>7. BatchRight(p)' BY <1>3, <2>1, <2>6, KeptRight, Zenon
  <2>8. \A q \in Pollers : q # p => Same(q) BY <1>3, <2>1, <2>4, ZenonT(40) DEF Same
  <2>9. \A q \in Pollers : BatchRight(q)' BY <1>1, <2>7, <2>8, OthersRight, Zenon
  <2>10. RoundType' BY <1>1, <1>3, <2>1, <2>4, Zenon DEF RoundType
  <2>11. BoxType'
    <3>1. idle' \subseteq Fsms BY <1>1, <1>4, <1>10, BoxIs, Zenon
    <3> QED BY <1>1, <1>3, <3>1, Zenon DEF BoxType
  <2>12. ASSUME NEW g \in Fsms PROVE Unique(g)'
    <3>1. CASE g = m.fsm
      <4>1. g \notin closed' => g \in idle' BY <1>3, <1>10, <3>1, Zenon
      <4> QED BY <1>3, <2>2, <3>1, <4>1, Given, Zenon
    <3>2. CASE g # m.fsm
      <4>1. Unique(g) BY <1>1, Zenon
      <4>2. \A q \in Pollers : (Has(q, g)' <=> Has(q, g)) /\ Once(normals'[q], g) BY <2>2, <3>2, <4>1, Zenon
      <4>3. g \in idle' <=> g \in idle BY <1>10, <3>2, Zenon
      <4> QED BY <1>3, <4>1, <4>2, <4>3, ZenonT(40) DEF Unique
    <3> QED BY <3>1, <3>2, Zenon
  <2> QED BY <1>8, <2>5, <2>9, <2>10, <2>11, <2>12, IInvNext, Zenon
<1> QED BY <1>5, <1>9, <1>10, Zenon

LEMMA RescheduleNormalKeeps ==
  ASSUME IInv, NEW p \in Pollers, RescheduleNormal(p)
  PROVE  IInv'
<1>1. BoxType /\ RoundType /\ ~panicked /\ ShutRight /\ (\A q \in Pollers : BatchRight(q)) /\ \A g \in Fsms : Unique(g)
  BY Parts, Zenon
<1>2. PICK m : m = Last(marks[p]) BY Zenon
<1>3. /\ pc[p] = "resched" /\ marks[p] # <<>> /\ marks' = Set(marks, p, Front(marks[p]))
      /\ UNCHANGED <<mail, sends, idle, closed, stopped, shut, pc, control, maxb, run, i, hot, held>>
  BY Zenon DEF RescheduleNormal, boxes
<1>4. /\ m \in MarkType /\ m.fsm \in Normals /\ m.fsm \in Fsms /\ Has(p, m.fsm) /\ normals[p][m.index] = m.fsm
      /\ Len(normals[p]) \in Nat /\ m.index \in Nat /\ m.index <= Len(normals[p]) /\ Len(normals[p]) # 0
  BY <1>2, <1>3, HasLast, Zenon
<1>5. /\ normals' = Set(normals, p, SwapRemove(normals[p], m.index)) /\ timers' = Set(timers, p, timers[p] - 1)
      /\ chan' = Append(chan, m.fsm) /\ panicked' = (panicked \/ m.index > timers[p])
  BY <1>2, <1>4, ZenonT(40) DEF RescheduleNormal
<1>6. pc[p] # "check" BY <1>3, Zenon
<1>7. Len(normals[p]) <= timers[p] /\ timers[p] \in Nat BY <1>1, <1>6, RoundIs, Zenon DEF BatchRight
<1>8. /\ normals' \in [Pollers -> Seq(Normals)] /\ Len(normals'[p]) = Len(normals[p]) - 1 /\ Kept(p)'
      /\ \A k \in DOMAIN marks'[p] : marks'[p][k].index < m.index
      /\ \A q \in Pollers : q # p => normals'[q] = normals[q] /\ marks'[q] = marks[q]
      /\ \A g : g # m.fsm => (In(normals'[p], g) <=> In(normals[p], g))
      /\ \A g : Once(normals[p], g) => Once(normals'[p], g)
      /\ Once(normals[p], m.fsm) => ~In(normals'[p], m.fsm)
      /\ marks' \in [Pollers -> Seq(MarkType)]
  BY <1>2, <1>3, <1>5, SwapKept, Zenon
<1>9. /\ \A q \in Pollers : ~Has(q, m.fsm)' /\ Once(normals'[q], m.fsm)
      /\ Once(chan, m.fsm) /\ ~In(chan, m.fsm) /\ m.fsm \notin idle
      /\ \A g : g # m.fsm /\ Unique(g) => \A q \in Pollers : (Has(q, g)' <=> Has(q, g)) /\ Once(normals'[q], g)
  BY <1>1, <1>3, <1>4, <1>8, Gone, Zenon
<1>10. timers[p] - 1 \in Nat /\ ~(m.index > timers[p]) BY ONLY <1>4, <1>7
<1>11. timers'[p] = timers[p] - 1 /\ (\A q \in Pollers : q # p => timers'[q] = timers[q]) /\ timers' \in [Pollers -> Nat]
  <2>1. timers \in [Pollers -> Nat] BY <1>1, RoundNow, Zenon
  <2> QED BY <1>5, <1>10, <2>1, Zenon DEF Set
<1>12. ~panicked' BY <1>1, <1>5, <1>10, ZenonT(40)
<1>13. Len(normals'[p]) <= timers'[p] BY ONLY <1>4, <1>7, <1>8, <1>11
<1>14. BatchRight(p)' BY <1>3, <1>8, <1>13, KeptRight, Zenon
<1>15. \A q \in Pollers : q # p => Same(q) BY <1>3, <1>8, <1>11, Zenon DEF Same
<1>16. \A q \in Pollers : BatchRight(q)' BY <1>1, <1>14, <1>15, OthersRight, Zenon
<1>17. RoundType' BY <1>1, <1>3, <1>8, <1>11, Zenon DEF RoundType
<1>18. PICK f : f = m.fsm BY Zenon
<1>19. ASSUME NEW g
       PROVE  /\ chan' \in Seq(Fsms \cup {Empty})
              /\ Once(chan, g) /\ (g = f => ~In(chan, g)) => Once(chan', g)
              /\ In(chan', g) <=> In(chan, g) \/ g = f
  <2>1. chan \in Seq(Fsms \cup {Empty}) BY <1>1, BoxIs, Zenon
  <2>2. f \in Fsms \cup {Empty} /\ chan' = Append(chan, f) BY <1>4, <1>5, <1>18, Zenon
  <2> QED BY ONLY <2>1, <2>2, AppendIn
<1>20. BoxType' BY <1>1, <1>3, <1>19, Zenon DEF BoxType
<1>21. ShutRight'
  <2>1. In(chan', Empty) => In(chan, Empty) BY <1>4, <1>18, <1>19, Names, Zenon
  <2> QED BY <1>1, <1>3, <2>1, Zenon DEF ShutRight
<1>22. ASSUME NEW g \in Fsms PROVE Unique(g)'
  <2>1. CASE g = f
    <3>1. Once(chan', g) /\ In(chan', g) BY <1>9, <1>18, <1>19, <2>1, Zenon
    <3>2. g \notin idle' /\ \A q \in Pollers : ~Has(q, g)' /\ Once(normals'[q], g) BY <1>3, <1>9, <1>18, <2>1, Zenon
    <3> QED BY <3>1, <3>2, Zenon DEF Unique
  <2>2. CASE g # f
    <3>1. Unique(g) BY <1>1, Zenon
    <3>2. \A q \in Pollers : (Has(q, g)' <=> Has(q, g)) /\ Once(normals'[q], g) BY <1>9, <1>18, <2>2, <3>1, Zenon
    <3>3. Once(chan', g) /\ (In(chan', g) <=> In(chan, g)) BY <1>19, <2>2, <3>1, Zenon DEF Unique
    <3> QED BY <1>3, <3>1, <3>2, <3>3, StaysUnique, ZenonT(40)
  <2> QED BY <2>1, <2>2, Zenon
<1> QED BY <1>12, <1>16, <1>17, <1>20, <1>21, <1>22, IInvNext, ZenonT(40)

LEMMA CheckNormalKeeps ==
  ASSUME IInv, NEW p \in Pollers, CheckNormal(p)
  PROVE  IInv'
<1>1. BoxType /\ RoundType /\ ~panicked /\ ShutRight /\ (\A q \in Pollers : BatchRight(q)) /\ \A g \in Fsms : Unique(g)
  BY Parts, Zenon
<1>2. /\ pc[p] = "check" /\ pc' = Set(pc, p, "resched") /\ held' = Set(held, p, <<>>)
      /\ UNCHANGED <<chan, mail, sends, closed, stopped, shut, control, maxb, run, i, hot, marks>>
  BY Zenon DEF CheckNormal, Goto
<1>3. PICK m : m = held[p][1] BY Zenon
<1>4. /\ \/ timers' = Set(timers, p, timers[p] - 1) /\ normals' = normals /\ idle' = idle
         \/ timers' = timers /\ normals' = Set(normals, p, PutBack(normals[p], m.index, m.fsm)) /\ m.fsm \in idle /\ idle' = idle \ {m.fsm}
         \/ timers' = timers /\ normals' = normals /\ idle' = idle
      /\ panicked' => panicked \/ m.index > timers[p]
  BY <1>3, Zenon DEF CheckNormal
<1>5. /\ normals[p] \in Seq(Normals) /\ timers[p] \in Nat /\ held[p] \in Seq(MarkType) /\ marks[p] \in Seq(MarkType) /\ BatchRight(p)
  BY <1>1, RoundIs, Zenon
<1>6. /\ Len(held[p]) = 1 /\ Len(normals[p]) < timers[p] /\ m.index <= Len(normals[p]) + 1
      /\ \A k \in DOMAIN marks[p] : marks[p][k].index < m.index
  BY <1>2, <1>3, <1>5, ZenonT(40) DEF BatchRight
<1>7. m \in MarkType BY ONLY <1>3, <1>5, <1>6
<1>8. m.index \in Nat /\ m.index # 0 /\ m.fsm \in Normals /\ m.fsm \in Fsms BY <1>7, MarkTypeIs, Names, Zenon
<1>9. /\ Len(normals[p]) \in Nat /\ ~(m.index > timers[p]) /\ timers[p] - 1 \in Nat /\ Len(normals[p]) <= timers[p] - 1
      /\ Len(normals[p]) <= timers[p] /\ Len(normals[p]) + 1 <= timers[p] /\ m.index \in 1 .. Len(normals[p]) + 1
  BY ONLY SMTT(30), <1>5, <1>6, <1>8
<1>10. ~panicked' BY <1>1, <1>4, <1>9, Zenon
<1>11. "resched" \in Counters /\ <<>> \in Seq(MarkType) BY DEF Counters
<1>12. pc'[p] = "resched" /\ (\A q \in Pollers : q # p => pc'[q] = pc[q]) /\ pc' \in [Pollers -> Counters]
  BY <1>1, <1>2, <1>11, GotoIs, Zenon
<1>13. (\A q \in Pollers : q # p => held'[q] = held[q]) /\ held' \in [Pollers -> Seq(MarkType)]
  <2>1. held \in [Pollers -> Seq(MarkType)] BY <1>1, RoundNow, Zenon
  <2> QED BY <1>2, <1>11, <2>1, Zenon DEF Set
<1>14. ShutRight' BY <1>1, <1>2, Zenon DEF ShutRight
<1>15. normals \in [Pollers -> Seq(Normals)] /\ timers \in [Pollers -> Nat] BY <1>1, RoundNow, Zenon
<1>16. Kept(p) BY <1>5, Zenon DEF BatchRight, Kept
<1>17. CASE /\ normals' = normals /\ idle' = idle
            /\ timers' = Set(timers, p, timers[p] - 1) \/ timers' = timers
  <2>1. /\ timers' \in [Pollers -> Nat] /\ (\A q \in Pollers : q # p => timers'[q] = timers[q])
        /\ timers'[p] = timers[p] - 1 \/ timers'[p] = timers[p]
    BY <1>9, <1>15, <1>17, Zenon DEF Set
  <2>2. Len(normals'[p]) <= timers'[p] BY <1>9, <1>17, <2>1, Zenon
  <2>3. Kept(p)' BY <1>2, <1>16, <1>17, Zenon DEF Kept
  <2>4. BatchRight(p)' BY <1>12, <2>2, <2>3, KeptRight, Zenon
  <2>5. \A q \in Pollers : q # p => Same(q) BY <1>2, <1>12, <1>13, <1>17, <2>1, ZenonT(40) DEF Same
  <2>6. \A q \in Pollers : BatchRight(q)' BY <1>1, <2>4, <2>5, OthersRight, Zenon
  <2>7. RoundType' BY <1>1, <1>2, <1>12, <1>13, <1>17, <2>1, ZenonT(40) DEF RoundType, Counters
  <2>8. BoxType' BY <1>1, <1>2, <1>17, Zenon DEF BoxType
  <2>9. ASSUME NEW g \in Fsms PROVE Unique(g)' BY <1>1, <1>2, <1>17, ZenonT(40) DEF Unique, Has
  <2> QED BY <1>10, <1>14, <2>6, <2>7, <2>8, <2>9, IInvNext, Zenon
<1>18. CASE /\ timers' = timers /\ normals' = Set(normals, p, PutBack(normals[p], m.index, m.fsm))
            /\ m.fsm \in idle /\ idle' = idle \ {m.fsm}
  <2>0. PICK n, d, f : n = PutBack(normals[p], d, f) /\ d = m.index /\ f = m.fsm BY Zenon
  <2>1. d \in 1 .. Len(normals[p]) + 1 /\ f \in Normals /\ normals[p] \in Seq(Normals) BY <1>5, <1>8, <1>9, <2>0, Zenon
  <2>2. n = PutBack(normals[p], d, f) BY <2>0, Zenon
  <2>3. /\ n \in Seq(Normals) /\ Len(n) = Len(normals[p]) + 1
        /\ \A j \in 1 .. Len(normals[p]) : j # d => n[j] = normals[p][j]
    <3>1. /\ PutBack(normals[p], d, f) \in Seq(Normals) /\ Len(PutBack(normals[p], d, f)) = Len(normals[p]) + 1
          /\ \A j \in 1 .. Len(normals[p]) : j # d => PutBack(normals[p], d, f)[j] = normals[p][j]
      <4>1. PutBack(normals[p], d, f) \in Seq(Normals) BY ONLY <2>1, PutBackIs, Zenon
      <4>2. Len(PutBack(normals[p], d, f)) = Len(normals[p]) + 1 BY ONLY <2>1, PutBackIs, SMTT(30)
      <4>3. \A j \in 1 .. Len(normals[p]) : j # d => PutBack(normals[p], d, f)[j] = normals[p][j]
        BY ONLY <2>1, PutBackIs, SMTT(30)
      <4> QED BY ONLY <4>1, <4>2, <4>3, Zenon
    <3> QED BY ONLY <2>2, <3>1, Zenon
  <2>4. ASSUME NEW g
        PROVE  /\ Once(normals[p], g) /\ (g = f => ~In(normals[p], g)) => Once(n, g)
               /\ In(n, g) <=> In(normals[p], g) \/ g = f
    BY ONLY <2>1, <2>2, PutBackIn
  <2>5. normals'[p] = n /\ (\A q \in Pollers : q # p => normals'[q] = normals[q]) /\ normals' \in [Pollers -> Seq(Normals)]
    BY <1>15, <1>18, <2>0, <2>3, Zenon DEF Set
  <2>6. Len(normals'[p]) <= timers'[p] BY <1>9, <1>18, <2>3, <2>5, Zenon
  <2>7. Kept(p)'
    <3>1. ASSUME NEW k \in DOMAIN marks[p]
          PROVE  marks[p][k].index <= Len(n) /\ n[marks[p][k].index] = marks[p][k].fsm
      <4>1. marks[p][k] \in MarkType BY <1>5, SeqIs, Zenon
      <4>2. marks[p][k].index \in Nat /\ marks[p][k].index # 0 /\ marks[p][k].index < d BY <1>6, <2>0, <4>1, MarkTypeIs, Zenon
      <4>3. /\ marks[p][k].index \in 1 .. Len(normals[p]) /\ marks[p][k].index # d /\ marks[p][k].index <= Len(normals[p]) + 1
        BY ONLY <1>9, <2>1, <4>2
      <4>4. normals[p][marks[p][k].index] = marks[p][k].fsm BY <1>16, Zenon DEF Kept
      <4> QED BY <2>3, <4>3, <4>4, Zenon
    <3>2. marks'[p] = marks[p] BY <1>2, ZenonT(40)
    <3> QED BY <1>16, <2>5, <3>1, <3>2, Zenon DEF Kept
  <2>8. BatchRight(p)' BY <1>12, <2>6, <2>7, KeptRight, Zenon
  <2>9. \A q \in Pollers : q # p => Same(q) BY <1>2, <1>12, <1>13, <1>18, <2>5, ZenonT(40) DEF Same
  <2>10. \A q \in Pollers : BatchRight(q)' BY <1>1, <2>8, <2>9, OthersRight, Zenon
  <2>11. RoundType' BY <1>1, <1>2, <1>12, <1>13, <1>18, <2>5, Zenon DEF RoundType, Counters
  <2>12. BoxType'
    <3>1. idle' \subseteq Fsms BY <1>1, <1>18, BoxIs, Zenon
    <3> QED BY <1>1, <1>2, <3>1, Zenon DEF BoxType
  <2>13. ASSUME NEW g \in Fsms PROVE Unique(g)'
    <3>0. Unique(g) /\ f # Control BY <1>1, <2>1, Names, Zenon
    <3>1. \A q \in Pollers : Once(normals[q], g) BY <3>0, Zenon DEF Unique
    <3>2. CASE g = f
      <4>1. ~In(chan, f) /\ Once(chan, f) /\ \A q \in Pollers : ~In(normals[q], f)
        BY <1>18, <2>0, <3>0, <3>2, Zenon DEF Unique, Has
      <4>2. \A q \in Pollers : (In(normals'[q], f) <=> q = p) /\ Once(normals'[q], f) BY <2>4, <2>5, <3>1, <3>2, <4>1, Zenon
      <4>3. \A q \in Pollers : Has(q, f)' <=> q = p BY <3>0, <4>2, Zenon DEF Has
      <4>4. f \notin idle' BY <1>18, <2>0, Zenon
      <4> QED BY <1>2, <3>2, <4>1, <4>2, <4>3, <4>4, Taken, Zenon
    <3>3. CASE g # f
      <4>1. \A q \in Pollers : (In(normals'[q], g) <=> In(normals[q], g)) /\ Once(normals'[q], g)
        BY <2>4, <2>5, <3>1, <3>3, Zenon
      <4>2. \A q \in Pollers : Has(q, g)' <=> Has(q, g) BY <1>2, <4>1, Zenon DEF Has
      <4>3. g \in idle' <=> g \in idle BY <1>18, <2>0, <3>3, Zenon
      <4> QED BY <1>2, <3>0, <4>1, <4>2, <4>3, Zenon DEF Unique
    <3> QED BY <3>2, <3>3, Zenon
  <2> QED BY <1>10, <1>14, <2>10, <2>11, <2>12, <2>13, IInvNext, Zenon
<1> QED BY <1>4, <1>17, <1>18, Zenon

(***************************************************************************)
(* All steps, and what follows.                                            *)
(***************************************************************************)
LEMMA StutterKeeps ==
  ASSUME IInv, UNCHANGED vars
  PROVE  IInv'
<1>1. /\ UNCHANGED <<chan, mail, sends, idle, closed, stopped, shut, panicked>>
      /\ UNCHANGED <<pc, normals, timers, control, maxb, run, i, hot, marks, held>>
  BY Zenon DEF vars
<1>2. BoxType /\ RoundType /\ ~panicked /\ ShutRight /\ (\A q \in Pollers : BatchRight(q)) /\ \A g \in Fsms : Unique(g)
  BY Parts, Zenon
<1>3. BoxType' BY <1>1, <1>2, Zenon DEF BoxType
<1>4. RoundType' BY <1>1, <1>2, Zenon DEF RoundType
<1>5. ShutRight' BY <1>1, <1>2, Zenon DEF ShutRight
<1>6. \A q \in Pollers : BatchRight(q)' BY <1>1, <1>2, SameRight, Zenon DEF Same
<1>7. ASSUME NEW g \in Fsms PROVE Unique(g)' BY <1>1, <1>2, Zenon DEF Unique, Has
<1> QED BY <1>1, <1>2, <1>3, <1>4, <1>5, <1>6, <1>7, IInvNext, Zenon

LEMMA NextKeeps ==
  ASSUME IInv, [Next]_vars
  PROVE  IInv'
<1>1. ASSUME NEW f \in Fsms, Send(f) PROVE IInv' BY <1>1, SendKeeps, Zenon
<1>2. ASSUME NEW f \in Fsms, Close(f) PROVE IInv' BY <1>2, CloseKeeps, Zenon
<1>3. CASE CloseAll BY <1>3, CloseAllKeeps, Zenon
<1>4. CASE SendMarkers BY <1>4, SendMarkersKeeps, Zenon
<1>5. ASSUME NEW p \in Pollers, Step(p) PROVE IInv'
  <2>1. CASE FetchSome(p) \/ FetchNone(p) BY <2>1, FetchSomeKeeps, FetchNoneKeeps, Zenon
  <2>2. CASE NoControl(p) \/ ControlBusy(p) \/ ControlDone(p) \/ ControlRelease(p) \/ ControlStop(p) \/ ControlCheck(p)
    BY <2>2, NoControlKeeps, ControlBusyKeeps, ControlDoneKeeps, ControlReleaseKeeps, ControlStopKeeps, ControlCheckKeeps, Zenon
  <2>3. CASE HandleNormal(p) \/ NormalsDone(p) \/ MoreNormal(p) \/ MoreOther(p) \/ MoreNone(p)
    BY <2>3, HandleNormalKeeps, NormalsDoneKeeps, MoreNormalKeeps, MoreOtherKeeps, MoreNoneKeeps, Zenon
  <2>4. CASE ReleaseNormal(p) \/ CheckNormal(p) \/ RemoveNormal(p) \/ RescheduleNormal(p) \/ EndRound(p)
    BY <2>4, ReleaseNormalKeeps, CheckNormalKeeps, RemoveNormalKeeps, RescheduleNormalKeeps, EndRoundKeeps, Zenon
  <2> QED BY <1>5, <2>1, <2>2, <2>3, <2>4, Zenon DEF Step
<1>6. CASE UNCHANGED vars BY <1>6, StutterKeeps, Zenon
<1> QED BY <1>1, <1>2, <1>3, <1>4, <1>5, <1>6, Zenon DEF Next

\* Whatever the pollers do with the indices of their batches, and whatever is sent, closed and shut
\* down around them: the invariant of the poll loop holds, for any number of FSMs and pollers.
THEOREM BatchInvariance == Spec => []IInv
<1>1. Init => IInv BY InitIInv, Zenon
<1>2. IInv /\ [Next]_vars => IInv' BY NextKeeps, Zenon
<1> QED BY <1>1, <1>2, PTL DEF Spec

\* The places of an FSM, one kind at a time.
LEMMA PlaceIs ==
  ASSUME NEW f
  PROVE  /\ \A x \in Places(f) :
              \/ \E q \in Pollers : \E k \in DOMAIN normals[q] : x = <<"batch", <<q, k>>>> /\ normals[q][k] = f
              \/ \E k \in DOMAIN chan : x = <<"channel", k>> /\ chan[k] = f
              \/ x = <<"mailbox", f>> /\ f \in idle
              \/ \E q \in Pollers : x = <<"control", q>> /\ control[q] /\ f = Control
         /\ \A q \in Pollers : Has(q, f) => Places(f) # {}
         /\ In(chan, f) => Places(f) # {}
         /\ f \in idle => Places(f) # {}
<1>2. \A x \in InBatch(f) : \E q \in Pollers : \E k \in DOMAIN normals[q] : x = <<q, k>> /\ normals[q][k] = f
  BY Zenon DEF InBatch
<1>3. \A q \in Pollers : \A k \in DOMAIN normals[q] : normals[q][k] = f => <<q, k>> \in InBatch(f)
  <2> DEFINE slots(q) == {<<q, k>> : k \in {j \in DOMAIN normals[q] : normals[q][j] = f}}
  <2> SUFFICES ASSUME NEW q \in Pollers, NEW k \in DOMAIN normals[q], normals[q][k] = f PROVE <<q, k>> \in InBatch(f) BY Zenon
  <2>1. InBatch(f) = UNION {slots(p) : p \in Pollers} BY Zenon DEF InBatch
  <2>2. <<q, k>> \in slots(q) BY Zenon
  <2> HIDE DEF slots
  <2> QED BY <2>1, <2>2, Zenon
<1>4. \A x \in Places(f) :
        \/ \E y \in InBatch(f) : x = <<"batch", y>>
        \/ \E k \in DOMAIN chan : x = <<"channel", k>> /\ chan[k] = f
        \/ x = <<"mailbox", f>> /\ f \in idle
        \/ \E q \in Pollers : x = <<"control", q>> /\ control[q] /\ f = Control
  BY Zenon DEF Places, InChan, Controllers
<1>5. ASSUME NEW q \in Pollers, Has(q, f) PROVE Places(f) # {}
  <2>1. CASE In(normals[q], f)
    <3>1. PICK k \in DOMAIN normals[q] : normals[q][k] = f BY <2>1, Zenon DEF In
    <3>2. <<"batch", <<q, k>>>> \in Places(f) BY <1>3, <3>1, Zenon DEF Places
    <3> QED BY <3>2, Zenon
  <2>2. CASE f = Control /\ control[q]
    <3>1. <<"control", q>> \in Places(f) BY <2>2, Zenon DEF Places, Controllers
    <3> QED BY <3>1, Zenon
  <2> QED BY <1>5, <2>1, <2>2, Zenon DEF Has
<1>6. ASSUME In(chan, f) PROVE Places(f) # {}
  <2>1. PICK k \in DOMAIN chan : chan[k] = f BY <1>6, Zenon DEF In
  <2>2. <<"channel", k>> \in Places(f) BY <2>1, Zenon DEF Places, InChan
  <2> QED BY <2>2, Zenon
<1>7. ASSUME f \in idle PROVE Places(f) # {}
  <2>1. <<"mailbox", f>> \in Places(f) BY <1>7, Zenon DEF Places
  <2> QED BY <2>1, Zenon
<1>8. ASSUME NEW x \in Places(f)
      PROVE  \/ \E q \in Pollers : \E k \in DOMAIN normals[q] : x = <<"batch", <<q, k>>>> /\ normals[q][k] = f
             \/ \E k \in DOMAIN chan : x = <<"channel", k>> /\ chan[k] = f
             \/ x = <<"mailbox", f>> /\ f \in idle
             \/ \E q \in Pollers : x = <<"control", q>> /\ control[q] /\ f = Control
  <2>1. CASE \E y \in InBatch(f) : x = <<"batch", y>>
    <3>1. PICK y \in InBatch(f) : x = <<"batch", y>> BY <2>1, Zenon
    <3>2. PICK q \in Pollers : \E k \in DOMAIN normals[q] : y = <<q, k>> /\ normals[q][k] = f BY <1>2, Zenon
    <3> QED BY <3>1, <3>2, Zenon
  <2> QED BY <1>4, <2>1, Zenon
<1> QED BY <1>5, <1>6, <1>7, <1>8, Zenon

LEMMA OnePlaceIs == IInv => OnePlace
<1> SUFFICES ASSUME IInv, NEW f \in Fsms
             PROVE  (\A x, y \in Places(f) : x = y) /\ (f \notin closed => Places(f) # {})
  BY Zenon DEF OnePlace
<1>1. RoundType /\ Unique(f) BY Parts, Zenon
<1>2. \A q \in Pollers : ~In(normals[q], Control) BY <1>1, HasControl, Zenon
<1>3. f \notin closed => Places(f) # {} BY <1>1, PlaceIs, Zenon DEF Unique
<1>4. ASSUME NEW x \in Places(f)
      PROVE  \/ \E q \in Pollers : \E k \in DOMAIN normals[q] : x = <<"batch", <<q, k>>>> /\ normals[q][k] = f
             \/ \E k \in DOMAIN chan : x = <<"channel", k>> /\ chan[k] = f
             \/ x = <<"mailbox", f>> /\ f \in idle
             \/ \E q \in Pollers : x = <<"control", q>> /\ control[q] /\ f = Control
  BY PlaceIs, Zenon
<1>5. ASSUME NEW x \in Places(f), NEW y \in Places(f) PROVE x = y
  <2>1. CASE \E q \in Pollers : Has(q, f)
    <3>1. PICK q \in Pollers : Has(q, f) BY <2>1, Zenon
    <3>2. ~In(chan, f) /\ f \notin idle /\ \A r \in Pollers : Has(r, f) => r = q BY <1>1, <3>1, Zenon DEF Unique
    <3>3. ASSUME NEW z \in Places(f)
          PROVE  \/ \E k \in DOMAIN normals[q] : z = <<"batch", <<q, k>>>> /\ normals[q][k] = f
                 \/ z = <<"control", q>> /\ f = Control
      <4>1. CASE \E r \in Pollers : \E k \in DOMAIN normals[r] : z = <<"batch", <<r, k>>>> /\ normals[r][k] = f
        <5>1. PICK r \in Pollers : \E k \in DOMAIN normals[r] : z = <<"batch", <<r, k>>>> /\ normals[r][k] = f BY <4>1, Zenon
        <5>2. r = q BY <3>2, <5>1, Zenon DEF Has, In
        <5> QED BY <5>1, <5>2, Zenon
      <4>2. CASE \E r \in Pollers : z = <<"control", r>> /\ control[r] /\ f = Control BY <3>2, <4>2, Zenon DEF Has
      <4> QED BY <1>4, <3>2, <4>1, <4>2, Zenon DEF In
    <3>4. Once(normals[q], f) BY <1>1, Zenon DEF Unique
    <3>5. CASE f = Control BY <1>2, <3>3, <3>5, Zenon DEF In
    <3>6. CASE f # Control
      <4>1. PICK j \in DOMAIN normals[q] : x = <<"batch", <<q, j>>>> /\ normals[q][j] = f BY <3>3, <3>6, Zenon
      <4>2. PICK k \in DOMAIN normals[q] : y = <<"batch", <<q, k>>>> /\ normals[q][k] = f BY <3>3, <3>6, Zenon
      <4>3. j = k BY <3>4, <4>1, <4>2, Zenon DEF Once
      <4> QED BY <4>1, <4>2, <4>3, Zenon
    <3> QED BY <3>5, <3>6, Zenon
  <2>2. CASE ~\E q \in Pollers : Has(q, f)
    <3>1. ASSUME NEW z \in Places(f)
          PROVE  (\E k \in DOMAIN chan : z = <<"channel", k>> /\ chan[k] = f) \/ (z = <<"mailbox", f>> /\ f \in idle)
      <4>1. CASE \E r \in Pollers : \E k \in DOMAIN normals[r] : z = <<"batch", <<r, k>>>> /\ normals[r][k] = f
        BY <2>2, <4>1, Zenon DEF Has, In
      <4>2. CASE \E r \in Pollers : z = <<"control", r>> /\ control[r] /\ f = Control BY <2>2, <4>2, Zenon DEF Has
      <4> QED BY <1>4, <4>1, <4>2, Zenon
    <3>2. Once(chan, f) /\ (In(chan, f) => f \notin idle) BY <1>1, Zenon DEF Unique
    <3>3. CASE f \in idle BY <3>1, <3>2, <3>3, Zenon DEF In
    <3>4. CASE f \notin idle
      <4>1. PICK j \in DOMAIN chan : x = <<"channel", j>> /\ chan[j] = f BY <3>1, <3>4, Zenon
      <4>2. PICK k \in DOMAIN chan : y = <<"channel", k>> /\ chan[k] = f BY <3>1, <3>4, Zenon
      <4>3. j = k BY <3>2, <4>1, <4>2, Zenon DEF Once
      <4> QED BY <4>1, <4>2, <4>3, Zenon
    <3> QED BY <3>3, <3>4, Zenon
  <2> QED BY <2>1, <2>2, Zenon
<1> QED BY <1>3, <1>5, Zenon

\* OnePlace: an FSM is never in two batches, in two slots of one, or in a batch and in its mailbox or
\* the channel, so that no two pollers ever run it together; and only a closed one is ever lost.
THEOREM NoFsmTwice == Spec => []OnePlace
BY BatchInvariance, OnePlaceIs, PTL

LEMMA MarksRightIs == IInv => MarksRight
<1> SUFFICES ASSUME IInv PROVE MarksRight BY Zenon
<1>1. TypeOK /\ ~panicked /\ \A p \in Pollers : BatchRight(p) BY Zenon DEF IInv
<1>2. \A p \in Pollers : pc[p] # "check" => Len(normals[p]) <= timers[p] BY <1>1, Zenon DEF BatchRight
<1>3. \A p \in Pollers : \A k \in DOMAIN marks[p] :
        marks[p][k].index <= Len(normals[p]) /\ normals[p][marks[p][k].index] = marks[p][k].fsm
  BY <1>1, Zenon DEF BatchRight
<1> QED BY <1>1, <1>2, <1>3, Zenon DEF MarksRight

\* MarksRight: an index kept in reschedule_fsms names, when it is popped, the FSM it was kept for; no
\* index of a batch's FSMs or timers is out of bounds, and no second control FSM is pushed.
THEOREM IndicesStayRight == Spec => []MarksRight
BY BatchInvariance, MarksRightIs, PTL
=============================================================================

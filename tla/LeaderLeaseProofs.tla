-------------------------- MODULE LeaderLeaseProofs --------------------------
(***************************************************************************)
(* LeaderLease keeps its inductive invariant IInv, and with it its three   *)
(* safety properties, for every length of the lease, election timeout and  *)
(* clock, and any number of proposals, reads, terms and remote leases.     *)
(***************************************************************************)
EXTENDS LeaderLease, TLAPS

\* The parts of a number by its quotient and its remainder.
LEMMA DivMod ==
  ASSUME NEW d \in Nat \ {0}, NEW t \in Nat
  PROVE  /\ t \div d \in Nat /\ t % d \in 0 .. d - 1 /\ t = d * (t \div d) + (t % d)
OBVIOUS

\* Quotient and remainder are unique.
LEMMA DivModOf ==
  ASSUME NEW d \in Nat \ {0}, NEW q \in Nat, NEW r \in 0 .. d - 1
  PROVE  (q * d + r) \div d = q /\ (q * d + r) % d = r
<1> DEFINE n == q * d + r
           k == n \div d
           m == n % d
<1>1. q * d \in Nat /\ n \in Nat OBVIOUS
<1>2. k \in Nat /\ m \in 0 .. d - 1 /\ n = d * k + m BY <1>1, DivMod, Zenon
<1>3. k = q
  <2>1. d * k = q * d + r - m BY <1>2
  <2>2. CASE k < q
    <3>1. d * (q - k) = d * q - d * k BY <1>2
    <3>2. d * (q - k) >= d BY <1>2, <2>2
    <3> QED BY <1>2, <2>1, <3>1, <3>2
  <2>3. CASE k > q
    <3>1. d * (k - q) = d * k - d * q BY <1>2
    <3>2. d * (k - q) >= d BY <1>2, <2>3
    <3> QED BY <1>2, <2>1, <3>1, <3>2
  <2> QED BY <1>2, <2>2, <2>3
<1> QED BY <1>2, <1>3

\* The time the readers are given is rounded down: timespec_to_u64 keeps whole slots.
LEMMA RoundedDown ==
  ASSUME NEW t \in Nat
  PROVE  timespec_to_u64(t) \in Nat /\ u64_to_timespec(timespec_to_u64(t)) <= t
<1> DEFINE q == t \div Sec
           r == t % Sec
           g == r \div Grain
<1>0. Sec \in Nat \ {0} /\ Grain \in Nat \ {0} /\ Slots \in Nat \ {0} /\ Sec <= Slots * Grain
  BY LeaseAssumption, Zenon DEF LeaseAssumption
<1>1. q \in Nat /\ r \in 0 .. Sec - 1 /\ t = Sec * q + r BY <1>0, DivMod, Zenon
<1>4. timespec_to_u64(t) = q * Slots + g BY Zenon DEF timespec_to_u64
<1> HIDE DEF q, r
<1>2. g \in Nat /\ r = Grain * g + (r % Grain) /\ r % Grain \in Nat
  <2>1. r \in Nat BY <1>0, <1>1
  <2>2. r \div Grain \in Nat /\ r % Grain \in 0 .. Grain - 1 /\ r = Grain * (r \div Grain) + (r % Grain)
    BY ONLY <1>0, <2>1, DivMod, Zenon
  <2> QED BY <1>0, <2>2
<1> HIDE DEF g
<1>3. g < Slots
  <2>1. SUFFICES ASSUME g >= Slots PROVE FALSE BY <1>0, <1>2
  <2>2. Grain * g >= Grain * Slots BY <1>0, <1>2, <2>1
  <2>3. Grain * g \in Nat /\ Grain * Slots = Slots * Grain BY <1>0, <1>2
  <2> QED BY <1>0, <1>1, <1>2, <2>2, <2>3
<1>5. (q * Slots + g) \div Slots = q /\ (q * Slots + g) % Slots = g
  <2>1. g \in 0 .. Slots - 1 BY <1>0, <1>2, <1>3
  <2> QED BY ONLY <1>0, <1>1, <2>1, DivModOf, Zenon
<1>6. u64_to_timespec(timespec_to_u64(t)) = q * Sec + g * Grain BY <1>4, <1>5, Zenon DEF u64_to_timespec
<1>7. q * Sec = Sec * q /\ g * Grain = Grain * g /\ q * Slots \in Nat /\ q * Sec \in Nat /\ g * Grain \in Nat
  BY <1>0, <1>1, <1>2
<1> QED BY <1>1, <1>2, <1>4, <1>6, <1>7

\* The times the readers read are natural numbers.
LEMMA U64Nat == ASSUME NEW u \in Nat PROVE u64_to_timespec(u) \in Nat
<1>1. Sec \in Nat /\ Grain \in Nat /\ Slots \in Nat \ {0} BY LeaseAssumption, Zenon DEF LeaseAssumption
<1>2. u \div Slots \in Nat /\ u % Slots \in Nat BY <1>1, DivMod
<1>3. (u \div Slots) * Sec \in Nat /\ (u % Slots) * Grain \in Nat BY <1>1, <1>2
<1> QED BY <1>3 DEF u64_to_timespec

\* A remote lease that was expired ends at time 0.
LEMMA ZeroIsOver == u64_to_timespec(0) = 0
<1>1. Sec \in Nat /\ Grain \in Nat /\ Slots \in Nat \ {0} BY LeaseAssumption, Zenon DEF LeaseAssumption
<1>2. 0 \div Slots = 0 /\ 0 % Slots = 0 BY <1>1
<1>3. 0 * Sec = 0 /\ 0 * Grain = 0 BY <1>1
<1> QED BY <1>2, <1>3 DEF u64_to_timespec
-----------------------------------------------------------------------------
(***************************************************************************)
(* What the operations of Lease leave.                                     *)
(***************************************************************************)
\* The lease and the timeout are lengths of time, and the lease is no longer than the timeout.
LEMMA Lengths == max_lease \in Nat \ {0} /\ ElectionTimeout \in Nat \ {0} /\ max_lease <= ElectionTimeout
BY LeaseAssumption, Zenon DEF LeaseAssumption

\* The times, terms and counts are natural numbers.
LEMMA Times ==
  ASSUME TypeOK
  PROVE  /\ now \in Nat /\ now # 0 /\ contact \in Nat /\ contact <= now /\ asked \in Nat /\ asked <= now
         /\ \A f \in foreign : f \in Nat /\ f <= now
BY DEF TypeOK, RaftType

LEMMA Terms ==
  ASSUME TypeOK
  PROVE  /\ term \in Nat /\ term # 0 /\ commitTerm \in Nat /\ commitTerm <= term
         /\ appliedTerm \in Nat /\ appliedTerm <= commitTerm /\ validSince \in Nat
BY DEF TypeOK, RaftType, PeerType

LEMMA PropTimes ==
  ASSUME TypeOK
  PROVE  /\ acked \in Nat /\ acked <= Len(props) /\ Len(props) \in Nat /\ DOMAIN props = 1 .. Len(props)
         /\ \A i \in DOMAIN props : props[i].term \in Nat /\ props[i].time \in Nat /\ props[i].at \in Nat
<1>1. props \in Seq(PropType) /\ acked \in 0 .. Len(props) BY Zenon DEF TypeOK, PeerType
<1>2. \A i \in DOMAIN props : props[i] \in PropType BY <1>1
<1>3. \A p \in PropType : p.term \in Nat /\ p.time \in Nat /\ p.at \in Nat BY Zenon DEF PropType
<1> QED BY <1>1, <1>2, <1>3

LEMMA ReadTimes ==
  ASSUME TypeOK
  PROVE  /\ readAcked \in Nat /\ readAcked <= Len(reads) /\ Len(reads) \in Nat /\ DOMAIN reads = 1 .. Len(reads)
         /\ \A i \in DOMAIN reads : reads[i] \in Nat
<1>1. reads \in Seq(Nat) /\ readAcked \in 0 .. Len(reads) BY Zenon DEF TypeOK, PeerType
<1> QED BY <1>1

LEMMA LeaseTimes ==
  ASSUME TypeOK
  PROVE  lease.ts \in Nat /\ lease.remote \in Nat /\ lease.kind \in {"none", "suspect", "valid"}
BY Zenon DEF TypeOK, SharedType, LeaseType

LEMMA CopyTimes ==
  ASSUME TypeOK
  PROVE  /\ meta.term \in Nat /\ meta.applied_index_term \in Nat
         /\ meta.last_valid_ts \in Nat /\ meta.last_valid_ts <= now
         /\ cache.term \in Nat /\ cache.applied_index_term \in Nat
         /\ cache.last_valid_ts \in Nat /\ cache.last_valid_ts <= now
BY Zenon DEF TypeOK, SharedType, ReaderType

LEMMA CopyLeases ==
  ASSUME TypeOK
  PROVE  /\ meta \in ReaderType /\ meta.lease \in Nat /\ meta.lease <= Len(cells)
         /\ cache \in ReaderType /\ cache.lease \in Nat /\ cache.lease <= Len(cells)
         /\ Len(cells) \in Nat
<1>1. meta \in ReaderType /\ cache \in ReaderType /\ Len(cells) \in Nat BY DEF TypeOK, SharedType
<1>2. meta.lease \in Nat /\ cache.lease \in Nat BY <1>1, Zenon DEF ReaderType
<1> QED BY <1>1, <1>2, Zenon DEF TypeOK, SharedType

LEMMA ThreadTimes ==
  ASSUME TypeOK
  PROVE  /\ ts \in Nat /\ ts <= now /\ snapAt \in Nat /\ read_id \in Nat /\ read_id <= now
         /\ snap.id \in Nat /\ snap.at \in Nat /\ snap.id <= now /\ snap.at <= now
<1>1. now \in Nat BY Times, Zenon
<1> QED BY <1>1 DEF TypeOK, ThreadType

\* What a sequence holds after an element is added.
LEMMA Appended ==
  ASSUME NEW S, NEW q \in Seq(S), NEW p \in S, NEW r, r = Append(q, p)
  PROVE  /\ r \in Seq(S) /\ Len(r) = Len(q) + 1
         /\ \A i \in DOMAIN r : (i \in DOMAIN q /\ r[i] = q[i]) \/ (i = Len(q) + 1 /\ r[i] = p)
OBVIOUS

\* The reader a thread has while it knows of none.
LEMMA NoReaderIs ==
  /\ NoReader \in ReaderType /\ NoReader.term = 0 /\ NoReader.applied_index_term = 0
  /\ NoReader.lease = 0 /\ NoReader.last_valid_ts = 0
BY Zenon DEF NoReader, ReaderType

\* RemoteLease::renew and expire change the time of one remote.
LEMMA SetRemoteIs ==
  ASSUME NEW C \in Seq(CellType), NEW i \in DOMAIN C, NEW u \in Nat, NEW D, D = SetRemote(C, i, u)
  PROVE  /\ D \in Seq(CellType) /\ Len(D) = Len(C) /\ DOMAIN D = DOMAIN C
         /\ D[i].expired_time = u /\ D[i].term = C[i].term
         /\ \A j \in DOMAIN C : j # i => D[j] = C[j]
<1>1. i # 0 OBVIOUS
<1>2. D = [C EXCEPT ![i] = [C[i] EXCEPT !.expired_time = u]] BY <1>1, Zenon DEF SetRemote
<1>3. C[i] \in CellType OBVIOUS
<1> DEFINE c == [C[i] EXCEPT !.expired_time = u]
<1>4. c \in CellType /\ c.expired_time = u /\ c.term = C[i].term BY <1>3, Zenon DEF CellType
<1> HIDE DEF c
<1>5. D = [C EXCEPT ![i] = c] BY <1>2, Zenon DEF c
<1>6. D \in Seq(CellType) /\ Len(D) = Len(C) /\ DOMAIN D = DOMAIN C BY <1>4, <1>5
<1> QED BY <1>4, <1>5, <1>6, Zenon

\* expire_remote_lease leaves no remote that lets a reader in.
LEMMA ExpireRemoteIs ==
  ASSUME TypeOK, CellsRight, NEW L, NEW C, <<L, C>> = expire_remote_lease(lease, cells)
  PROVE  /\ L = [lease EXCEPT !.remote = 0]
         /\ C \in Seq(CellType) /\ Len(C) = Len(cells)
         /\ \A i \in DOMAIN C : C[i].expired_time = 0
<1>1. L = [lease EXCEPT !.remote = 0] /\ C = SetRemote(cells, lease.remote, 0) BY Zenon DEF expire_remote_lease
<1>2. cells \in Seq(CellType) /\ lease.remote \in Nat /\ lease.remote <= Len(cells) BY Zenon DEF TypeOK, SharedType, LeaseType
<1>3. CASE lease.remote = 0
  <2>1. C = cells BY <1>1, <1>3, Zenon DEF SetRemote
  <2> QED BY <1>1, <1>2, <1>3, <2>1 DEF CellsRight
<1>4. CASE lease.remote # 0
  <2>2. lease.remote \in DOMAIN cells BY <1>2, <1>4
  <2>3. /\ C \in Seq(CellType) /\ Len(C) = Len(cells) /\ DOMAIN C = DOMAIN cells
        /\ C[lease.remote].expired_time = 0 /\ \A j \in DOMAIN cells : j # lease.remote => C[j] = cells[j]
    <3>1. 0 \in Nat BY Zenon
    <3>2. ASSUME NEW u \in Nat, C = SetRemote(cells, lease.remote, u)
          PROVE  /\ C \in Seq(CellType) /\ Len(C) = Len(cells) /\ DOMAIN C = DOMAIN cells
                 /\ C[lease.remote].expired_time = u /\ \A j \in DOMAIN cells : j # lease.remote => C[j] = cells[j]
      BY ONLY <1>2, <2>2, <3>2, SetRemoteIs
    <3> QED BY ONLY <1>1, <3>1, <3>2, Zenon
  <2>4. ASSUME NEW i \in DOMAIN C PROVE C[i].expired_time = 0
    <3>1. CASE i = lease.remote BY <2>3, <3>1, Zenon
    <3>2. CASE i # lease.remote
      <4>1. C[i] = cells[i] BY <2>3, <3>2, Zenon
      <4> QED BY <2>3, <3>2, <4>1, Zenon DEF CellsRight
    <3> QED BY <3>1, <3>2, Zenon
  <2> QED BY <1>1, <2>3, <2>4, Zenon
<1> QED BY <1>3, <1>4, Zenon

\* expire leaves no lease.
LEMMA ExpireIs ==
  ASSUME TypeOK, CellsRight, Becomes(expire(lease, cells))
  PROVE  /\ lease' \in LeaseType /\ lease'.kind = "none" /\ lease'.remote = 0
         /\ cells' \in Seq(CellType) /\ Len(cells') = Len(cells)
         /\ \A i \in DOMAIN cells' : cells'[i].expired_time = 0
<1> DEFINE L == expire_remote_lease(lease, cells)[1]
           C == expire_remote_lease(lease, cells)[2]
<1>1. lease' = [L EXCEPT !.kind = "none", !.ts = 0] /\ cells' = C BY Zenon DEF Becomes, expire
<1>2. <<L, C>> = expire_remote_lease(lease, cells) BY Zenon DEF expire_remote_lease
<1> HIDE DEF L, C
<1>3. /\ L = [lease EXCEPT !.remote = 0]
      /\ C \in Seq(CellType) /\ Len(C) = Len(cells)
      /\ \A i \in DOMAIN C : C[i].expired_time = 0
  BY <1>2, ExpireRemoteIs, Zenon
<1>4. lease \in LeaseType BY Zenon DEF TypeOK, SharedType
<1> QED BY <1>1, <1>3, <1>4, Zenon DEF LeaseType

\* suspect leaves a suspect lease, which no reader shares.
LEMMA SuspectIs ==
  ASSUME TypeOK, CellsRight, NEW t \in Nat, Becomes(suspect(lease, cells, t))
  PROVE  /\ lease' \in LeaseType /\ lease'.kind = "suspect" /\ lease'.remote = 0
         /\ lease'.ts = t + max_lease
         /\ cells' \in Seq(CellType) /\ Len(cells') = Len(cells)
         /\ \A i \in DOMAIN cells' : cells'[i].expired_time = 0
<1> DEFINE L == expire_remote_lease(lease, cells)[1]
           C == expire_remote_lease(lease, cells)[2]
<1>1. lease' = [L EXCEPT !.kind = "suspect", !.ts = t + max_lease] /\ cells' = C BY Zenon DEF Becomes, suspect
<1>2. <<L, C>> = expire_remote_lease(lease, cells) BY Zenon DEF expire_remote_lease
<1> HIDE DEF L, C
<1>3. /\ L = [lease EXCEPT !.remote = 0]
      /\ C \in Seq(CellType) /\ Len(C) = Len(cells)
      /\ \A i \in DOMAIN C : C[i].expired_time = 0
  BY <1>2, ExpireRemoteIs, Zenon
<1>4. lease \in LeaseType /\ t + max_lease \in Nat BY Lengths DEF TypeOK, SharedType
<1> QED BY <1>1, <1>3, <1>4, Zenon DEF LeaseType

\* renew: the bound grows to that of the new time, unless it is that of a later one.
LEMMA RenewIs ==
  ASSUME TypeOK, CellsRight, NEW t \in Nat, NEW L, NEW C, <<L, C>> = renew(lease, cells, t)
  PROVE  /\ L \in LeaseType /\ L.remote = lease.remote
         /\ IF lease.kind = "none" \/ lease.ts <= t + max_lease
            THEN L.kind = "valid" /\ L.ts = t + max_lease
            ELSE L.kind = lease.kind /\ L.ts = lease.ts
         /\ C \in Seq(CellType) /\ Len(C) = Len(cells)
         /\ \A i \in DOMAIN C : /\ C[i].term = cells[i].term
                                /\ C[i].expired_time # 0 =>
                                     /\ i = L.remote /\ L.kind = "valid"
                                     /\ u64_to_timespec(C[i].expired_time) <= L.ts
<1> DEFINE bound == t + max_lease
           L1 == IF lease.kind = "none" \/ lease.ts <= bound
                 THEN [lease EXCEPT !.kind = "valid", !.ts = bound] ELSE lease
           far == L1.kind = "valid" /\ L1.ts > L1.last + max_drift
<1>1. <<L, C>> = IF far THEN <<[L1 EXCEPT !.last = L1.ts], SetRemote(cells, L1.remote, timespec_to_u64(L1.ts))>>
                 ELSE <<L1, cells>>
  BY Zenon DEF renew
<1>2. lease \in LeaseType /\ cells \in Seq(CellType) /\ lease.remote <= Len(cells) /\ bound \in Nat
  BY Lengths DEF TypeOK, SharedType
<1>3. /\ L1 \in LeaseType /\ L1.remote = lease.remote
      /\ IF lease.kind = "none" \/ lease.ts <= bound
         THEN L1.kind = "valid" /\ L1.ts = bound
         ELSE L1.kind = lease.kind /\ L1.ts = lease.ts
  BY <1>2, Zenon DEF LeaseType
<1>4. \A i \in DOMAIN cells : cells[i].expired_time # 0 =>
                                     /\ i = L1.remote /\ L1.kind = "valid"
                                     /\ u64_to_timespec(cells[i].expired_time) <= L1.ts
  <2>1. SUFFICES ASSUME NEW i \in DOMAIN cells, cells[i].expired_time # 0
                 PROVE  /\ i = L1.remote /\ L1.kind = "valid"
                        /\ u64_to_timespec(cells[i].expired_time) <= L1.ts
    BY Zenon
  <2>2. i = lease.remote /\ lease.kind = "valid" /\ u64_to_timespec(cells[i].expired_time) <= lease.ts
    BY <2>1, Zenon DEF CellsRight
  <2>3. cells[i] \in CellType BY <1>2
  <2>4. u64_to_timespec(cells[i].expired_time) \in Nat BY <2>3, U64Nat, Zenon DEF CellType
  <2>5. lease.ts <= L1.ts BY <1>2, <1>3, <2>2 DEF LeaseType
  <2>6. L1.kind = "valid" BY <1>2, <1>3, <2>2, Zenon DEF LeaseType
  <2>7. lease.ts \in Nat /\ L1.ts \in Nat BY <1>2, <1>3, Zenon DEF LeaseType
  <2> QED BY <1>3, <2>2, <2>4, <2>5, <2>6, <2>7
<1> HIDE DEF L1
<1>5. CASE ~far
  <2>1. L = L1 /\ C = cells BY <1>1, <1>5, Zenon
  <2> QED BY <1>2, <1>3, <1>4, <2>1, Zenon
<1>6. CASE far
  <2>1. L = [L1 EXCEPT !.last = L1.ts] /\ C = SetRemote(cells, L1.remote, timespec_to_u64(L1.ts)) BY <1>1, <1>6, Zenon
  <2>2. L \in LeaseType /\ L.kind = L1.kind /\ L.ts = L1.ts /\ L.remote = L1.remote BY <1>3, <2>1, Zenon DEF LeaseType
  <2>3. CASE L1.remote = 0
    <3>1. C = cells BY <2>1, <2>3, Zenon DEF SetRemote
    <3> QED BY <1>2, <1>3, <1>4, <2>2, <3>1, Zenon
  <2>4. CASE L1.remote # 0
    <3> DEFINE u == timespec_to_u64(L1.ts)
    <3>1. C = SetRemote(cells, L1.remote, u) BY <2>1, Zenon
    <3>2. u \in Nat /\ u64_to_timespec(u) <= L1.ts BY <1>3, RoundedDown, Zenon DEF LeaseType
    <3> HIDE DEF u
    <3>3. L1.remote \in DOMAIN cells BY <1>2, <1>3, <2>4 DEF LeaseType
    <3>4. /\ C \in Seq(CellType) /\ Len(C) = Len(cells) /\ DOMAIN C = DOMAIN cells
          /\ C[L1.remote].expired_time = u /\ C[L1.remote].term = cells[L1.remote].term
          /\ \A j \in DOMAIN cells : j # L1.remote => C[j] = cells[j]
      BY <1>2, <3>1, <3>2, <3>3, SetRemoteIs
    <3>5. ASSUME NEW i \in DOMAIN C
          PROVE  /\ C[i].term = cells[i].term
                 /\ C[i].expired_time # 0 =>
                      /\ i = L.remote /\ L.kind = "valid"
                      /\ u64_to_timespec(C[i].expired_time) <= L.ts
      <4>1. CASE i = L1.remote BY <1>6, <2>2, <3>2, <3>4, <4>1, Zenon
      <4>2. CASE i # L1.remote
        <5>1. C[i] = cells[i] BY <3>4, <4>2, Zenon
        <5> QED BY <1>4, <3>4, <4>2, <5>1, Zenon
      <4> QED BY <4>1, <4>2, Zenon
    <3> QED BY <1>3, <2>2, <3>4, <3>5, Zenon
  <2> QED BY <2>3, <2>4, Zenon
<1> QED BY <1>5, <1>6, Zenon

\* maybe_renew_leader_lease: the lease is renewed and has a remote of this term.
LEMMA RenewLeaseIs ==
  ASSUME TypeOK, CellsRight, role = "leader", NEW t \in Nat, NEW reader0, RenewLease(t, reader0)
  PROVE  /\ lease' \in LeaseType /\ lease'.remote # 0
         /\ IF lease.kind = "none" \/ lease.ts <= t + max_lease
            THEN lease'.kind = "valid" /\ lease'.ts = t + max_lease
            ELSE lease'.kind = lease.kind /\ lease'.ts = lease.ts
         /\ cells' \in Seq(CellType) /\ Len(cells') >= Len(cells) /\ lease'.remote <= Len(cells')
         /\ cells'[lease'.remote].term = term
         /\ \A i \in DOMAIN cells' : cells'[i].expired_time # 0 =>
              /\ i = lease'.remote /\ lease'.kind = "valid"
              /\ u64_to_timespec(cells'[i].expired_time) <= lease'.ts
         /\ \/ meta' = reader0
            \/ meta' = [reader0 EXCEPT !.lease = lease'.remote, !.last_valid_ts = now]
         /\ panic' = FALSE
<1> DEFINE L == renew(lease, cells, t)[1]
           C == renew(lease, cells, t)[2]
           N == maybe_new_remote_lease(L, C)
<1>1. <<L, C>> = renew(lease, cells, t) BY DEF renew
<1>2. /\ lease' = N[1] /\ cells' = N[2]
      /\ meta' = reader0 \/ meta' = [reader0 EXCEPT !.lease = N[1].remote, !.last_valid_ts = now]
      /\ panic' = (L.remote # 0 /\ C[L.remote].term # term)
  BY Zenon DEF RenewLease, Becomes
<1> HIDE DEF L, C
<1>3. /\ L \in LeaseType /\ L.remote = lease.remote
      /\ IF lease.kind = "none" \/ lease.ts <= t + max_lease
         THEN L.kind = "valid" /\ L.ts = t + max_lease
         ELSE L.kind = lease.kind /\ L.ts = lease.ts
      /\ C \in Seq(CellType) /\ Len(C) = Len(cells)
      /\ \A i \in DOMAIN C : /\ C[i].term = cells[i].term
                             /\ C[i].expired_time # 0 =>
                                  /\ i = L.remote /\ L.kind = "valid"
                                  /\ u64_to_timespec(C[i].expired_time) <= L.ts
  BY <1>1, RenewIs, Zenon
<1>4. lease.remote <= Len(cells) /\ cells \in Seq(CellType) /\ term \in Nat BY Zenon DEF TypeOK, SharedType, RaftType
<1>5. CASE L.remote # 0
  <2>1. lease' = L /\ cells' = C BY <1>2, <1>5, Zenon DEF maybe_new_remote_lease
  <2>2. L.remote \in DOMAIN C BY <1>3, <1>4, <1>5 DEF LeaseType
  <2>3. C[L.remote].term = term BY <1>3, <1>5, <2>2, Zenon DEF CellsRight
  <2>4. panic' = FALSE BY <1>2, <2>3, Zenon
  <2>5. meta' = reader0 \/ meta' = [reader0 EXCEPT !.lease = lease'.remote, !.last_valid_ts = now]
    BY <1>2, Zenon
  <2>6. Len(C) >= Len(cells) /\ L.remote <= Len(C) BY <1>3, <1>4
  <2> HIDE DEF N
  <2> QED BY <1>3, <1>5, <2>1, <2>3, <2>4, <2>5, <2>6, Zenon
<1>6. CASE L.remote = 0
  <2> DEFINE c == [expired_time |-> IF L.kind = "valid" THEN timespec_to_u64(L.ts) ELSE 0, term |-> term]
  <2>1. lease' = [L EXCEPT !.remote = Len(C) + 1] /\ cells' = Append(C, c) BY <1>2, <1>6, Zenon DEF maybe_new_remote_lease
  <2>2. timespec_to_u64(L.ts) \in Nat /\ u64_to_timespec(timespec_to_u64(L.ts)) <= L.ts BY <1>3, RoundedDown, Zenon DEF LeaseType
  <2>3. c \in CellType /\ c.term = term /\ (c.expired_time # 0 => L.kind = "valid" /\ u64_to_timespec(c.expired_time) <= L.ts)
    BY <1>4, <2>2, Zenon DEF CellType
  <2> HIDE DEF c, N
  <2>8. Len(C) + 1 \in Nat BY <1>3
  <2>4. /\ lease' \in LeaseType /\ lease'.kind = L.kind /\ lease'.ts = L.ts /\ lease'.remote = Len(C) + 1
    <3> HIDE DEF LeaseType
    <3>1. L \in LeaseType BY <1>3, Zenon
    <3> DEFINE n == Len(C) + 1
    <3>2. lease' = [L EXCEPT !.remote = n] /\ n \in Nat BY <2>1, <2>8, Zenon
    <3> HIDE DEF n
    <3>3. lease' \in LeaseType /\ lease'.kind = L.kind /\ lease'.ts = L.ts /\ lease'.remote = n
      BY <3>1, <3>2, Zenon DEF LeaseType
    <3> QED BY <3>3, Zenon DEF n
  <2>5. /\ cells' \in Seq(CellType) /\ Len(cells') = Len(C) + 1 /\ cells'[Len(C) + 1] = c
        /\ \A i \in DOMAIN cells' : i = Len(C) + 1 \/ (i \in DOMAIN C /\ cells'[i] = C[i])
    BY <1>3, <2>1, <2>3
  <2>6. ASSUME NEW i \in DOMAIN cells', cells'[i].expired_time # 0
        PROVE  /\ i = lease'.remote /\ lease'.kind = "valid"
               /\ u64_to_timespec(cells'[i].expired_time) <= lease'.ts
    <3>1. CASE i = Len(C) + 1 BY <2>3, <2>4, <2>5, <2>6, <3>1, Zenon
    <3>2. CASE i \in DOMAIN C /\ cells'[i] = C[i] BY <1>3, <1>6, <2>6, <3>2
    <3> QED BY <2>5, <3>1, <3>2, Zenon
  <2>7. meta' = reader0 \/ meta' = [reader0 EXCEPT !.lease = lease'.remote, !.last_valid_ts = now]
    BY <1>2, Zenon
  <2>9. panic' = FALSE BY <1>2, <1>6, Zenon
  <2>10. lease'.remote # 0 /\ Len(cells') >= Len(cells) /\ lease'.remote <= Len(cells')
         /\ cells'[lease'.remote].term = term
    BY <1>3, <2>3, <2>4, <2>5, <2>8
  <2> QED BY <1>3, <2>4, <2>5, <2>6, <2>7, <2>9, <2>10, Zenon
<1> QED BY <1>5, <1>6, Zenon

\* The argument for reads: a reader finds its time in the shared lease only if the peer has not
\* stopped to hold it, is not asked to hand over, and no quorum can have elected another at that time.
LEMMA GrantIsRight ==
  ASSUME IInv, MayReadLocal(cache), ts >= cache.last_valid_ts, is_in_leader_lease
  PROVE  ts \notin foreign /\ asked = 0 /\ ts < contact + ElectionTimeout
<1> TypeOK /\ LeaseRight /\ CellsRight /\ CopiesRight /\ RaftType /\ PeerType /\ SharedType /\ ThreadType
  BY Zenon DEF IInv, TypeOK
<1> DEFINE i == cache.lease
           e == cells[i].expired_time
<1>1. i \in DOMAIN cells /\ cells[i] \in CellType BY DEF SharedType, ReaderType, MayReadLocal
<1>2. e \in Nat /\ u64_to_timespec(e) \in Nat BY <1>1, U64Nat, Zenon DEF CellType
<1>3. cells[i].term = cache.term /\ ts < u64_to_timespec(e) BY Zenon DEF is_in_leader_lease, remote_inspect
<1>4. e # 0 BY <1>2, <1>3, ZeroIsOver, ThreadTimes
<1>5. i = lease.remote /\ lease.kind = "valid" /\ u64_to_timespec(e) <= lease.ts BY <1>1, <1>4, Zenon DEF CellsRight
<1>6. i # 0 BY Zenon DEF MayReadLocal
<1>7. cache.term = term BY <1>3, <1>5, <1>6, Zenon DEF CellsRight
<1>8. InOffice /\ asked = 0 BY <1>5, <1>6, Zenon DEF LeaseRight
<1>9. commitTerm = term BY <1>7, Terms, CopyTimes DEF CopiesRight, CopyRight, MayReadLocal
<1>10. ts < contact + ElectionTimeout BY <1>2, <1>3, <1>5, <1>9, LeaseTimes, ThreadTimes, Times, Lengths DEF LeaseRight
<1>11. Quiet(cache.last_valid_ts) BY <1>7, <1>8, Zenon DEF CopiesRight, CopyRight
<1>12. ts \notin foreign BY <1>8, <1>10, <1>11, ThreadTimes, Times, Lengths DEF Quiet
<1> QED BY <1>8, <1>10, <1>12, Zenon
-----------------------------------------------------------------------------
(***************************************************************************)
(* Every action keeps the invariant.                                       *)
(***************************************************************************)
\* The parts of the invariant after a step.
LEMMA IInvNext ==
  ASSUME RaftType', PeerType', SharedType', ThreadType', ~panic', RaftRight', PropsRight', ReadsRight',
         LeaseRight', CellsRight', CopiesRight', ThreadRight'
  PROVE  IInv'
BY Zenon DEF IInv, TypeOK

\* The clock keeps the invariant.
LEMMA TickKeeps ==
  ASSUME IInv, Tick
  PROVE  IInv'
<1> TypeOK /\ ~panic /\ RaftRight /\ PropsRight /\ ReadsRight /\ LeaseRight
    /\ CellsRight /\ CopiesRight /\ ThreadRight /\ RaftType /\ PeerType /\ SharedType /\ ThreadType
  BY Zenon DEF IInv, TypeOK
<1>1. now' = now + 1 /\ foreign' = IF usurped THEN foreign \cup {now'} ELSE foreign
  BY Zenon DEF Tick, Later
<1>2. UNCHANGED <<role, term, changed, contact, asked, usurped, props, acked, appliedTerm,
                  commitTerm, reads, readAcked, current, lease, cells, meta, cache, pc, ts, byId,
                  snapAt, read_id, snap, validSince, panic>>
  BY Zenon DEF Tick, Later, peer, reader
<1>3. RaftType' BY <1>1, <1>2, Times, Terms DEF RaftType
<1>4. PeerType'
  <2>1. current \in 0 .. now' /\ validSince \in 0 .. now' BY <1>1, Times DEF PeerType
  <2> QED BY <1>2, <2>1, Zenon DEF PeerType
<1>5. SharedType'
  <2>1. meta.last_valid_ts <= now' /\ cache.last_valid_ts <= now' BY <1>1, CopyTimes, Times
  <2> QED BY <1>2, <2>1, Zenon DEF SharedType
<1>6. ThreadType' BY <1>1, <1>2, Times DEF ThreadType
<1>7. RaftRight'
  <2>1. ASSUME role = "leader", changed PROVE Quiet(now)'
    <3>1. SUFFICES ASSUME NEW f \in foreign', f >= now + 1
                   PROVE  usurped /\ (asked # 0 \/ f >= contact + ElectionTimeout)
      BY <1>1, <1>2, Zenon DEF Quiet
    <3>2. usurped /\ f = now + 1 BY <1>1, <3>1, Times
    <3>3. asked # 0 \/ now >= contact + ElectionTimeout BY <2>1, <3>2, Times, Zenon DEF Quiet, RaftRight
    <3> QED BY <3>2, <3>3, Times, Lengths
  <2> QED BY <1>1, <1>2, <2>1, Zenon DEF RaftRight
<1>8. PropsRight' BY <1>1, <1>2, Times, Terms, PropTimes DEF PropsRight
<1>9. ReadsRight' BY <1>1, <1>2, Times, Terms, ReadTimes DEF ReadsRight, InOffice
<1>10. LeaseRight'
  <2>1. lease.ts <= now + max_lease => lease.ts <= now' + max_lease BY <1>1, LeaseTimes, Times, Lengths
  <2> QED BY <1>2, <2>1, Zenon DEF LeaseRight, InOffice
<1>11. CellsRight' BY <1>2, Zenon DEF CellsRight
<1>12. CopiesRight'
  <2>1. ASSUME InOffice, NEW s \in Nat, s <= now, Quiet(s) PROVE Quiet(s)'
    <3>1. SUFFICES ASSUME NEW f \in foreign', f >= s
                   PROVE  usurped /\ (asked # 0 \/ f >= contact + ElectionTimeout)
      BY <1>2, Zenon DEF Quiet
    <3>2. CASE f \in foreign BY <2>1, <3>1, <3>2, Zenon DEF Quiet
    <3>3. CASE f \notin foreign
      <4>1. usurped /\ f = now + 1 BY <1>1, <3>1, <3>3, Zenon
      <4>2. asked # 0 \/ now >= contact + ElectionTimeout BY <2>1, <4>1, Zenon DEF Quiet, RaftRight
      <4> QED BY <4>1, <4>2, Times, Lengths
    <3> QED BY <3>2, <3>3, Zenon
  <2>2. CopyRight(meta)' /\ CopyRight(cache)'
    BY <1>2, <2>1, CopyTimes, Zenon DEF CopiesRight, CopyRight, InOffice
  <2> QED BY <1>2, <2>2, Zenon DEF CopiesRight, InOffice
<1>13. ThreadRight' BY <1>1, <1>2, Times, CopyTimes, ThreadTimes, Lengths DEF ThreadRight, MayReadLocal
<1> QED BY <1>2, <1>3, <1>4, <1>5, <1>6, <1>7, <1>8, <1>9, <1>10, <1>11, <1>12, <1>13, IInvNext, Zenon

\* An election of this peer keeps the invariant.
LEMMA ElectedKeeps ==
  ASSUME IInv, Elected
  PROVE  IInv'
<1> TypeOK /\ ~panic /\ RaftRight /\ PropsRight /\ ReadsRight /\ LeaseRight
    /\ CellsRight /\ CopiesRight /\ ThreadRight /\ RaftType /\ PeerType /\ SharedType /\ ThreadType
  BY Zenon DEF IInv, TypeOK
<1>1. /\ role = "follower" /\ ~changed /\ now' = now + 1 /\ contact' = now /\ role' = "leader"
      /\ term' = term + 1 /\ changed' = TRUE /\ asked' = 0 /\ usurped' = FALSE
  BY Zenon DEF Elected, Later
<1>2. UNCHANGED <<foreign, props, acked, appliedTerm, commitTerm, reads, readAcked, current,
                  lease, cells, meta, cache, pc, ts, byId, snapAt, read_id, snap, validSince,
                  panic>>
  BY Zenon DEF Elected, Later, peer, reader
<1>3. RaftType'
  <2>1. now' \in Nat \ {0} /\ term' \in Nat \ {0} /\ contact' \in 0 .. now' /\ asked' \in 0 .. now'
    BY <1>1, Times, Terms
  <2>2. foreign' \subseteq 0 .. now' BY <1>1, <1>2, Times
  <2> QED BY <1>1, <2>1, <2>2, Zenon DEF RaftType
<1>4. PeerType'
  <2>1. /\ commitTerm \in 0 .. term' /\ current \in 0 .. now' /\ validSince \in 0 .. now'
    BY SMTT(30), <1>1, Times, Terms DEF PeerType
  <2> QED BY <1>2, <2>1, Zenon DEF PeerType
<1>5. SharedType'
  <2>1. meta.last_valid_ts <= now' /\ cache.last_valid_ts <= now' BY <1>1, CopyTimes, Times
  <2> QED BY <1>2, <2>1, Zenon DEF SharedType
<1>6. ThreadType' BY <1>1, <1>2, Times DEF ThreadType
<1>7. RaftRight'
  <2>1. meta.term < term' BY <1>1, Terms, CopyTimes DEF CopiesRight, CopyRight
  <2>2. \A i \in DOMAIN props : props[i].term < term' BY <1>1, Terms, PropTimes DEF PropsRight
  <2>3. commitTerm < term' BY <1>1, Terms
  <2>4. Quiet(now)' BY <1>1, <1>2, Times DEF Quiet
  <2> QED BY <1>1, <1>2, <2>1, <2>2, <2>3, <2>4, Zenon DEF RaftRight
<1>8. PropsRight'
  <2>1. \A i \in 1 .. acked : i \in DOMAIN props BY PropTimes
  <2>2. ASSUME NEW i \in DOMAIN props PROVE props[i].term # term' /\ props[i].term <= term' /\ props[i].at <= now'
    <3>1. props[i].term <= term /\ props[i].at <= now BY Zenon DEF PropsRight
    <3>2. props[i].term \in Nat /\ props[i].at \in Nat /\ term \in Nat /\ now \in Nat BY PropTimes, Terms, Times, Zenon
    <3> QED BY <1>1, <3>1, <3>2
  <2> QED BY <1>2, <2>1, <2>2, Zenon DEF PropsRight
<1>9. ReadsRight'
  <2>1. reads = <<>> BY <1>1, Zenon DEF ReadsRight, InOffice
  <2>2. DOMAIN reads = {} /\ readAcked = 0 BY <2>1, ReadTimes
  <2> QED BY <1>2, <2>1, <2>2 DEF ReadsRight
<1>10. LeaseRight' BY <1>1, <1>2, Times, Terms, LeaseTimes, PropTimes, Lengths, Zenon DEF LeaseRight, InOffice
<1>11. CellsRight'
  <2>1. lease.remote = 0 BY <1>1, Zenon DEF LeaseRight, InOffice
  <2> QED BY <1>2, <2>1, Zenon DEF CellsRight
<1>12. CopiesRight' BY <1>1, <1>2, Times, Terms, CopyTimes, Lengths DEF CopiesRight, CopyRight, InOffice, Quiet
<1>13. ThreadRight' BY <1>1, <1>2, Times, CopyTimes, ThreadTimes, Lengths DEF ThreadRight, MayReadLocal
<1> QED BY <1>2, <1>3, <1>4, <1>5, <1>6, <1>7, <1>8, <1>9, <1>10, <1>11, <1>12, <1>13, IInvNext, Zenon

\* An election of another peer keeps the invariant.
LEMMA UsurpKeeps ==
  ASSUME IInv, Usurp
  PROVE  IInv'
<1> TypeOK /\ ~panic /\ RaftRight /\ PropsRight /\ ReadsRight /\ LeaseRight
    /\ CellsRight /\ CopiesRight /\ ThreadRight /\ RaftType /\ PeerType /\ SharedType /\ ThreadType
  BY Zenon DEF IInv, TypeOK
<1>1. /\ role = "leader" /\ ~usurped /\ (asked # 0 \/ now >= contact + ElectionTimeout)
      /\ usurped' = TRUE /\ foreign' = foreign \cup {now}
  BY Zenon DEF Usurp
<1>2. UNCHANGED <<now, role, term, changed, contact, asked, props, acked, appliedTerm, commitTerm,
                  reads, readAcked, current, lease, cells, meta, cache, pc, ts, byId, snapAt,
                  read_id, snap, validSince, panic>>
  BY Zenon DEF Usurp, peer, reader
<1>3. RaftType' BY <1>1, <1>2, Times, Terms DEF RaftType
<1>4. PeerType' BY <1>2, Zenon DEF PeerType
<1>5. SharedType' BY <1>2, Zenon DEF SharedType
<1>6. ThreadType' BY <1>2, Zenon DEF ThreadType
<1>7. RaftRight' BY <1>1, <1>2, Times, Terms, PropTimes, CopyTimes, Lengths, Zenon DEF RaftRight, Quiet
<1>8. PropsRight' BY <1>2, Zenon DEF PropsRight
<1>9. ReadsRight' BY <1>2, Zenon DEF ReadsRight, InOffice
<1>10. LeaseRight' BY <1>2, Zenon DEF LeaseRight, InOffice
<1>11. CellsRight' BY <1>2, Zenon DEF CellsRight
<1>12. CopiesRight' BY <1>1, <1>2, Times, Terms, CopyTimes, Lengths, Zenon DEF CopiesRight, CopyRight, InOffice, Quiet
<1>13. ThreadRight' BY <1>1, <1>2, Times, CopyTimes, ThreadTimes, Lengths DEF ThreadRight, MayReadLocal
<1> QED BY <1>2, <1>3, <1>4, <1>5, <1>6, <1>7, <1>8, <1>9, <1>10, <1>11, <1>12, <1>13, IInvNext, Zenon

\* Hearing of a later term keeps the invariant.
LEMMA StepDownKeeps ==
  ASSUME IInv, StepDown
  PROVE  IInv'
<1> TypeOK /\ ~panic /\ RaftRight /\ PropsRight /\ ReadsRight /\ LeaseRight
    /\ CellsRight /\ CopiesRight /\ ThreadRight /\ RaftType /\ PeerType /\ SharedType /\ ThreadType
  BY Zenon DEF IInv, TypeOK
<1>1. /\ role = "leader" /\ usurped /\ ~changed /\ role' = "follower" /\ changed' = TRUE
  BY Zenon DEF StepDown
<1>2. UNCHANGED <<now, term, contact, asked, foreign, usurped, props, acked, appliedTerm,
                  commitTerm, reads, readAcked, current, lease, cells, meta, cache, pc, ts, byId,
                  snapAt, read_id, snap, validSince, panic>>
  BY Zenon DEF StepDown, peer, reader
<1>3. RaftType' BY <1>1, <1>2, Times, Terms, Zenon DEF RaftType
<1>4. PeerType' BY <1>2, Zenon DEF PeerType
<1>5. SharedType' BY <1>2, Zenon DEF SharedType
<1>6. ThreadType' BY <1>2, Zenon DEF ThreadType
<1>7. RaftRight' BY <1>1, <1>2, Times, Terms, PropTimes, CopyTimes, Lengths, Zenon DEF RaftRight, Quiet
<1>8. PropsRight' BY <1>2, Zenon DEF PropsRight
<1>9. ReadsRight' BY <1>1, <1>2, Times, Terms, ReadTimes, Zenon DEF ReadsRight, InOffice
<1>10. LeaseRight' BY <1>1, <1>2, Times, Terms, LeaseTimes, PropTimes, Lengths, Zenon DEF LeaseRight, InOffice
<1>11. CellsRight' BY <1>2, Zenon DEF CellsRight
<1>12. CopiesRight' BY <1>1, <1>2, Times, Terms, CopyTimes, Lengths, Zenon DEF CopiesRight, CopyRight, InOffice, Quiet
<1>13. ThreadRight' BY <1>2, Zenon DEF ThreadRight, MayReadLocal
<1> QED BY <1>2, <1>3, <1>4, <1>5, <1>6, <1>7, <1>8, <1>9, <1>10, <1>11, <1>12, <1>13, IInvNext, Zenon

\* A quorum that stores entries keeps the invariant.
LEMMA StoreEntriesKeeps ==
  ASSUME IInv, NEW n \in DOMAIN props, StoreEntries(n)
  PROVE  IInv'
<1> TypeOK /\ ~panic /\ RaftRight /\ PropsRight /\ ReadsRight /\ LeaseRight
    /\ CellsRight /\ CopiesRight /\ ThreadRight /\ RaftType /\ PeerType /\ SharedType /\ ThreadType
  BY Zenon DEF IInv, TypeOK
<1>1. /\ role = "leader" /\ ~usurped /\ props[n].term = term /\ acked' = n
      /\ contact' = (IF contact >= props[n].at THEN contact ELSE props[n].at)
      /\ asked' = IF props[n].at >= asked THEN 0 ELSE asked
  BY Zenon DEF StoreEntries, Max
<1>2. UNCHANGED <<now, role, term, changed, foreign, usurped, props, appliedTerm, commitTerm,
                  reads, readAcked, current, lease, cells, meta, cache, pc, ts, byId, snapAt,
                  read_id, snap, validSince, panic>>
  BY Zenon DEF StoreEntries, Max, peer, reader
<1>c. /\ contact' \in Nat /\ contact <= contact' /\ contact' <= now /\ props[n].at <= contact'
      /\ asked' \in Nat /\ asked' <= now /\ (asked' # 0 => asked' = asked /\ props[n].at < asked)
  BY <1>1, Times, PropTimes DEF PropsRight
<1>3. RaftType'
  <2>1. contact' \in 0 .. now /\ asked' \in 0 .. now BY <1>c, Times
  <2> QED BY <1>2, <2>1, Zenon DEF RaftType
<1>4. PeerType'
  <2>1. acked' \in 0 .. Len(props) BY <1>1, PropTimes
  <2> QED BY <1>2, <2>1, Zenon DEF PeerType
<1>5. SharedType' BY <1>2, Zenon DEF SharedType
<1>6. ThreadType' BY <1>2, Zenon DEF ThreadType
<1>7. RaftRight'
  <2>1. ~changed \/ Quiet(now)'
    <3>1. CASE changed
      <4>1. \A f \in foreign : f < now BY <1>1, <3>1, Times DEF RaftRight, Quiet
      <4> QED BY <1>2, <4>1, Times DEF Quiet
    <3> QED BY <3>1, Zenon
  <2>2. changed => asked' = 0 BY <1>1, <1>c, Zenon DEF RaftRight
  <2> QED BY <1>2, <2>1, <2>2, Zenon DEF RaftRight
<1>8. PropsRight'
  <2>1. SUFFICES ASSUME NEW i \in 1 .. n, props[i].term = term
                 PROVE  props[i].at <= contact' /\ (asked' = 0 \/ props[i].at < asked')
    BY <1>1, <1>2, PropTimes, Zenon DEF PropsRight
  <2>2. i \in DOMAIN props /\ i <= n BY PropTimes
  <2>3. props[i].at <= props[n].at BY <2>2, Zenon DEF PropsRight
  <2>4. props[i].at \in Nat /\ props[n].at \in Nat /\ asked \in Nat BY <2>2, PropTimes, Times, Zenon
  <2> QED BY <1>c, <2>3, <2>4
<1>9. ReadsRight'
  <2>1. \A i \in 1 .. readAcked : i \in DOMAIN reads BY ReadTimes
  <2>2. \A i \in 1 .. readAcked : reads[i] <= contact' BY <1>c, <2>1, ReadTimes, Times DEF ReadsRight
  <2> QED BY <1>2, <2>2, Zenon DEF ReadsRight, InOffice
<1>10. LeaseRight'
  <2>1. lease.kind = "valid" /\ commitTerm = term => lease.ts <= contact' + ElectionTimeout
    <3>1. lease.kind = "valid" /\ commitTerm = term => lease.ts <= contact + ElectionTimeout BY Zenon DEF LeaseRight
    <3>2. lease.ts \in Nat /\ contact \in Nat /\ ElectionTimeout \in Nat BY LeaseTimes, Times, Lengths, Zenon
    <3> QED BY <1>c, <3>1, <3>2
  <2> QED BY <1>2, <1>c, <2>1, Zenon DEF LeaseRight, InOffice
<1>11. CellsRight' BY <1>2, Zenon DEF CellsRight
<1>12. CopiesRight'
  <2>1. ASSUME NEW s, Quiet(s) PROVE Quiet(s)' BY <1>1, <1>2, <2>1, Zenon DEF Quiet
  <2>2. CopyRight(meta)' /\ CopyRight(cache)' BY <1>2, <2>1, Zenon DEF CopiesRight, CopyRight, InOffice
  <2> QED BY <1>2, <2>2, Zenon DEF CopiesRight, InOffice
<1>13. ThreadRight' BY <1>2, <1>c, Times, Lengths DEF ThreadRight, MayReadLocal
<1> QED BY <1>2, <1>3, <1>4, <1>5, <1>6, <1>7, <1>8, <1>9, <1>10, <1>11, <1>12, <1>13, IInvNext, Zenon

\* A quorum that answers heartbeats keeps the invariant.
LEMMA AnswerReadsKeeps ==
  ASSUME IInv, NEW n \in DOMAIN reads, AnswerReads(n)
  PROVE  IInv'
<1> TypeOK /\ ~panic /\ RaftRight /\ PropsRight /\ ReadsRight /\ LeaseRight
    /\ CellsRight /\ CopiesRight /\ ThreadRight /\ RaftType /\ PeerType /\ SharedType /\ ThreadType
  BY Zenon DEF IInv, TypeOK
<1>1. /\ role = "leader" /\ ~usurped /\ readAcked' = n
      /\ contact' = IF contact >= reads[n] THEN contact ELSE reads[n]
  BY Zenon DEF AnswerReads, Max
<1>2. UNCHANGED <<now, role, term, changed, asked, foreign, usurped, props, acked, appliedTerm,
                  commitTerm, reads, current, lease, cells, meta, cache, pc, ts, byId, snapAt,
                  read_id, snap, validSince, panic>>
  BY Zenon DEF AnswerReads, Max, peer, reader
<1>c. contact' \in Nat /\ contact <= contact' /\ contact' <= now /\ reads[n] <= contact'
  BY <1>1, Times, ReadTimes DEF ReadsRight
<1>3. RaftType'
  <2>1. contact' \in 0 .. now BY <1>c, Times
  <2> QED BY <1>2, <2>1, Zenon DEF RaftType
<1>4. PeerType'
  <2>1. readAcked' \in 0 .. Len(reads) BY <1>1, ReadTimes
  <2> QED BY <1>2, <2>1, Zenon DEF PeerType
<1>5. SharedType' BY <1>2, Zenon DEF SharedType
<1>6. ThreadType' BY <1>2, Zenon DEF ThreadType
<1>7. RaftRight'
  <2>1. ~changed BY <1>1 DEF ReadsRight, InOffice
  <2> QED BY <1>2, <2>1, Zenon DEF RaftRight
<1>8. PropsRight'
  <2>1. \A i \in 1 .. acked : i \in DOMAIN props BY PropTimes
  <2>2. \A i \in 1 .. acked : props[i].at <= contact => props[i].at <= contact'
    BY <1>c, <2>1, PropTimes, Times
  <2> QED BY <1>2, <2>2, Zenon DEF PropsRight
<1>9. ReadsRight'
  <2>1. SUFFICES ASSUME NEW i \in 1 .. n PROVE reads[i] <= contact'
    BY <1>1, <1>2, Zenon DEF ReadsRight, InOffice
  <2>2. i \in DOMAIN reads /\ i <= n BY ReadTimes
  <2>3. reads[i] <= reads[n] BY <2>2, Zenon DEF ReadsRight
  <2> QED BY <1>c, <2>2, <2>3, ReadTimes
<1>10. LeaseRight'
  <2>1. lease.kind = "valid" /\ commitTerm = term => lease.ts <= contact' + ElectionTimeout
    <3>1. lease.kind = "valid" /\ commitTerm = term => lease.ts <= contact + ElectionTimeout BY Zenon DEF LeaseRight
    <3>2. lease.ts \in Nat /\ contact \in Nat /\ ElectionTimeout \in Nat BY LeaseTimes, Times, Lengths, Zenon
    <3> QED BY <1>c, <3>1, <3>2
  <2> QED BY <1>2, <1>c, <2>1, Zenon DEF LeaseRight, InOffice
<1>11. CellsRight' BY <1>2, Zenon DEF CellsRight
<1>12. CopiesRight'
  <2>1. ASSUME NEW s, Quiet(s) PROVE Quiet(s)' BY <1>1, <1>2, <2>1, Zenon DEF Quiet
  <2>2. CopyRight(meta)' /\ CopyRight(cache)' BY <1>2, <2>1, Zenon DEF CopiesRight, CopyRight, InOffice
  <2> QED BY <1>2, <2>2, Zenon DEF CopiesRight, InOffice
<1>13. ThreadRight' BY <1>2, <1>c, Times, Lengths DEF ThreadRight, MayReadLocal
<1> QED BY <1>2, <1>3, <1>4, <1>5, <1>6, <1>7, <1>8, <1>9, <1>10, <1>11, <1>12, <1>13, IInvNext, Zenon

\* The end of a round keeps the invariant.
LEMMA EndRoundKeeps ==
  ASSUME IInv, EndRound
  PROVE  IInv'
<1> TypeOK /\ ~panic /\ RaftRight /\ PropsRight /\ ReadsRight /\ LeaseRight
    /\ CellsRight /\ CopiesRight /\ ThreadRight /\ RaftType /\ PeerType /\ SharedType /\ ThreadType
  BY Zenon DEF IInv, TypeOK
<1>1. current' = 0
  BY Zenon DEF EndRound
<1>2. UNCHANGED <<now, role, term, changed, contact, asked, foreign, usurped, props, acked,
                  appliedTerm, commitTerm, reads, readAcked, lease, cells, meta, cache, pc, ts,
                  byId, snapAt, read_id, snap, validSince, panic>>
  BY Zenon DEF EndRound, raft, reader
<1>3. RaftType' BY <1>2, Zenon DEF RaftType
<1>4. PeerType' BY <1>1, <1>2, Times, Terms DEF PeerType
<1>5. SharedType' BY <1>2, Zenon DEF SharedType
<1>6. ThreadType' BY <1>2, Zenon DEF ThreadType
<1>7. RaftRight' BY <1>2, Zenon DEF RaftRight, Quiet
<1>8. PropsRight' BY <1>2, Zenon DEF PropsRight
<1>9. ReadsRight' BY <1>2, Zenon DEF ReadsRight, InOffice
<1>10. LeaseRight' BY <1>2, Zenon DEF LeaseRight, InOffice
<1>11. CellsRight' BY <1>2, Zenon DEF CellsRight
<1>12. CopiesRight' BY <1>2, Zenon DEF CopiesRight, CopyRight, InOffice, Quiet
<1>13. ThreadRight' BY <1>2, Zenon DEF ThreadRight, MayReadLocal
<1> QED BY <1>2, <1>3, <1>4, <1>5, <1>6, <1>7, <1>8, <1>9, <1>10, <1>11, <1>12, <1>13, IInvNext, Zenon

\* A proposal that is added is of this term and was sent now, after those before it.
LEMMA PropAdded ==
  ASSUME IInv, NEW t \in Nat, t <= now, props' = Append(props, [term |-> term, time |-> t, at |-> now]),
         UNCHANGED <<now, term, acked, contact, asked>>
  PROVE  /\ props' \in Seq(PropType) /\ Len(props') = Len(props) + 1 /\ PropsRight'
         /\ \A i \in DOMAIN props' : \/ i \in DOMAIN props /\ props'[i] = props[i]
                                     \/ i = Len(props) + 1 /\ props'[i].term = term /\ props'[i].at = now
<1> TypeOK /\ PropsRight /\ RaftType /\ PeerType /\ SharedType /\ ThreadType
  BY Zenon DEF IInv, TypeOK
<1> DEFINE p == [term |-> term, time |-> t, at |-> now]
<1>1. p \in PropType /\ p.term = term /\ p.time <= p.at /\ p.at = now BY Times, Terms, Zenon DEF PropType
<1>2. props' = Append(props, p) BY Zenon
<1> HIDE DEF p
<1>3. /\ props' \in Seq(PropType) /\ Len(props') = Len(props) + 1
      /\ \A i \in DOMAIN props' : (i \in DOMAIN props /\ props'[i] = props[i]) \/ (i = Len(props) + 1 /\ props'[i] = p)
  <2>1. props \in Seq(PropType) BY Zenon DEF PeerType
  <2> QED BY <1>1, <1>2, <2>1, Appended
<1>4. ASSUME NEW i \in DOMAIN props'
      PROVE  props'[i].time <= props'[i].at /\ props'[i].at <= now /\ props'[i].term <= term
  <2>1. CASE i \in DOMAIN props /\ props'[i] = props[i] BY <2>1, Zenon DEF PropsRight
  <2>2. CASE props'[i] = p
    <3>1. p.at <= now /\ p.term <= term BY <1>1, Times, Terms
    <3> QED BY <1>1, <2>2, <3>1, Zenon
  <2> QED BY <1>3, <2>1, <2>2, Zenon
<1>5. ASSUME NEW i \in DOMAIN props', NEW j \in DOMAIN props', i <= j PROVE props'[i].at <= props'[j].at
  <2>1. CASE j \in DOMAIN props
    <3>1. i \in DOMAIN props BY <1>3, <1>5, <2>1, PropTimes
    <3>2. props'[i] = props[i] /\ props'[j] = props[j] BY <1>3, <2>1, <3>1, PropTimes
    <3> QED BY <1>5, <2>1, <3>1, <3>2, Zenon DEF PropsRight
  <2>2. CASE j \notin DOMAIN props BY <1>1, <1>3, <1>4, <2>2, Zenon
  <2> QED BY <2>1, <2>2, Zenon
<1>6. ASSUME NEW i \in 1 .. acked PROVE props'[i] = props[i]
  <2>1. i \in DOMAIN props /\ i \in DOMAIN props' BY <1>3, PropTimes
  <2> QED BY <1>3, <2>1, PropTimes
<1>7. PropsRight' BY <1>4, <1>5, <1>6, Zenon DEF PropsRight
<1> QED BY <1>1, <1>3, <1>7, Zenon

\* A proposal keeps the invariant.
LEMMA ProposeKeeps ==
  ASSUME IInv, Propose
  PROVE  IInv'
<1> TypeOK /\ ~panic /\ RaftRight /\ PropsRight /\ ReadsRight /\ LeaseRight
    /\ CellsRight /\ CopiesRight /\ ThreadRight /\ RaftType /\ PeerType /\ SharedType /\ ThreadType
  BY Zenon DEF IInv, TypeOK
<1>1. /\ role = "leader" /\ ~changed /\ current' = (IF current = 0 THEN now ELSE current)
      /\ props' = Append(props, [term |-> term, time |-> current', at |-> now])
  BY Zenon DEF Propose, PushProposal
<1>2. UNCHANGED <<now, role, term, changed, contact, asked, foreign, usurped, acked, appliedTerm,
                  commitTerm, reads, readAcked, lease, cells, meta, cache, pc, ts, byId, snapAt,
                  read_id, snap, validSince, panic>>
  BY Zenon DEF Propose, PushProposal, raft, reader
<1>a. current' \in Nat /\ current' <= now BY <1>1 DEF PeerType, RaftType
<1>c. /\ props' \in Seq(PropType) /\ Len(props') = Len(props) + 1 /\ PropsRight'
      /\ \A i \in DOMAIN props' : \/ i \in DOMAIN props /\ props'[i] = props[i]
                                  \/ i = Len(props) + 1 /\ props'[i].term = term /\ props'[i].at = now
  BY <1>1, <1>2, <1>a, PropAdded, Zenon
<1>3. RaftType' BY <1>2, Zenon DEF RaftType
<1>4. PeerType' BY <1>2, <1>a, <1>c, Times, PropTimes DEF PeerType
<1>5. SharedType' BY <1>2, Zenon DEF SharedType
<1>6. ThreadType' BY <1>2, Zenon DEF ThreadType
<1>7. RaftRight' BY <1>1, <1>2, Zenon DEF RaftRight
<1>8. ReadsRight' BY <1>2, Zenon DEF ReadsRight, InOffice
<1>9. LeaseRight'
  <2>1. ASSUME lease.kind = "valid", commitTerm < term, NEW i \in DOMAIN props', props'[i].term = term
        PROVE  lease.ts <= props'[i].at + max_lease
    <3>1. CASE i \in DOMAIN props /\ props'[i] = props[i] BY <2>1, <3>1, Zenon DEF LeaseRight
    <3>2. CASE props'[i].at = now BY <2>1, <3>2, Zenon DEF LeaseRight
    <3> QED BY <1>c, <3>1, <3>2, Zenon
  <2> QED BY <1>2, <2>1, Zenon DEF LeaseRight, InOffice
<1>10. CellsRight' BY <1>2, Zenon DEF CellsRight
<1>11. CopiesRight' BY <1>2, Zenon DEF CopiesRight, CopyRight, InOffice, Quiet
<1>12. ThreadRight' BY <1>2, Zenon DEF ThreadRight, MayReadLocal
<1> QED BY <1>2, <1>3, <1>4, <1>5, <1>6, <1>7, <1>8, <1>9, <1>10, <1>11, <1>12, <1>c, IInvNext, Zenon

\* The request to take over keeps the invariant: every entry a quorum has was sent before it.
LEMMA TransferLeaderKeeps ==
  ASSUME IInv, TransferLeader
  PROVE  IInv'
<1> TypeOK /\ ~panic /\ RaftRight /\ PropsRight /\ ReadsRight /\ LeaseRight
    /\ CellsRight /\ CopiesRight /\ ThreadRight /\ RaftType /\ PeerType /\ SharedType /\ ThreadType
  BY Zenon DEF IInv, TypeOK
<1>1. /\ role = "leader" /\ ~changed /\ now' = now + 1 /\ asked' = now + 1
      /\ foreign' = IF usurped THEN foreign \cup {now'} ELSE foreign
  BY Zenon DEF TransferLeader, Later
<1>2. UNCHANGED <<role, term, changed, contact, usurped, props, acked, appliedTerm, commitTerm,
                  reads, readAcked, current, meta, cache, pc, ts, byId, snapAt, read_id, snap,
                  validSince, panic>>
  BY Zenon DEF TransferLeader, reader
<1>c. /\ lease' \in LeaseType /\ lease'.kind = "suspect" /\ lease'.remote = 0
      /\ lease'.ts = now + 1 + max_lease
      /\ cells' \in Seq(CellType) /\ Len(cells') = Len(cells)
      /\ \A i \in DOMAIN cells' : cells'[i].expired_time = 0
  <2>1. Becomes(suspect(lease, cells, now + 1)) BY <1>1, Zenon DEF TransferLeader
  <2>2. now + 1 \in Nat BY Times
  <2> QED BY <2>1, <2>2, SuspectIs, Zenon
<1>3. RaftType' BY <1>1, <1>2, Times, Terms DEF RaftType
<1>4. PeerType'
  <2>1. current \in 0 .. now' /\ validSince \in 0 .. now' BY <1>1, Times DEF PeerType
  <2> QED BY <1>2, <2>1, Zenon DEF PeerType
<1>5. SharedType'
  <2>1. meta.last_valid_ts <= now' /\ cache.last_valid_ts <= now' BY <1>1, CopyTimes, Times
  <2>2. Len(cells) \in Nat BY DEF SharedType
  <2> QED BY <1>2, <1>c, <2>1, <2>2 DEF SharedType
<1>6. ThreadType' BY <1>1, <1>2, Times DEF ThreadType
<1>7. RaftRight' BY <1>1, <1>2, Zenon DEF RaftRight
<1>8. PropsRight'
  <2>1. ASSUME NEW i \in DOMAIN props PROVE props[i].at <= now' /\ props[i].at < asked'
    <3>1. props[i].at <= now BY Zenon DEF PropsRight
    <3>2. props[i].at \in Nat /\ now \in Nat BY PropTimes, Times, Zenon
    <3> QED BY <1>1, <3>1, <3>2
  <2>2. \A i \in 1 .. acked : i \in DOMAIN props BY PropTimes
  <2> QED BY <1>2, <2>1, <2>2, Zenon DEF PropsRight
<1>9. ReadsRight'
  <2>1. \A i \in DOMAIN reads : reads[i] <= now' BY <1>1, ReadTimes, Times DEF ReadsRight
  <2> QED BY <1>2, <2>1, Zenon DEF ReadsRight, InOffice
<1>10. LeaseRight' BY <1>1, <1>2, <1>c, Zenon DEF LeaseRight, InOffice
<1>11. CellsRight' BY <1>c, Zenon DEF CellsRight
<1>12. CopiesRight'
  <2>1. ASSUME NEW s, Quiet(s) PROVE Quiet(s)' 
    <3>1. asked' # 0 BY <1>1, Times
    <3> QED BY <1>1, <1>2, <2>1, <3>1, Zenon DEF Quiet
  <2>2. CopyRight(meta)' /\ CopyRight(cache)' BY <1>2, <2>1, Zenon DEF CopiesRight, CopyRight, InOffice
  <2> QED BY <1>2, <2>2, Zenon DEF CopiesRight, InOffice
<1>13. ThreadRight' BY <1>1, <1>2, Times, ThreadTimes DEF ThreadRight, MayReadLocal
<1> QED BY <1>2, <1>3, <1>4, <1>5, <1>6, <1>7, <1>8, <1>9, <1>10, <1>11, <1>12, <1>13, IInvNext, Zenon

\* A read index request keeps the invariant: a lease dropped here was not suspect.
LEMMA ReadIndexKeeps ==
  ASSUME IInv, ReadIndex
  PROVE  IInv'
<1> TypeOK /\ ~panic /\ RaftRight /\ PropsRight /\ ReadsRight /\ LeaseRight
    /\ CellsRight /\ CopiesRight /\ ThreadRight /\ RaftType /\ PeerType /\ SharedType /\ ThreadType
  BY Zenon DEF IInv, TypeOK
<1>1. /\ role = "leader" /\ ~changed /\ commitTerm = term /\ Becomes(Inspected)
      /\ reads' = reads \/ reads' = Append(reads, now)
      /\ (props' = props /\ current' = current) \/ PushProposal
  BY Zenon DEF ReadIndex
<1>2. UNCHANGED <<now, role, term, changed, contact, asked, foreign, usurped, acked, appliedTerm,
                  commitTerm, readAcked, meta, cache, pc, ts, byId, snapAt, read_id, snap,
                  validSince, panic>>
  BY Zenon DEF ReadIndex, raft, reader
<1>a. \/ lease' = lease /\ cells' = cells
      \/ /\ asked = 0 /\ lease' \in LeaseType /\ lease'.kind = "none" /\ lease'.remote = 0
         /\ cells' \in Seq(CellType) /\ Len(cells') = Len(cells)
         /\ \A i \in DOMAIN cells' : cells'[i].expired_time = 0
  <2>1. CASE inspect(now) = "expired"
    <3>1. Becomes(expire(lease, cells)) BY <1>1, <2>1, Zenon DEF Inspected
    <3>2. lease.kind # "suspect" BY <2>1, Zenon DEF inspect
    <3>3. asked = 0 BY <1>1, <3>2, Zenon DEF LeaseRight, InOffice
    <3> QED BY <3>1, <3>3, ExpireIs, Zenon
  <2>2. CASE inspect(now) # "expired" BY <1>1, <2>2, Zenon DEF Inspected, Becomes
  <2> QED BY <2>1, <2>2, Zenon
<1>b. /\ reads' \in Seq(Nat) /\ Len(reads') \in Nat /\ Len(reads) <= Len(reads')
      /\ \A i \in DOMAIN reads' : \/ i \in DOMAIN reads /\ reads'[i] = reads[i]
                                  \/ i = Len(reads) + 1 /\ reads'[i] = now
  <2>1. reads \in Seq(Nat) /\ now \in Nat BY Times, Zenon DEF PeerType
  <2>2. CASE reads' = reads BY <2>1, <2>2
  <2>3. CASE reads' = Append(reads, now)
    <3>1. /\ reads' \in Seq(Nat) /\ Len(reads') = Len(reads) + 1
          /\ \A i \in DOMAIN reads' : (i \in DOMAIN reads /\ reads'[i] = reads[i]) \/ (i = Len(reads) + 1 /\ reads'[i] = now)
      BY <2>1, <2>3, Appended
    <3>2. Len(reads) \in Nat BY <2>1
    <3> QED BY <3>1, <3>2
  <2> QED BY <1>1, <2>2, <2>3, Zenon
<1>c. /\ props' \in Seq(PropType) /\ Len(props') \in Nat /\ Len(props) <= Len(props')
      /\ PropsRight' /\ current' \in 0 .. now
  <2>1. props \in Seq(PropType) /\ current \in 0 .. now /\ Len(props) \in Nat BY PropTimes, ZenonT(40) DEF PeerType
  <2>2. CASE props' = props /\ current' = current BY <1>2, <2>1, <2>2 DEF PropsRight
  <2>3. CASE PushProposal
    <3>1. /\ current' = (IF current = 0 THEN now ELSE current)
          /\ props' = Append(props, [term |-> term, time |-> current', at |-> now])
      BY <2>3, Zenon DEF PushProposal
    <3>2. current' \in Nat /\ current' <= now BY <2>1, <3>1, Times
    <3>3. props' \in Seq(PropType) /\ Len(props') = Len(props) + 1 /\ PropsRight' BY <1>2, <3>1, <3>2, PropAdded, Zenon
    <3> QED BY <2>1, <3>2, <3>3, Times
  <2> QED BY <1>1, <2>2, <2>3, Zenon
<1>3. RaftType' BY <1>2, Zenon DEF RaftType
<1>4. PeerType'
  <2>1. acked \in 0 .. Len(props') /\ readAcked \in 0 .. Len(reads') BY <1>b, <1>c, PropTimes, ReadTimes
  <2> QED BY <1>2, <1>b, <1>c, <2>1, Zenon DEF PeerType
<1>5. SharedType'
  <2>1. Len(cells') = Len(cells) /\ lease' \in LeaseType /\ cells' \in Seq(CellType) /\ lease'.remote <= Len(cells)
    <3>1. lease \in LeaseType /\ cells \in Seq(CellType) /\ lease.remote <= Len(cells) /\ Len(cells) \in Nat
      BY DEF SharedType
    <3> QED BY <1>a, <3>1
  <2> QED BY <1>2, <2>1, Zenon DEF SharedType
<1>6. ThreadType' BY <1>2, Zenon DEF ThreadType
<1>7. RaftRight' BY <1>1, <1>2, Zenon DEF RaftRight
<1>8. ReadsRight'
  <2>1. ASSUME NEW i \in DOMAIN reads' PROVE reads'[i] \in Nat /\ reads'[i] <= now
    <3>1. CASE i \in DOMAIN reads /\ reads'[i] = reads[i] BY <3>1, ReadTimes, Zenon DEF ReadsRight
    <3>2. CASE reads'[i] = now BY <3>2, Times
    <3> QED BY <1>b, <3>1, <3>2, Zenon
  <2>2. ASSUME NEW i \in DOMAIN reads', NEW j \in DOMAIN reads', i <= j PROVE reads'[i] <= reads'[j]
    <3>1. CASE j \in DOMAIN reads
      <4>1. i \in DOMAIN reads BY <1>b, <2>2, <3>1, ReadTimes
      <4>2. reads'[i] = reads[i] /\ reads'[j] = reads[j] BY <1>b, <3>1, <4>1, ReadTimes
      <4> QED BY <2>2, <3>1, <4>1, <4>2, Zenon DEF ReadsRight
    <3>2. CASE j \notin DOMAIN reads BY <1>b, <2>1, <3>2, Zenon
    <3> QED BY <3>1, <3>2, Zenon
  <2>3. ASSUME NEW i \in 1 .. readAcked PROVE reads'[i] <= contact
    <3>1. i \in DOMAIN reads /\ i \in DOMAIN reads' BY <1>b, ReadTimes
    <3>2. reads'[i] = reads[i] BY <1>b, <3>1, ReadTimes
    <3> QED BY <3>2, Zenon DEF ReadsRight
  <2> QED BY <1>1, <1>2, <2>1, <2>2, <2>3, Zenon DEF ReadsRight, InOffice
<1>9. LeaseRight'
  <2>1. CASE lease' = lease BY <1>1, <1>2, <2>1, Terms DEF LeaseRight, InOffice
  <2>2. CASE asked = 0 /\ lease'.kind = "none" /\ lease'.remote = 0 BY <1>2, <2>2, Zenon DEF LeaseRight
  <2> QED BY <1>a, <2>1, <2>2, Zenon
<1>10. CellsRight' BY <1>2, <1>a, Zenon DEF CellsRight
<1>11. CopiesRight' BY <1>2, Zenon DEF CopiesRight, CopyRight, InOffice, Quiet
<1>12. ThreadRight' BY <1>2, Zenon DEF ThreadRight, MayReadLocal
<1> QED BY <1>2, <1>3, <1>4, <1>5, <1>6, <1>7, <1>8, <1>9, <1>10, <1>11, <1>12, <1>c, IInvNext, Zenon

\* What is left of a sequence after its first n elements are dropped.
LEMMA Dropped ==
  ASSUME NEW S, NEW q \in Seq(S), NEW n \in DOMAIN q
  PROVE  \A i \in 1 .. Len(q) - n : SubSeq(q, n + 1, Len(q))[i] = q[i + n]
<1>1. n \in Nat /\ n >= 1 /\ n <= Len(q) /\ Len(q) \in Nat OBVIOUS
<1> QED BY <1>1

\* The proposals and the read index requests after the first n of them are dropped.
LEMMA PropsDropped ==
  ASSUME PeerType, NEW n \in DOMAIN props, props' = SubSeq(props, n + 1, Len(props))
  PROVE  /\ props' \in Seq(PropType) /\ Len(props') = Len(props) - n /\ DOMAIN props' = 1 .. Len(props) - n
         /\ \A i \in 1 .. Len(props) - n : i + n \in DOMAIN props /\ props'[i] = props[i + n]
<1>1. props \in Seq(PropType) BY Zenon DEF PeerType
<1>2. n \in Nat /\ n >= 1 /\ n <= Len(props) /\ Len(props) \in Nat BY <1>1
<1>3. Len(props') = Len(props) - n BY <1>1, <1>2
<1>4. \A i \in 1 .. Len(props) - n : props'[i] = props[i + n] BY <1>1, Dropped, Zenon
<1>5. \A i \in 1 .. Len(props) - n : i + n \in DOMAIN props BY <1>1, <1>2
<1>6. props' \in Seq(PropType) BY <1>1, <1>2
<1>7. DOMAIN props' = 1 .. Len(props) - n BY <1>3, <1>6
<1> QED BY <1>3, <1>4, <1>5, <1>6, <1>7, Zenon

LEMMA ReadsDropped ==
  ASSUME PeerType, NEW n \in DOMAIN reads, reads' = SubSeq(reads, n + 1, Len(reads))
  PROVE  /\ reads' \in Seq(Nat) /\ Len(reads') = Len(reads) - n /\ DOMAIN reads' = 1 .. Len(reads) - n
         /\ \A i \in 1 .. Len(reads) - n : i + n \in DOMAIN reads /\ reads'[i] = reads[i + n]
<1>1. reads \in Seq(Nat) BY Zenon DEF PeerType
<1>2. n \in Nat /\ n >= 1 /\ n <= Len(reads) /\ Len(reads) \in Nat BY <1>1
<1>3. Len(reads') = Len(reads) - n BY SMTT(30), <1>1, <1>2
<1>4. \A i \in 1 .. Len(reads) - n : reads'[i] = reads[i + n] BY <1>1, Dropped, Zenon
<1>5. \A i \in 1 .. Len(reads) - n : i + n \in DOMAIN reads BY <1>1, <1>2
<1>6. reads' \in Seq(Nat) BY SMTT(30), <1>1, <1>2
<1>7. DOMAIN reads' = 1 .. Len(reads) - n BY <1>3, <1>6
<1> QED BY <1>3, <1>4, <1>5, <1>6, <1>7, Zenon

\* A renewal of a leader's lease leaves its readers right.
LEMMA RenewKeeps ==
  ASSUME IInv, role = "leader", NEW t \in Nat, RenewLease(t, meta),
         UNCHANGED <<now, role, term, changed, contact, asked, foreign, usurped, appliedTerm, cache, validSince>>
  PROVE  SharedType' /\ CellsRight' /\ CopiesRight' /\ panic' = FALSE
<1> TypeOK /\ CellsRight /\ CopiesRight /\ RaftType /\ PeerType /\ SharedType /\ ThreadType
  BY Zenon DEF IInv, TypeOK
<1>1. /\ lease' \in LeaseType /\ lease'.remote # 0
      /\ cells' \in Seq(CellType) /\ Len(cells') >= Len(cells) /\ lease'.remote <= Len(cells')
      /\ cells'[lease'.remote].term = term
      /\ \A i \in DOMAIN cells' : cells'[i].expired_time # 0 =>
           /\ i = lease'.remote /\ lease'.kind = "valid"
           /\ u64_to_timespec(cells'[i].expired_time) <= lease'.ts
      /\ meta' = meta \/ meta' = [meta EXCEPT !.lease = lease'.remote, !.last_valid_ts = now]
      /\ panic' = FALSE
  BY RenewLeaseIs, Zenon
<1>2. /\ meta \in ReaderType /\ meta.lease <= Len(cells) /\ meta.lease \in Nat
      /\ cache \in ReaderType /\ cache.lease <= Len(cells) /\ cache.lease \in Nat
      /\ Len(cells) \in Nat /\ Len(cells') \in Nat /\ lease'.remote \in Nat /\ now \in Nat
  <2>1. Len(cells') \in Nat /\ lease'.remote \in Nat BY <1>1 DEF LeaseType
  <2> QED BY <2>1, CopyLeases, Times, Zenon
<1>3. /\ meta' \in ReaderType /\ meta'.lease <= Len(cells')
      /\ meta'.term = meta.term /\ meta'.applied_index_term = meta.applied_index_term
      /\ meta'.last_valid_ts \in {meta.last_valid_ts, now}
  <2>1. CASE meta' = meta BY <1>1, <1>2, <2>1
  <2>2. CASE meta' = [meta EXCEPT !.lease = lease'.remote, !.last_valid_ts = now]
    <3>1. /\ meta' \in ReaderType /\ meta'.lease = lease'.remote
          /\ meta'.term = meta.term /\ meta'.applied_index_term = meta.applied_index_term
          /\ meta'.last_valid_ts = now
      BY <1>2, <2>2, Zenon DEF ReaderType
    <3> QED BY <1>1, <3>1, Zenon
  <2> QED BY <1>1, <2>1, <2>2, Zenon
<1>4. meta'.last_valid_ts \in Nat /\ meta.last_valid_ts <= meta'.last_valid_ts /\ meta'.last_valid_ts <= now
  BY <1>2, <1>3, CopyTimes
<1>5. SharedType'
  <2>1. cache.lease <= Len(cells') BY <1>1, <1>2
  <2> QED BY <1>1, <1>3, <1>4, <2>1, Zenon DEF SharedType
<1>6. CellsRight' BY <1>1, Zenon DEF CellsRight
<1>7. CopiesRight'
  <2>1. CopyRight(cache)' BY Zenon DEF CopiesRight, CopyRight, InOffice, Quiet
  <2>2. Quiet(meta.last_valid_ts) => Quiet(meta.last_valid_ts)' BY <1>4, Times, CopyTimes DEF Quiet
  <2>3. meta.last_valid_ts >= validSince => meta'.last_valid_ts >= validSince BY <1>4, CopyTimes, Terms
  <2>4. CopyRight(meta)' BY <1>3, <2>2, <2>3, Zenon DEF CopiesRight, CopyRight, InOffice
  <2> QED BY <1>3, <2>1, <2>4, Zenon DEF CopiesRight, InOffice
<1> QED BY <1>1, <1>5, <1>6, <1>7, Zenon

\* The lease is renewed with times from before the entries that are committed were sent.
LEMMA RenewTimesAre ==
  ASSUME TypeOK, PropsRight, NEW n \in DOMAIN props, NEW t \in RenewTimes(n)
  PROVE  t \in Nat /\ t <= props[n].at
<1> DEFINE own == {i \in 1 .. n : props[i].time # 0}
<1>1. PICK i \in own : t \in find_propose_time(i) BY Zenon DEF RenewTimes
<1>2. PICK j \in 1 .. i : t = props[j].time BY <1>1, Zenon DEF find_propose_time
<1>3. i \in 1 .. n /\ n \in Nat /\ n <= Len(props) BY <1>1, PropTimes
<1>4. j \in DOMAIN props /\ j <= n BY <1>2, <1>3, PropTimes
<1>5. props[j].time <= props[j].at /\ props[j].at <= props[n].at BY <1>4, Zenon DEF PropsRight
<1> QED BY SMTT(30), <1>2, <1>4, <1>5, PropTimes

\* Committed entries keep the invariant: a quorum had the last of them after it was sent, and that
\* is no earlier than any time the lease is renewed with.
LEMMA CommitKeeps ==
  ASSUME IInv, NEW n \in DOMAIN props, Commit(n)
  PROVE  IInv'
<1> TypeOK /\ ~panic /\ RaftRight /\ PropsRight /\ ReadsRight /\ LeaseRight
    /\ CellsRight /\ CopiesRight /\ ThreadRight /\ RaftType /\ PeerType /\ SharedType /\ ThreadType
  BY Zenon DEF IInv, TypeOK
<1>1. /\ role = "leader" /\ ~changed /\ n <= acked /\ props[n].term = term
      /\ commitTerm' = term /\ current' = now /\ acked' = acked - n
      /\ props' = SubSeq(props, n + 1, Len(props))
      /\ (\E t \in RenewTimes(n) : RenewLease(t, meta)) \/ UNCHANGED <<lease, cells, meta, panic>>
  BY Zenon DEF Commit
<1>2. UNCHANGED <<now, role, term, changed, contact, asked, foreign, usurped, appliedTerm, reads,
                  readAcked, cache, pc, ts, byId, snapAt, read_id, snap, validSince>>
  BY Zenon DEF Commit, reader
<1>a. n \in Nat /\ n >= 1 /\ n <= Len(props) /\ acked \in Nat /\ acked <= Len(props) /\ Len(props) \in Nat
  BY PropTimes
<1>b. /\ props' \in Seq(PropType) /\ Len(props') = Len(props) - n /\ DOMAIN props' = 1 .. Len(props) - n
      /\ \A i \in 1 .. Len(props) - n : i + n \in DOMAIN props /\ props'[i] = props[i + n]
  BY <1>1, PropsDropped, Zenon
<1>c. props[n].at \in Nat /\ props[n].at <= contact /\ (asked = 0 \/ props[n].at < asked)
  <2>1. n \in 1 .. acked BY <1>1, <1>a
  <2>2. props[n].at \in Nat BY PropTimes, Zenon
  <2> QED BY <1>1, <2>1, <2>2, Zenon DEF PropsRight
<1>d. SharedType' /\ CellsRight' /\ CopiesRight' /\ panic' = FALSE
  <2>1. CASE \E t \in RenewTimes(n) : RenewLease(t, meta)
    <3>1. PICK t \in RenewTimes(n) : RenewLease(t, meta) BY <2>1, Zenon
    <3>2. t \in Nat BY RenewTimesAre, Zenon
    <3> QED BY <1>1, <1>2, <3>1, <3>2, RenewKeeps, Zenon
  <2>2. CASE UNCHANGED <<lease, cells, meta, panic>>
    <3>1. SharedType' BY <1>2, <2>2, Zenon DEF SharedType
    <3>2. CellsRight' BY <1>2, <2>2, Zenon DEF CellsRight
    <3>3. CopiesRight' BY <1>2, <2>2, Zenon DEF CopiesRight, CopyRight, InOffice, Quiet
    <3>4. panic' = FALSE BY <2>2, Zenon DEF PeerType
    <3> QED BY <3>1, <3>2, <3>3, <3>4, Zenon
  <2> QED BY <1>1, <2>1, <2>2, Zenon
<1>3. RaftType' BY <1>2, Zenon DEF RaftType
<1>4. PeerType'
  <2>1. acked' \in 0 .. Len(props')
    <3>1. Len(props') = Len(props) - n BY <1>b, Zenon
    <3> QED BY SMTT(30), <1>1, <1>a, <3>1
  <2>2. commitTerm' \in 0 .. term /\ appliedTerm \in 0 .. commitTerm' /\ current' \in 0 .. now
    BY <1>1, Terms, Times
  <2> QED BY <1>2, <1>b, <1>d, <2>1, <2>2, Zenon DEF PeerType
<1>6. ThreadType' BY <1>2, Zenon DEF ThreadType
<1>7. RaftRight' BY <1>1, <1>2, Zenon DEF RaftRight
<1>8. PropsRight'
  <2>1. ASSUME NEW i \in DOMAIN props'
        PROVE  props'[i].time <= props'[i].at /\ props'[i].at <= now /\ props'[i].term <= term
    BY <1>b, Zenon DEF PropsRight
  <2>2. ASSUME NEW i \in DOMAIN props', NEW j \in DOMAIN props', i <= j PROVE props'[i].at <= props'[j].at
    <3>1. i + n \in DOMAIN props /\ j + n \in DOMAIN props /\ i + n <= j + n BY <1>a, <1>b, <2>2
    <3>2. props[i + n].at <= props[j + n].at BY <3>1, Zenon DEF PropsRight
    <3> QED BY <1>b, <3>2
  <2>3. ASSUME NEW i \in 1 .. acked', props'[i].term = term
        PROVE  props'[i].at <= contact /\ (asked = 0 \/ props'[i].at < asked)
    <3>1. i \in 1 .. Len(props) - n /\ i + n \in 1 .. acked BY <1>1, <1>a
    <3>2. props'[i] = props[i + n] BY <1>b, <3>1, Zenon
    <3> QED BY <2>3, <3>1, <3>2, Zenon DEF PropsRight
  <2> QED BY <1>2, <2>1, <2>2, <2>3, Zenon DEF PropsRight
<1>9. ReadsRight' BY <1>1, <1>2, Zenon DEF ReadsRight, InOffice
<1>10. LeaseRight'
  <2>1. InOffice' BY <1>1, <1>2, Zenon DEF InOffice
  <2>2. ASSUME lease.kind = "valid" PROVE lease.ts <= contact + ElectionTimeout /\ lease.ts <= now + max_lease
    <3>1. lease.ts <= now + max_lease BY <2>2, Zenon DEF LeaseRight
    <3>2. CASE commitTerm = term BY <2>2, <3>1, <3>2, Zenon DEF LeaseRight
    <3>3. CASE commitTerm < term
      <4>1. lease.ts <= props[n].at + max_lease BY <1>1, <2>2, <3>3, Zenon DEF LeaseRight
      <4> QED BY <1>c, <3>1, <4>1, LeaseTimes, Times, Lengths
    <3> QED BY <3>2, <3>3, Terms
  <2>3. asked # 0 => lease.kind = "suspect" /\ lease.ts = asked + max_lease
    BY <1>1, Zenon DEF LeaseRight, InOffice
  <2>4. /\ lease'.kind = "valid" => lease'.ts <= contact + ElectionTimeout /\ lease'.ts <= now + max_lease
        /\ asked # 0 => lease'.kind = "suspect" /\ lease'.ts = asked + max_lease
    <3>1. CASE lease'.kind = lease.kind /\ lease'.ts = lease.ts BY <2>2, <2>3, <3>1, Zenon
    <3>2. CASE ~(lease'.kind = lease.kind /\ lease'.ts = lease.ts)
      <4>1. PICK t \in RenewTimes(n) : RenewLease(t, meta) BY <1>1, <3>2, Zenon
      <4>2. t \in Nat /\ t <= props[n].at BY RenewTimesAre, Zenon
      <4>3. /\ lease.kind = "none" \/ lease.ts <= t + max_lease
            /\ lease'.kind = "valid" /\ lease'.ts = t + max_lease
        BY <1>1, <3>2, <4>1, <4>2, RenewLeaseIs, Zenon
      <4>4. asked = 0
        <5>1. SUFFICES ASSUME asked # 0 PROVE FALSE BY Zenon
        <5>2. asked + max_lease <= t + max_lease BY <2>3, <4>3, <5>1, Zenon
        <5> QED BY <1>c, <4>2, <5>1, <5>2, Times, Lengths
      <4>5. lease'.ts <= contact + ElectionTimeout /\ lease'.ts <= now + max_lease
        BY SMTT(30), <1>c, <4>2, <4>3, Times, Lengths
      <4> QED BY <4>4, <4>5, Zenon
    <3> QED BY <3>1, <3>2, Zenon
  <2>5. ~(commitTerm' < term') BY <1>1, <1>2, <1>c, Terms
  <2> QED BY <1>2, <2>1, <2>4, <2>5, Zenon DEF LeaseRight
<1>13. ThreadRight' BY <1>2, Zenon DEF ThreadRight, MayReadLocal
<1> QED BY <1>2, <1>3, <1>4, <1>6, <1>7, <1>8, <1>9, <1>10, <1>13, <1>d, IInvNext, Zenon

\* Answered read index requests keep the invariant: only a lease that is not suspect is renewed.
LEMMA ApplyReadsKeeps ==
  ASSUME IInv, NEW n \in DOMAIN reads, ApplyReads(n)
  PROVE  IInv'
<1> TypeOK /\ ~panic /\ RaftRight /\ PropsRight /\ ReadsRight /\ LeaseRight
    /\ CellsRight /\ CopiesRight /\ ThreadRight /\ RaftType /\ PeerType /\ SharedType /\ ThreadType
  BY Zenon DEF IInv, TypeOK
<1>1. /\ role = "leader" /\ ~changed /\ n <= readAcked
      /\ \/ reads' = SubSeq(reads, n + 1, Len(reads)) /\ readAcked' = readAcked - n
         \/ reads' = reads /\ readAcked' = readAcked
      /\ (RenewsByRead /\ RenewLease(reads[n], meta)) \/ UNCHANGED <<lease, cells, meta, panic>>
  BY Zenon DEF ApplyReads
<1>2. UNCHANGED <<now, role, term, changed, contact, asked, foreign, usurped, acked, props,
                  commitTerm, appliedTerm, current, validSince, cache, pc, ts, byId, snapAt,
                  read_id, snap>>
  BY Zenon DEF ApplyReads, reader
<1>a. /\ n \in Nat /\ n >= 1 /\ n <= Len(reads) /\ readAcked \in Nat /\ readAcked <= Len(reads)
      /\ Len(reads) \in Nat /\ reads \in Seq(Nat) /\ reads # <<>>
  <2>1. reads \in Seq(Nat) BY Zenon DEF PeerType
  <2> QED BY <2>1, ReadTimes
<1>b. /\ reads' \in Seq(Nat) /\ readAcked' \in 0 .. Len(reads')
      /\ \E d \in {0, n} : /\ readAcked' = readAcked - d /\ DOMAIN reads' = 1 .. Len(reads) - d
                           /\ \A i \in DOMAIN reads' : i + d \in DOMAIN reads /\ reads'[i] = reads[i + d]
  <2>1. CASE reads' = SubSeq(reads, n + 1, Len(reads)) /\ readAcked' = readAcked - n
    <3>1. /\ reads' \in Seq(Nat) /\ Len(reads') = Len(reads) - n /\ DOMAIN reads' = 1 .. Len(reads) - n
          /\ \A i \in 1 .. Len(reads) - n : i + n \in DOMAIN reads /\ reads'[i] = reads[i + n]
      BY <2>1, ReadsDropped, Zenon
    <3>2. readAcked' \in 0 .. Len(reads')
      <4>1. Len(reads') = Len(reads) - n /\ readAcked' = readAcked - n /\ n <= readAcked BY <1>1, <2>1, <3>1, Zenon
      <4> QED BY SMTT(30), <1>a, <4>1
    <3> QED BY <2>1, <3>1, <3>2, Zenon
  <2>2. CASE reads' = reads /\ readAcked' = readAcked
    <3>1. \A i \in DOMAIN reads : i + 0 = i BY <1>a
    <3>2. readAcked - 0 = readAcked /\ Len(reads) - 0 = Len(reads) BY <1>a
    <3> QED BY <1>a, <2>2, <3>1, <3>2
  <2> QED BY <1>1, <2>1, <2>2, Zenon
<1>c. reads[n] \in Nat /\ reads[n] <= contact /\ commitTerm = term
  <2>1. n \in 1 .. readAcked BY <1>1, <1>a
  <2> QED BY <1>a, <2>1 DEF ReadsRight
<1>d. SharedType' /\ CellsRight' /\ CopiesRight' /\ panic' = FALSE
  <2>1. CASE RenewLease(reads[n], meta) BY <1>1, <1>2, <1>c, <2>1, RenewKeeps, Zenon
  <2>2. CASE UNCHANGED <<lease, cells, meta, panic>>
    <3>1. SharedType' BY <1>2, <2>2, Zenon DEF SharedType
    <3>2. CellsRight' BY <1>2, <2>2, Zenon DEF CellsRight
    <3>3. CopiesRight' BY <1>2, <2>2, Zenon DEF CopiesRight, CopyRight, InOffice, Quiet
    <3>4. panic' = FALSE BY <2>2, Zenon DEF PeerType
    <3> QED BY <3>1, <3>2, <3>3, <3>4, Zenon
  <2> QED BY <1>1, <2>1, <2>2, Zenon
<1>3. RaftType' BY <1>2, Zenon DEF RaftType
<1>4. PeerType' BY <1>2, <1>b, <1>d, Zenon DEF PeerType
<1>6. ThreadType' BY <1>2, Zenon DEF ThreadType
<1>7. RaftRight' BY <1>1, <1>2, Zenon DEF RaftRight
<1>8. PropsRight' BY <1>2, Zenon DEF PropsRight
<1>9. ReadsRight'
  <2>1. PICK d \in {0, n} : /\ readAcked' = readAcked - d /\ DOMAIN reads' = 1 .. Len(reads) - d
                            /\ \A i \in DOMAIN reads' : i + d \in DOMAIN reads /\ reads'[i] = reads[i + d]
    BY <1>b, Zenon
  <2>2. d \in Nat BY <1>a
  <2>3. \A i \in DOMAIN reads' : reads'[i] <= now BY <2>1, Zenon DEF ReadsRight
  <2>4. ASSUME NEW i \in DOMAIN reads', NEW j \in DOMAIN reads', i <= j PROVE reads'[i] <= reads'[j]
    <3>1. i + d \in DOMAIN reads /\ j + d \in DOMAIN reads BY <2>1, Zenon
    <3>2. i + d <= j + d BY <2>1, <2>2, <2>4
    <3>3. reads[i + d] <= reads[j + d] BY <3>1, <3>2, Zenon DEF ReadsRight
    <3> QED BY <2>1, <3>3, Zenon
  <2>5. ASSUME NEW i \in 1 .. readAcked' PROVE reads'[i] <= contact
    <3>1. i + d \in 1 .. readAcked /\ i \in DOMAIN reads' BY <1>a, <2>1, <2>2
    <3>2. reads[i + d] <= contact BY <3>1, Zenon DEF ReadsRight
    <3> QED BY <2>1, <3>1, <3>2, Zenon
  <2>6. InOffice' BY <1>1, <1>2, Zenon DEF InOffice
  <2> QED BY <1>2, <1>c, <2>3, <2>4, <2>5, <2>6, Zenon DEF ReadsRight
<1>10. LeaseRight'
  <2>1. InOffice' BY <1>1, <1>2, Zenon DEF InOffice
  <2>2. /\ lease.kind = "valid" => lease.ts <= contact + ElectionTimeout /\ lease.ts <= now + max_lease
        /\ asked # 0 => lease.kind = "suspect" /\ lease.ts = asked + max_lease
    BY <1>1, <1>c, Zenon DEF LeaseRight, InOffice
  <2>3. /\ lease'.kind = "valid" => lease'.ts <= contact + ElectionTimeout /\ lease'.ts <= now + max_lease
        /\ asked # 0 => lease'.kind = "suspect" /\ lease'.ts = asked + max_lease
    <3>1. CASE lease'.kind = lease.kind /\ lease'.ts = lease.ts BY <2>2, <3>1, Zenon
    <3>2. CASE ~(lease'.kind = lease.kind /\ lease'.ts = lease.ts)
      <4>1. RenewsByRead /\ RenewLease(reads[n], meta) BY <1>1, <3>2, Zenon
      <4>2. asked = 0 BY <2>2, <4>1, Zenon DEF RenewsByRead, inspect
      <4>3. lease'.kind = "valid" /\ lease'.ts = reads[n] + max_lease
        BY <1>1, <1>c, <3>2, <4>1, RenewLeaseIs, Zenon
      <4>4. lease'.ts <= contact + ElectionTimeout /\ lease'.ts <= now + max_lease
        BY <1>c, <4>3, Times, Lengths
      <4> QED BY <4>2, <4>4, Zenon
    <3> QED BY <3>1, <3>2, Zenon
  <2>5. ~(commitTerm' < term') BY <1>1, <1>2, <1>c, Terms
  <2> QED BY <1>2, <2>1, <2>3, <2>5, Zenon DEF LeaseRight
<1>13. ThreadRight' BY <1>2, Zenon DEF ThreadRight, MayReadLocal
<1> QED BY <1>2, <1>3, <1>4, <1>6, <1>7, <1>8, <1>9, <1>10, <1>13, <1>d, IInvNext, Zenon

\* The Ready of a new role keeps the invariant: a leader's first lease is taken before any of its
\* entries is committed, and its readers are told the term at the same time.
LEMMA OnRoleChangedKeeps ==
  ASSUME IInv, OnRoleChanged
  PROVE  IInv'
<1> TypeOK /\ ~panic /\ RaftRight /\ PropsRight /\ ReadsRight /\ LeaseRight
    /\ CellsRight /\ CopiesRight /\ ThreadRight /\ RaftType /\ PeerType /\ SharedType /\ ThreadType
  BY Zenon DEF IInv, TypeOK
<1>1. changed /\ changed' = FALSE /\ reads' = <<>> /\ readAcked' = 0 BY Zenon DEF OnRoleChanged
<1>2. UNCHANGED <<now, role, term, contact, asked, foreign, usurped, acked, commitTerm,
                  appliedTerm, current, validSince, cache, pc, ts, byId, snapAt, read_id, snap>>
  BY Zenon DEF OnRoleChanged, reader
<1>3. RaftType' BY <1>1, <1>2, Zenon DEF RaftType
<1>4. ThreadType' BY <1>2, Zenon DEF ThreadType
<1>5. ReadsRight'
  <2>1. DOMAIN reads' = {} /\ 1 .. readAcked' = {} BY <1>1
  <2> QED BY <1>1, <2>1, Zenon DEF ReadsRight
<1>6. ThreadRight' BY <1>2, Zenon DEF ThreadRight, MayReadLocal
<1>7. reads' \in Seq(Nat) /\ readAcked' \in 0 .. Len(reads') BY <1>1
<1>8. CASE role = "leader"
  <2> DEFINE r0 == [meta EXCEPT !.term = term, !.last_valid_ts = now]
  <2>1. RenewLease(now, r0) /\ props' = Append(props, [term |-> term, time |-> 0, at |-> now])
    BY <1>8, Zenon DEF OnRoleChanged
  <2>2. /\ Quiet(now) /\ asked = 0 /\ meta.term < term /\ commitTerm < term
        /\ \A i \in DOMAIN props : props[i].term < term
    BY <1>1, <1>8, Zenon DEF RaftRight
  <2>3. lease.kind = "none" BY <1>1, <1>8, Zenon DEF LeaseRight, InOffice
  <2>4. meta \in ReaderType /\ now \in Nat /\ term \in Nat BY Times, Terms, Zenon DEF SharedType
  <2>5. /\ r0 \in ReaderType /\ r0.term = term /\ r0.last_valid_ts = now
        /\ r0.applied_index_term = meta.applied_index_term /\ r0.lease = meta.lease
    BY <2>4, Zenon DEF ReaderType
  <2> HIDE DEF r0
  <2>6. /\ lease' \in LeaseType /\ lease'.remote # 0
        /\ lease'.kind = "valid" /\ lease'.ts = now + max_lease
        /\ cells' \in Seq(CellType) /\ Len(cells') >= Len(cells) /\ lease'.remote <= Len(cells')
        /\ cells'[lease'.remote].term = term
        /\ \A i \in DOMAIN cells' : cells'[i].expired_time # 0 =>
             /\ i = lease'.remote /\ lease'.kind = "valid"
             /\ u64_to_timespec(cells'[i].expired_time) <= lease'.ts
        /\ meta' = r0 \/ meta' = [r0 EXCEPT !.lease = lease'.remote, !.last_valid_ts = now]
        /\ panic' = FALSE
    BY <1>8, <2>1, <2>3, <2>4, RenewLeaseIs, Zenon
  <2>7. /\ props' \in Seq(PropType) /\ Len(props') = Len(props) + 1 /\ PropsRight'
        /\ \A i \in DOMAIN props' : \/ i \in DOMAIN props /\ props'[i] = props[i]
                                    \/ i = Len(props) + 1 /\ props'[i].term = term /\ props'[i].at = now
    <3>1. 0 \in Nat /\ 0 <= now BY <2>4
    <3> QED BY <1>2, <2>1, <3>1, PropAdded, Zenon
  <2>8. Len(cells) \in Nat /\ Len(cells') \in Nat /\ meta.lease <= Len(cells) /\ meta.lease \in Nat
        /\ cache.lease <= Len(cells) /\ cache.lease \in Nat /\ lease'.remote \in Nat
    <3>1. Len(cells') \in Nat /\ lease'.remote \in Nat BY <2>6 DEF LeaseType
    <3> QED BY <3>1, CopyLeases, Zenon
  <2>9. /\ meta' \in ReaderType /\ meta'.lease <= Len(cells') /\ meta'.term = term
        /\ meta'.applied_index_term = meta.applied_index_term /\ meta'.last_valid_ts = now
    <3>1. CASE meta' = r0 BY <2>5, <2>6, <2>8, <3>1
    <3>2. CASE meta' = [r0 EXCEPT !.lease = lease'.remote, !.last_valid_ts = now]
      <4>1. /\ meta' \in ReaderType /\ meta'.lease = lease'.remote /\ meta'.term = term
            /\ meta'.applied_index_term = meta.applied_index_term /\ meta'.last_valid_ts = now
        BY <2>4, <2>5, <2>8, <3>2, Zenon DEF ReaderType
      <4> QED BY <2>6, <4>1, Zenon
    <3> QED BY <2>6, <3>1, <3>2, Zenon
  <2>10. PeerType'
    <3>1. acked \in 0 .. Len(props') BY <2>7, PropTimes
    <3> QED BY <1>2, <1>7, <2>6, <2>7, <3>1, Zenon DEF PeerType
  <2>11. SharedType'
    <3>1. cache.lease <= Len(cells') /\ meta'.last_valid_ts <= now BY <2>4, <2>6, <2>8, <2>9
    <3> QED BY <1>2, <2>6, <2>9, <3>1, Zenon DEF SharedType
  <2>12. RaftRight' BY <1>1, <1>2, <1>8, Zenon DEF RaftRight
  <2>13. LeaseRight'
    <3>1. InOffice' BY <1>1, <1>2, <1>8, Zenon DEF InOffice
    <3>2. ASSUME NEW i \in DOMAIN props', props'[i].term = term PROVE props'[i].at = now
      BY <2>2, <2>4, <2>7, <3>2, PropTimes
    <3>3. commitTerm # term /\ now + max_lease <= now + max_lease BY <2>2, <2>4, Terms, Lengths
    <3> QED BY <1>2, <2>2, <2>6, <3>1, <3>2, <3>3, Zenon DEF LeaseRight
  <2>14. CellsRight' BY <1>2, <2>6, Zenon DEF CellsRight
  <2>15. CopiesRight'
    <3>1. cache.term < term BY <2>2, Terms, CopyTimes DEF CopiesRight
    <3>2. CopyRight(cache)'
      <4>1. cache.term # term BY SMTT(30), <3>1, Terms, CopyTimes
      <4> QED BY <1>2, <4>1, Zenon DEF CopiesRight, CopyRight
    <3>3. meta.applied_index_term # term BY <2>2, Terms, CopyTimes DEF CopiesRight, CopyRight
    <3>4. Quiet(now)' BY <1>2, <2>2, ZenonT(40) DEF Quiet
    <3>5. CopyRight(meta)'
      <4>1. Quiet(meta.last_valid_ts)' BY <1>2, <2>9, <3>4, Zenon DEF Quiet
      <4> QED BY <1>2, <2>9, <3>3, <4>1, Terms DEF CopiesRight, CopyRight
    <3> QED BY <1>2, <2>9, <3>1, <3>2, <3>5, Terms, CopyTimes DEF CopiesRight
  <2> QED BY <1>2, <1>3, <1>4, <1>5, <1>6, <2>6, <2>7, <2>10, <2>11, <2>12, <2>13, <2>14, <2>15, IInvNext, Zenon
<1>9. CASE role = "follower"
  <2>1. Becomes(expire(lease, cells)) /\ UNCHANGED <<meta, props, panic>> BY <1>9, Zenon DEF OnRoleChanged
  <2>2. /\ lease' \in LeaseType /\ lease'.kind = "none" /\ lease'.remote = 0
        /\ cells' \in Seq(CellType) /\ Len(cells') = Len(cells)
        /\ \A i \in DOMAIN cells' : cells'[i].expired_time = 0
    BY <2>1, ExpireIs, Zenon
  <2>3. PeerType' BY <1>2, <1>7, <2>1, Zenon DEF PeerType
  <2>4. SharedType'
    <3>1. Len(cells') \in Nat BY <2>2
    <3>2. lease'.remote <= Len(cells') BY ONLY <2>2, <3>1
    <3> QED BY <1>2, <2>1, <2>2, <3>2, ZenonT(40) DEF SharedType
  <2>5. RaftRight' BY <1>1, <1>2, <1>9, Zenon DEF RaftRight
  <2>6. PropsRight' BY <1>2, <2>1, Zenon DEF PropsRight
  <2>7. ~InOffice' BY <1>1, <1>2, <1>9, Zenon DEF InOffice
  <2>8. LeaseRight' BY <2>2, <2>7, Zenon DEF LeaseRight
  <2>9. CellsRight' BY <2>2, Zenon DEF CellsRight
  <2>10. CopiesRight' BY <1>2, <2>1, <2>7, Zenon DEF CopiesRight, CopyRight
  <2> QED BY <1>2, <1>3, <1>4, <1>5, <1>6, <2>1, <2>3, <2>4, <2>5, <2>6, <2>8, <2>9, <2>10, IInvNext, Zenon
<1> QED BY <1>8, <1>9, Zenon DEF RaftType

\* The end of an apply round keeps the invariant.
LEMMA PostApplyKeeps ==
  ASSUME IInv, PostApply
  PROVE  IInv'
<1> TypeOK /\ ~panic /\ RaftRight /\ PropsRight /\ ReadsRight /\ LeaseRight
    /\ CellsRight /\ CopiesRight /\ ThreadRight /\ RaftType /\ PeerType /\ SharedType /\ ThreadType
  BY Zenon DEF IInv, TypeOK
<1>1. /\ appliedTerm # commitTerm /\ appliedTerm' = commitTerm /\ validSince' = now
      /\ meta' = IF role = "leader"
                 THEN [meta EXCEPT !.applied_index_term = commitTerm, !.last_valid_ts = now] ELSE meta
  BY Zenon DEF PostApply
<1>2. UNCHANGED <<now, role, term, changed, contact, asked, foreign, usurped, props, acked,
                  commitTerm, reads, readAcked, current, lease, cells, cache, pc, ts, byId,
                  snapAt, read_id, snap, panic>>
  BY Zenon DEF PostApply, raft, reader
<1>3. RaftType' BY <1>2, Zenon DEF RaftType
<1>4. PeerType' BY SMTT(30), <1>1, <1>2, Times, Terms DEF PeerType
<1>5. SharedType'
  <2>1. meta' \in ReaderType /\ meta'.lease = meta.lease /\ meta'.last_valid_ts <= now
    <3>1. meta \in ReaderType BY Zenon DEF SharedType
    <3>2. CASE role = "leader"
      <4>1. meta' = [meta EXCEPT !.applied_index_term = commitTerm, !.last_valid_ts = now] BY <1>1, <3>2, Zenon
      <4>2. commitTerm \in Nat /\ now \in Nat BY Times, Terms, Zenon
      <4>3. meta' \in ReaderType /\ meta'.lease = meta.lease /\ meta'.last_valid_ts = now
        BY <3>1, <4>1, <4>2, Zenon DEF ReaderType
      <4> QED BY <4>2, <4>3
    <3>3. CASE role # "leader" BY <1>1, <3>1, <3>3, CopyTimes, Zenon
    <3> QED BY <3>2, <3>3, Zenon
  <2> QED BY <1>2, <2>1, Zenon DEF SharedType
<1>6. ThreadType' BY <1>2, Zenon DEF ThreadType
<1>7. RaftRight'
  <2>1. meta'.term = meta.term BY <1>1, Zenon DEF SharedType, ReaderType
  <2> QED BY <1>2, <2>1, Zenon DEF RaftRight, Quiet
<1>8. PropsRight' BY <1>2, Zenon DEF PropsRight
<1>9. ReadsRight' BY <1>2, Zenon DEF ReadsRight, InOffice
<1>10. LeaseRight' BY <1>2, Zenon DEF LeaseRight, InOffice
<1>11. CellsRight' BY <1>2, Zenon DEF CellsRight
<1>12. CopiesRight'
  <2>1. cache.applied_index_term <= appliedTerm' /\ meta.applied_index_term <= appliedTerm'
    BY <1>1, Terms, CopyTimes DEF CopiesRight, CopyRight
  <2>2. \A c \in {meta, cache} : c.term <= term /\ ~(c.term = term /\ c.applied_index_term = term)
    BY <1>1, Terms, CopyTimes DEF CopiesRight, CopyRight
  <2>3. CopyRight(cache)' BY <1>2, <2>1, <2>2, Zenon DEF CopiesRight, CopyRight, InOffice, Quiet
  <2>4. CopyRight(meta)'
    <3>1. CASE role = "leader"
      <4>1. meta'.term = meta.term /\ meta'.applied_index_term = commitTerm /\ meta'.last_valid_ts = now
        BY <1>1, <3>1, Zenon DEF SharedType, ReaderType
      <4>2. ASSUME InOffice, meta.term = term PROVE Quiet(meta.last_valid_ts)'
        <5>1. Quiet(meta.last_valid_ts) BY <4>2, Zenon DEF CopiesRight, CopyRight
        <5> QED BY <1>2, <4>1, <5>1, CopyTimes, Times DEF Quiet
      <4> QED BY <1>1, <1>2, <2>2, <4>1, <4>2, Terms, Times DEF CopyRight, InOffice
    <3>2. CASE role # "leader"
      <4>1. meta' = meta BY <1>1, <3>2, Zenon
      <4> QED BY <1>2, <2>1, <2>2, <4>1, Zenon DEF CopiesRight, CopyRight, InOffice, Quiet
    <3> QED BY <3>1, <3>2, Zenon
  <2>5. meta'.term = meta.term BY <1>1, Zenon DEF SharedType, ReaderType
  <2> QED BY <1>2, <2>3, <2>4, <2>5, Zenon DEF CopiesRight, InOffice
<1>13. ThreadRight' BY <1>2, Zenon DEF ThreadRight, MayReadLocal
<1> QED BY <1>2, <1>3, <1>4, <1>5, <1>6, <1>7, <1>8, <1>9, <1>10, <1>11, <1>12, <1>13, IInvNext, Zenon

\* A step of the reader's thread leaves what is said of the peer and of the Raft group.
LEMMA PeerUntouched ==
  ASSUME IInv, UNCHANGED <<now, raft, peer>>
  PROVE  RaftType' /\ PeerType' /\ RaftRight' /\ PropsRight' /\ ReadsRight' /\ LeaseRight' /\ CellsRight' /\ CopyRight(meta)'
<1> TypeOK /\ ~panic /\ RaftRight /\ PropsRight /\ ReadsRight /\ LeaseRight
    /\ CellsRight /\ CopiesRight /\ ThreadRight /\ RaftType /\ PeerType /\ SharedType /\ ThreadType
  BY Zenon DEF IInv, TypeOK
<1>1. UNCHANGED <<now, role, term, changed, contact, asked, foreign, usurped, props, acked,
                  appliedTerm, commitTerm, reads, readAcked, current, lease, cells, meta,
                  validSince, panic>>
  BY Zenon DEF raft, peer
<1>2. RaftType' BY <1>1, Zenon DEF RaftType
<1>3. PeerType' BY <1>1, Zenon DEF PeerType
<1>4. RaftRight' BY <1>1, Zenon DEF RaftRight, Quiet
<1>5. PropsRight' BY <1>1, Zenon DEF PropsRight
<1>6. ReadsRight' BY <1>1, Zenon DEF ReadsRight, InOffice
<1>7. LeaseRight' BY <1>1, Zenon DEF LeaseRight, InOffice
<1>8. CellsRight' BY <1>1, Zenon DEF CellsRight
<1>9. CopyRight(meta)' BY <1>1, Zenon DEF CopiesRight, CopyRight, InOffice, Quiet
<1> QED BY <1>2, <1>3, <1>4, <1>5, <1>6, <1>7, <1>8, <1>9, Zenon

\* A new read id keeps the invariant.
LEMMA NewReadIdKeeps ==
  ASSUME IInv, NewReadId
  PROVE  IInv'
<1> TypeOK /\ ~panic /\ RaftRight /\ PropsRight /\ ReadsRight /\ LeaseRight
    /\ CellsRight /\ CopiesRight /\ ThreadRight /\ RaftType /\ PeerType /\ SharedType /\ ThreadType
  BY Zenon DEF IInv, TypeOK
<1>1. read_id' = now
  BY Zenon DEF NewReadId
<1>2. UNCHANGED <<now, role, term, changed, contact, asked, foreign, usurped, props, acked,
                  appliedTerm, commitTerm, reads, readAcked, current, lease, cells, meta, cache,
                  pc, ts, byId, snapAt, snap, validSince, panic>>
  BY Zenon DEF NewReadId, raft, peer
<1>3. RaftType' /\ PeerType' /\ RaftRight' /\ PropsRight' /\ ReadsRight' /\ LeaseRight' /\ CellsRight' /\ CopyRight(meta)'
  BY PeerUntouched, Zenon DEF NewReadId
<1>4. SharedType' BY <1>2, ZenonT(40) DEF SharedType
<1>5. ThreadType' BY <1>1, <1>2, Times DEF ThreadType
<1>6. CopiesRight' BY <1>2, Zenon DEF CopiesRight, CopyRight, InOffice, Quiet
<1>7. ThreadRight' BY <1>2, Zenon DEF ThreadRight, MayReadLocal
<1> QED BY <1>2, <1>3, <1>4, <1>5, <1>6, <1>7, IInvNext, Zenon

\* A read of another brane keeps the invariant.
LEMMA OtherBraneReadKeeps ==
  ASSUME IInv, OtherBraneRead
  PROVE  IInv'
<1> TypeOK /\ ~panic /\ RaftRight /\ PropsRight /\ ReadsRight /\ LeaseRight
    /\ CellsRight /\ CopiesRight /\ ThreadRight /\ RaftType /\ PeerType /\ SharedType /\ ThreadType
  BY Zenon DEF IInv, TypeOK
<1>1. snap' = [id |-> read_id, at |-> now]
  BY Zenon DEF OtherBraneRead
<1>2. UNCHANGED <<now, role, term, changed, contact, asked, foreign, usurped, props, acked,
                  appliedTerm, commitTerm, reads, readAcked, current, lease, cells, meta, cache,
                  pc, ts, byId, snapAt, read_id, validSince, panic>>
  BY Zenon DEF OtherBraneRead, raft, peer
<1>3. RaftType' /\ PeerType' /\ RaftRight' /\ PropsRight' /\ ReadsRight' /\ LeaseRight' /\ CellsRight' /\ CopyRight(meta)'
  BY PeerUntouched, ZenonT(40) DEF OtherBraneRead
<1>4. SharedType' BY <1>2, Zenon DEF SharedType
<1>5. ThreadType' BY <1>1, <1>2, Times DEF ThreadType
<1>6. CopiesRight' BY <1>2, Zenon DEF CopiesRight, CopyRight, InOffice, Quiet
<1>7. ThreadRight' BY <1>1, <1>2, Times, CopyTimes, ThreadTimes, Lengths, Zenon DEF ThreadRight, MayReadLocal
<1> QED BY <1>2, <1>3, <1>4, <1>5, <1>6, <1>7, IInvNext, Zenon

\* Finding the reader keeps the invariant.
LEMMA FindKeeps ==
  ASSUME IInv, Find
  PROVE  IInv'
<1> TypeOK /\ ~panic /\ RaftRight /\ PropsRight /\ ReadsRight /\ LeaseRight
    /\ CellsRight /\ CopiesRight /\ ThreadRight /\ RaftType /\ PeerType /\ SharedType /\ ThreadType
  BY Zenon DEF IInv, TypeOK
<1>1. /\ ts' = 0 /\ snapAt' = 0 /\ byId' = FALSE
      /\ \/ cache' \in {meta, cache} /\ MayReadLocal(cache') /\ pc' = "found"
         \/ cache' = NoReader /\ pc' = "idle"
  BY Zenon DEF Find
<1>2. UNCHANGED <<now, role, term, changed, contact, asked, foreign, usurped, props, acked,
                  appliedTerm, commitTerm, reads, readAcked, current, lease, cells, meta, read_id,
                  snap, validSince, panic>>
  BY Zenon DEF Find, raft, peer
<1>3. RaftType' /\ PeerType' /\ RaftRight' /\ PropsRight' /\ ReadsRight' /\ LeaseRight' /\ CellsRight' /\ CopyRight(meta)'
  BY PeerUntouched, Zenon DEF Find
<1>4. SharedType'
  <2>1. cache' \in ReaderType /\ cache'.lease <= Len(cells) /\ cache'.last_valid_ts <= now
    <3>1. CASE cache' \in {meta, cache} BY <3>1, Zenon DEF SharedType
    <3>2. CASE cache' = NoReader
      <4>1. Len(cells) \in Nat BY DEF SharedType
      <4> QED BY <3>2, <4>1, NoReaderIs, Times
    <3> QED BY <1>1, <3>1, <3>2, Zenon
  <2> QED BY <1>2, <2>1, Zenon DEF SharedType
<1>5. ThreadType'
  <2>1. ts' \in 0 .. now /\ snapAt' \in 0 .. now
    <3>1. 0 \in 0 .. now BY Times
    <3> QED BY <1>1, <3>1, Zenon
  <2>2. pc' \in {"idle", "found"} /\ byId' \in BOOLEAN BY <1>1, Zenon
  <2> QED BY <1>2, <2>1, <2>2, Zenon DEF ThreadType
<1>6. CopiesRight'
  <2>1. CASE cache' = cache BY <1>2, <2>1, ZenonT(40) DEF CopiesRight, CopyRight, InOffice, Quiet
  <2>2. CASE cache' = meta
    <3>1. CopyRight(cache)' BY <1>2, <1>3, <2>2, ZenonT(40) DEF CopyRight, InOffice, Quiet
    <3> QED BY <1>2, <1>3, <2>2, <3>1, CopyTimes DEF CopiesRight, InOffice
  <2>3. CASE cache' = NoReader BY <1>2, <2>3, NoReaderIs, Terms, CopyTimes DEF CopiesRight, CopyRight, InOffice, Quiet
  <2> QED BY <1>1, <2>1, <2>2, <2>3, Zenon
<1>7. ThreadRight' BY <1>1, <1>2, Times, CopyTimes, ThreadTimes, Lengths, Zenon DEF ThreadRight, MayReadLocal
<1> QED BY <1>2, <1>3, <1>4, <1>5, <1>6, <1>7, IInvNext, Zenon

\* The time of a read keeps the invariant.
LEMMA TimestampKeeps ==
  ASSUME IInv, Timestamp
  PROVE  IInv'
<1> TypeOK /\ ~panic /\ RaftRight /\ PropsRight /\ ReadsRight /\ LeaseRight
    /\ CellsRight /\ CopiesRight /\ ThreadRight /\ RaftType /\ PeerType /\ SharedType /\ ThreadType
  BY Zenon DEF IInv, TypeOK
<1>1. /\ pc = "found" /\ pc' = "timed" /\ byId' \in BOOLEAN
      /\ ts' = now \/ (ts' = read_id /\ read_id > cache.last_valid_ts)
  <2>1. pc = "found" /\ pc' = "timed" BY Zenon DEF Timestamp
  <2>2. CASE byId' = FALSE /\ ts' = now BY <2>1, <2>2, Zenon
  <2>3. CASE byId' = TRUE /\ ts' = SnapshotTs(read_id) BY <2>1, <2>3, ThreadTimes, CopyTimes DEF SnapshotTs
  <2> QED BY <2>2, <2>3, Zenon DEF Timestamp
<1>2. UNCHANGED <<now, role, term, changed, contact, asked, foreign, usurped, props, acked,
                  appliedTerm, commitTerm, reads, readAcked, current, lease, cells, meta, cache,
                  snapAt, read_id, snap, validSince, panic>>
  BY Zenon DEF Timestamp, SnapshotTs, raft, peer
<1>3. RaftType' /\ PeerType' /\ RaftRight' /\ PropsRight' /\ ReadsRight' /\ LeaseRight' /\ CellsRight' /\ CopyRight(meta)'
  BY PeerUntouched, Zenon DEF Timestamp
<1>4. SharedType' BY <1>2, Zenon DEF SharedType
<1>5. ThreadType' BY <1>1, <1>2, Times DEF ThreadType
<1>6. CopiesRight' BY <1>2, ZenonT(40) DEF CopiesRight, CopyRight, InOffice, Quiet
<1>7. ThreadRight' BY <1>1, <1>2, Times, CopyTimes, ThreadTimes, Lengths DEF ThreadRight, MayReadLocal
<1> QED BY <1>2, <1>3, <1>4, <1>5, <1>6, <1>7, IInvNext, Zenon

\* The check of the lease keeps the invariant.
LEMMA CheckLeaseKeeps ==
  ASSUME IInv, CheckLease
  PROVE  IInv'
<1> TypeOK /\ ~panic /\ RaftRight /\ PropsRight /\ ReadsRight /\ LeaseRight
    /\ CellsRight /\ CopiesRight /\ ThreadRight /\ RaftType /\ PeerType /\ SharedType /\ ThreadType
  BY Zenon DEF IInv, TypeOK
<1>1. /\ pc = "timed"
      /\ \/ pc' = "granted" /\ cache' = cache /\ is_in_leader_lease
         \/ pc' = "idle" /\ cache' = NoReader
  BY Zenon DEF CheckLease
<1>2. UNCHANGED <<now, role, term, changed, contact, asked, foreign, usurped, props, acked,
                  appliedTerm, commitTerm, reads, readAcked, current, lease, cells, meta, ts,
                  byId, snapAt, read_id, snap, validSince, panic>>
  BY Zenon DEF CheckLease, raft, peer
<1>3. RaftType' /\ PeerType' /\ RaftRight' /\ PropsRight' /\ ReadsRight' /\ LeaseRight' /\ CellsRight' /\ CopyRight(meta)'
  BY PeerUntouched, Zenon DEF CheckLease
<1>4. SharedType'
  <2>1. cache' \in ReaderType /\ cache'.lease <= Len(cells) /\ cache'.last_valid_ts <= now
    <3>1. CASE cache' = cache BY <3>1, Zenon DEF SharedType
    <3>2. CASE cache' = NoReader
      <4>1. Len(cells) \in Nat BY DEF SharedType
      <4> QED BY <3>2, <4>1, NoReaderIs, Times
    <3> QED BY <1>1, <3>1, <3>2, Zenon
  <2> QED BY <1>2, <2>1, Zenon DEF SharedType
<1>5. ThreadType' BY <1>1, <1>2, Times, Zenon DEF ThreadType
<1>6. CopiesRight'
  <2>1. CASE cache' = cache BY <1>2, <2>1, ZenonT(40) DEF CopiesRight, CopyRight, InOffice, Quiet
  <2>2. CASE cache' = NoReader BY <1>2, <2>2, NoReaderIs, Terms, CopyTimes DEF CopiesRight, CopyRight, InOffice, Quiet
  <2> QED BY <1>1, <2>1, <2>2, Zenon
<1>7. ThreadRight'
  <2>1. CASE pc' = "idle" BY <1>2, <2>1, Zenon DEF ThreadRight
  <2>2. CASE pc' = "granted" /\ cache' = cache /\ is_in_leader_lease
    <3>1. ts \notin foreign /\ asked = 0 /\ ts < contact + ElectionTimeout BY <1>1, <2>2, GrantIsRight, Zenon DEF IInv, ThreadRight
    <3> QED BY <1>1, <1>2, <2>2, <3>1, Zenon DEF ThreadRight, MayReadLocal
  <2> QED BY <1>1, <2>1, <2>2, Zenon
<1> QED BY <1>2, <1>3, <1>4, <1>5, <1>6, <1>7, IInvNext, Zenon

\* The read itself keeps the invariant.
LEMMA ExecuteKeeps ==
  ASSUME IInv, Execute
  PROVE  IInv'
<1> TypeOK /\ ~panic /\ RaftRight /\ PropsRight /\ ReadsRight /\ LeaseRight
    /\ CellsRight /\ CopiesRight /\ ThreadRight /\ RaftType /\ PeerType /\ SharedType /\ ThreadType
  BY Zenon DEF IInv, TypeOK
<1>1. /\ pc = "granted" /\ pc' = "served"
      /\ snapAt' = (IF byId /\ ts = snap.id THEN snap.at ELSE now)
      /\ snap' = IF byId THEN [id |-> ts, at |-> snapAt'] ELSE snap
  BY Zenon DEF Execute
<1>2. UNCHANGED <<now, role, term, changed, contact, asked, foreign, usurped, props, acked,
                  appliedTerm, commitTerm, reads, readAcked, current, lease, cells, meta, cache,
                  ts, byId, read_id, validSince, panic>>
  BY Zenon DEF Execute, raft, peer
<1>3. RaftType' /\ PeerType' /\ RaftRight' /\ PropsRight' /\ ReadsRight' /\ LeaseRight' /\ CellsRight' /\ CopyRight(meta)'
  BY PeerUntouched, ZenonT(40) DEF Execute
<1>4. SharedType' BY <1>2, Zenon DEF SharedType
<1>5. ThreadType' BY <1>1, <1>2, Times DEF ThreadType
<1>6. CopiesRight' BY <1>2, Zenon DEF CopiesRight, CopyRight, InOffice, Quiet
<1>7. ThreadRight' BY <1>1, <1>2, Times, CopyTimes, ThreadTimes, Lengths, Zenon DEF ThreadRight, MayReadLocal
<1> QED BY <1>2, <1>3, <1>4, <1>5, <1>6, <1>7, IInvNext, Zenon
-----------------------------------------------------------------------------
(***************************************************************************)
(* The theorems.                                                           *)
(***************************************************************************)
LEMMA InitIInv == Init => IInv
<1> SUFFICES ASSUME Init PROVE IInv BY Zenon
<1>1. /\ now = 1 /\ role = "follower" /\ term = 1 /\ changed = FALSE
      /\ contact = 0 /\ asked = 0 /\ foreign = {1} /\ usurped = TRUE
      /\ props = <<>> /\ acked = 0 /\ readAcked = 0 /\ appliedTerm = 1 /\ commitTerm = 1
      /\ reads = <<>> /\ current = 0 /\ validSince = 0 /\ panic = FALSE
  BY Zenon DEF Init
<1>2. lease.kind = "none" /\ lease.remote = 0 /\ lease \in LeaseType /\ cells = <<>>
  BY Zenon DEF Init, NoLease, LeaseType
<1>3. /\ meta \in ReaderType /\ meta.term = 1 /\ meta.applied_index_term = 1
      /\ meta.lease = 0 /\ meta.last_valid_ts = 0
  BY Zenon DEF Init, NoReader, ReaderType
<1>4. cache = NoReader /\ pc = "idle" /\ ts = 0 /\ byId = FALSE /\ snapAt = 0 /\ read_id = 0
      /\ snap = [id |-> 0, at |-> 0]
  BY Zenon DEF Init
<1>5. RaftType
  <2>1. 1 \in Nat \ {0} /\ 0 \in 0 .. 1 /\ {1} \subseteq 0 .. 1 OBVIOUS
  <2> QED BY <1>1, <2>1, Zenon DEF RaftType
<1>6. PeerType
  <2>1. 0 \in 0 .. 1 /\ 1 \in 0 .. 1 /\ <<>> \in Seq(PropType) /\ <<>> \in Seq(Nat) /\ 0 \in 0 .. Len(<<>>) OBVIOUS
  <2> QED BY <1>1, <2>1, Zenon DEF PeerType
<1>7. SharedType
  <2>1. cells \in Seq(CellType) /\ Len(cells) = 0 BY <1>2
  <2> QED BY <1>1, <1>2, <1>3, <1>4, <2>1, NoReaderIs DEF SharedType
<1>8. ThreadType
  <2>1. snap \in [id : Nat, at : Nat] /\ snap.id <= 1 /\ snap.at <= 1 BY <1>4
  <2>2. 0 \in 0 .. 1 OBVIOUS
  <2> QED BY <1>1, <1>4, <2>1, <2>2, Zenon DEF ThreadType
<1>9. RaftRight BY <1>1, Zenon DEF RaftRight
<1>10. PropsRight BY <1>1 DEF PropsRight
<1>11. ReadsRight BY <1>1 DEF ReadsRight
<1>12. LeaseRight BY <1>1, <1>2, Zenon DEF LeaseRight, InOffice
<1>13. CellsRight BY SMTT(30), <1>2 DEF CellsRight
<1>14. CopiesRight BY <1>1, <1>3, <1>4, NoReaderIs DEF CopiesRight, CopyRight, InOffice
<1>15. ThreadRight BY <1>4 DEF ThreadRight
<1> QED BY <1>1, <1>5, <1>6, <1>7, <1>8, <1>9, <1>10, <1>11, <1>12, <1>13, <1>14, <1>15, Zenon DEF IInv, TypeOK

LEMMA StepKeeps == IInv /\ [Next]_vars => IInv'
<1> SUFFICES ASSUME IInv, [Next]_vars PROVE IInv' BY Zenon
<1>1. CASE UNCHANGED vars
  <2>1. /\ UNCHANGED <<now, raft, peer>>
        /\ UNCHANGED <<now, contact, asked, foreign, cells, meta, lease, cache, pc, ts, byId, snapAt, read_id, snap>>
    BY <1>1, Zenon DEF vars, raft, peer, reader
  <2>2. TypeOK /\ ~panic /\ CopiesRight /\ ThreadRight BY Zenon DEF IInv
  <2>3. /\ RaftType' /\ PeerType' /\ RaftRight' /\ PropsRight' /\ ReadsRight' /\ LeaseRight' /\ CellsRight'
        /\ CopyRight(meta)'
    BY <2>1, PeerUntouched, Zenon
  <2>4. SharedType' BY <2>1, <2>2, Zenon DEF TypeOK, SharedType
  <2>5. ThreadType' BY <2>1, <2>2, Zenon DEF TypeOK, ThreadType
  <2>6. CopiesRight' BY <2>1, <2>2, Zenon DEF raft, peer, CopiesRight, CopyRight, InOffice, Quiet
  <2>7. ThreadRight' BY <2>1, <2>2, Zenon DEF ThreadRight, MayReadLocal
  <2>8. ~panic' BY <2>1, <2>2, Zenon DEF peer
  <2> QED BY <2>3, <2>4, <2>5, <2>6, <2>7, <2>8, Zenon DEF IInv, TypeOK
<1>2. CASE \E n \in DOMAIN props : StoreEntries(n) \/ Commit(n) BY <1>2, StoreEntriesKeeps, CommitKeeps, Zenon
<1>3. CASE \E n \in DOMAIN reads : AnswerReads(n) \/ ApplyReads(n) BY <1>3, AnswerReadsKeeps, ApplyReadsKeeps, Zenon
<1>4. CASE Tick \/ Elected \/ Usurp \/ StepDown BY <1>4, TickKeeps, ElectedKeeps, UsurpKeeps, StepDownKeeps, Zenon
<1>5. CASE OnRoleChanged \/ EndRound \/ Propose \/ TransferLeader \/ ReadIndex \/ PostApply
  BY <1>5, OnRoleChangedKeeps, EndRoundKeeps, ProposeKeeps, TransferLeaderKeeps, ReadIndexKeeps, PostApplyKeeps, Zenon
<1>6. CASE NewReadId \/ OtherBraneRead \/ Find \/ Timestamp \/ CheckLease \/ Execute
  BY <1>6, NewReadIdKeeps, OtherBraneReadKeeps, FindKeeps, TimestampKeeps, CheckLeaseKeeps, ExecuteKeeps, Zenon
<1> QED BY <1>1, <1>2, <1>3, <1>4, <1>5, <1>6, Zenon DEF Next, Step

\* The lease, its remotes, the readers' copies and the clock of the group are always as IInv says.
THEOREM LeaseInvariance == Spec => []IInv
BY InitIInv, StepKeeps, PTL DEF Spec

\* IInv says what ReadRight does: the lease of the peer itself, and the times granted to readers.
LEMMA ReadRightHolds == IInv => ReadRight
<1> SUFFICES ASSUME IInv PROVE ReadRight BY Zenon
<1> TypeOK /\ LeaseRight /\ CopiesRight /\ ThreadRight BY Zenon DEF IInv
<1>1. pc \in {"granted", "served"} => ts \notin foreign BY Zenon DEF ThreadRight
<1>2. ASSUME role = "leader", ~changed, appliedTerm = term, inspect(now) = "valid" PROVE now \notin foreign
  <2>1. lease.kind = "valid" /\ now < lease.ts BY <1>2, Zenon DEF inspect
  <2>2. InOffice BY <1>2, Zenon DEF InOffice
  <2>3. asked = 0 BY <2>1, <2>2, Zenon DEF LeaseRight
  <2>4. commitTerm = term BY <1>2, Terms
  <2>5. lease.ts <= contact + ElectionTimeout BY <2>1, <2>4, Zenon DEF LeaseRight
  <2>6. Quiet(meta.last_valid_ts) BY <2>2, Zenon DEF CopiesRight, CopyRight
  <2>7. now < contact + ElectionTimeout BY <2>1, <2>5, LeaseTimes, Times, Lengths
  <2> QED BY <2>3, <2>6, <2>7, CopyTimes, Times, Lengths DEF Quiet
<1> QED BY <1>1, <1>2, Zenon DEF ReadRight

\* A read that the LocalReader serves, or that the leader serves under its lease, is as of a time at
\* which no other peer was leader of a later term: for every length of the lease up to the election
\* timeout, every rounding of the shared time and any number of proposals, reads and terms.
THEOREM ReadsAreRight == Spec => []ReadRight
BY LeaseInvariance, ReadRightHolds, PTL

LEMMA SnapshotRightHolds == IInv => SnapshotRight
<1> SUFFICES ASSUME IInv, pc = "served", cache.term = term PROVE snapAt >= validSince BY Zenon DEF SnapshotRight
<1> TypeOK /\ CopiesRight /\ ThreadRight BY Zenon DEF IInv
<1>1. MayReadLocal(cache) /\ ts >= cache.last_valid_ts /\ snapAt >= ts BY Zenon DEF ThreadRight
<1>2. cache.applied_index_term = term BY <1>1, Zenon DEF MayReadLocal
<1>3. cache.last_valid_ts >= validSince BY <1>2, Zenon DEF CopiesRight, CopyRight
<1> QED BY <1>1, <1>3, ThreadTimes, CopyTimes, Terms

\* A read the LocalReader serves in a term uses no snapshot from before the peer had applied what
\* earlier leaders left, whatever read ids and snapshots the requests share.
THEOREM SnapshotsAreRight == Spec => []SnapshotRight
BY LeaseInvariance, SnapshotRightHolds, PTL

LEMMA RemoteWithinHolds == IInv => RemoteWithin
<1> SUFFICES ASSUME IInv PROVE RemoteWithin BY Zenon
<1> TypeOK /\ ~panic /\ CellsRight BY Zenon DEF IInv
<1>1. ASSUME NEW i \in DOMAIN cells
      PROVE  u64_to_timespec(cells[i].expired_time) <= IF lease.kind = "valid" THEN lease.ts ELSE 0
  <2>1. CASE cells[i].expired_time = 0 BY <2>1, ZeroIsOver, LeaseTimes
  <2>2. CASE cells[i].expired_time # 0 BY <2>2, Zenon DEF CellsRight
  <2> QED BY <2>1, <2>2, Zenon
<1> QED BY <1>1, Zenon DEF RemoteWithin

\* No RemoteLease ever made outlives the lease of the peer, and the assertion on its term holds.
THEOREM RemotesEndInTime == Spec => []RemoteWithin
BY LeaseInvariance, RemoteWithinHolds, PTL
=============================================================================

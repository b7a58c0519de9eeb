-------------------------- MODULE PeerCenterProofs --------------------------
(***************************************************************************)
(* Theorems about PeerCenter for any peers, infos and TTL.  DigestCurrent  *)
(* is inductive together with the types, and with both of them it is that  *)
(* whoever was answered since the map last changed holds it: an answer     *)
(* "unchanged" is right because the digest is.  OfPresent is inductive     *)
(* with the types too: a report time is there for every pair and no older. *)
(***************************************************************************)
EXTENDS PeerCenter, TLAPS

USE DEF Pairs, Destinations, Ages, Maps, Empty, Silent, Young

-----------------------------------------------------------------------------
(* Types, and the digest.                                                  *)

\* The digest and the types together.
DInv == TypeOK /\ DigestCurrent

\* The variables of the group have their types, as TypeOK says.
GroupTyped ==
    /\ exists \in BOOLEAN /\ info \in Maps /\ age \in [Pairs -> Ages]
    /\ reported \in [Peers -> Ages \cup {Nothing}]
    /\ digest \in Maps \cup {Nothing}
    /\ ~exists => info = Empty /\ reported = Silent /\ digest = Nothing

\* What a group starts with is typed.
LEMMA EmptyTyped ==
    /\ Empty \in Maps /\ Young \in [Pairs -> Ages]
    /\ Silent \in [Peers -> Ages \cup {Nothing}]
  BY TTLPositive

\* Keep leaves a group with the digest of its map, or none.
LEMMA KeepInv ==
    ASSUME DInv, NEW i \in Maps, NEW r \in [Peers -> Ages \cup {Nothing}],
           Keep(i, AgesOf(i), r)
    PROVE  GroupTyped' /\ DigestCurrent'
  <1>1. AgesOf(i) \in [Pairs -> Ages]
    BY TTLPositive DEF AgesOf, DInv, TypeOK
  <1>2. CASE exists /\ ~(i = Empty /\ r = Silent)
    BY <1>1, <1>2 DEF Keep, DigestOf, DigestCurrent, GroupTyped
  <1>3. CASE ~(exists /\ ~(i = Empty /\ r = Silent))
    <2>1. exists' = FALSE /\ info' = Empty /\ age' = Young /\ reported' = Silent
          /\ digest' = Nothing
      BY <1>3 DEF Keep
    <2>2. QED BY <2>1, EmptyTyped DEF DigestCurrent, GroupTyped
  <1>4. QED BY <1>2, <1>3

\* DInv holds at the start.
LEMMA DInit == Init => DInv
  <1> SUFFICES ASSUME Init PROVE DInv
    OBVIOUS
  <1>1. present = {} /\ exists = FALSE /\ info = Empty /\ age = Young
        /\ reported = Silent /\ digest = Nothing /\ held = [p \in Peers |-> Nothing]
        /\ polled = {}
    BY DEF Init
  <1>2. QED BY <1>1, EmptyTyped DEF DInv, TypeOK, DigestCurrent

\* DInv is preserved by every step.
LEMMA DStep == DInv /\ [Next]_vars => DInv'
  <1> SUFFICES ASSUME DInv, [Next]_vars PROVE DInv'
    OBVIOUS
  <1>1. ASSUME NEW p \in Peers, Join(p) PROVE DInv'
    BY <1>1 DEF DInv, TypeOK, DigestCurrent, Join, group
  <1>2. ASSUME NEW p \in Peers, Leave(p) PROVE DInv'
    <2>1. Left(p) \in Maps /\ [reported EXCEPT ![p] = Nothing] \in [Peers -> Ages \cup {Nothing}]
      BY DEF Left, DInv, TypeOK
    <2>2. GroupTyped' /\ DigestCurrent'
      BY <1>2, <2>1, KeepInv DEF Leave
    <2>3. QED BY <1>2, <2>2 DEF Leave, Answered, GroupTyped, DInv, TypeOK
  <1>3. ASSUME NEW p \in Peers, Get(p) PROVE DInv'
    <2>1. held' \in [Peers -> Maps \cup {Nothing}]
      BY <1>3 DEF Get, DInv, TypeOK
    <2>2. QED BY <1>3, <2>1 DEF Get, DInv, TypeOK, DigestCurrent
  <1>4. ASSUME NEW p \in Peers, NEW r \in Reports(p), Report(p, r) PROVE DInv'
    <2>1. Said(p, r) \in Maps
      BY ReportsTyped DEF Said, DInv, TypeOK
    <2>2. Dated(p, r) \in [Pairs -> Ages]
      BY TTLPositive DEF Dated, DInv, TypeOK
    <2>3. [reported EXCEPT ![p] = 0] \in [Peers -> Ages \cup {Nothing}]
      BY TTLPositive DEF DInv, TypeOK
    <2>4. QED BY <1>4, <2>1, <2>2, <2>3 DEF Report, Answered, DigestOf, DInv, TypeOK, DigestCurrent
  <1>5. ASSUME Clean PROVE DInv'
    <2> DEFINE r == [p \in Peers |-> IF p \in Recent THEN reported[p] ELSE Nothing]
    <2>1. Kept \in Maps /\ r \in [Peers -> Ages \cup {Nothing}]
      BY DEF Kept, DInv, TypeOK
    <2>2. Keep(Kept, AgesOf(Kept), r)
      BY <1>5 DEF Clean
    <2>3. GroupTyped' /\ DigestCurrent'
      <3> HIDE DEF r
      <3>1. QED BY <2>1, <2>2, KeepInv
    <2>4. QED BY <1>5, <2>3 DEF Clean, Answered, GroupTyped, DInv, TypeOK
  <1>6. ASSUME Elapse PROVE DInv'
    <2>1. \A n \in Ages : Older(n) \in Ages
      BY TTLPositive DEF Older
    <2>2. age' \in [Pairs -> Ages]
      BY <1>6, <2>1, TTLPositive DEF Elapse, DInv, TypeOK
    <2>3. reported' \in [Peers -> Ages \cup {Nothing}]
      BY <1>6, <2>1 DEF Elapse, DInv, TypeOK
    <2>4. reported = Silent => reported' = Silent
      BY <1>6 DEF Elapse
    <2>5. QED BY <1>6, <2>2, <2>3, <2>4 DEF Elapse, DInv, TypeOK, DigestCurrent
  <1>7. ASSUME UNCHANGED vars PROVE DInv'
    BY <1>7 DEF vars, group, DInv, TypeOK, DigestCurrent
  <1>8. QED BY <1>1, <1>2, <1>3, <1>4, <1>5, <1>6, <1>7 DEF Next

\* PeerCenter's variables keep their types, and a group that was removed has
\* left nothing behind (group_mut, remove_peer, clean_outdated).
THEOREM CenterTypeCorrect == Spec => []TypeOK
  <1>1. DInv => TypeOK
    BY DEF DInv
  <1>2. QED BY <1>1, DInit, DStep, PTL DEF Spec

\* Whatever was reported, removed or expired, the digest a poll is compared
\* with is that of the map as it is (calc_digest_internal).
THEOREM DigestAlwaysCurrent == Spec => []DigestCurrent
  <1>1. DInv => DigestCurrent
    BY DEF DInv
  <1>2. QED BY <1>1, DInit, DStep, PTL DEF Spec

\* The digest, the types and the property together.
CInv == DInv /\ PolledMeansCurrent

\* A step that changes no copy keeps the answers given for an unchanged map.
LEMMA AnsweredKeeps ==
    ASSUME CInv, Answered, held' = held
    PROVE  PolledMeansCurrent'
  BY DEF CInv, Answered, PolledMeansCurrent

\* CInv is preserved by every step.
LEMMA CStep == CInv /\ [Next]_vars => CInv'
  <1> SUFFICES ASSUME CInv, [Next]_vars PROVE PolledMeansCurrent'
    BY DStep DEF CInv
  <1>0. DInv
    BY DEF CInv
  <1>1. ASSUME NEW p \in Peers, Join(p) PROVE PolledMeansCurrent'
    BY <1>1 DEF CInv, PolledMeansCurrent, Join, group
  <1>2. ASSUME NEW p \in Peers, Leave(p) PROVE PolledMeansCurrent'
    BY <1>2, AnsweredKeeps DEF Leave
  \* What p holds after its poll, whichever answer it was given.
  <1>3. ASSUME NEW p \in Peers, Get(p) PROVE PolledMeansCurrent'
    <2>1. held'[p] = info \/ (held'[p] = Nothing /\ info = Empty)
      <3>1. CASE Unchanged(p)
        BY <1>0, <1>3, <3>1 DEF Unchanged, Get, DigestOf, DInv, DigestCurrent, TypeOK
      <3>2. CASE ~Unchanged(p)
        BY <1>0, <1>3, <3>2 DEF Get, DigestOf, DInv, DigestCurrent, TypeOK
      <3>3. QED BY <3>1, <3>2
    <2>2. \A q \in polled' \ {p} : q \in polled /\ held'[q] = held[q]
      BY <1>3 DEF Get
    <2>3. info' = info
      BY <1>3 DEF Get
    <2>4. QED BY <2>1, <2>2, <2>3 DEF CInv, PolledMeansCurrent
  <1>4. ASSUME NEW p \in Peers, NEW r \in Reports(p), Report(p, r) PROVE PolledMeansCurrent'
    BY <1>4, AnsweredKeeps DEF Report
  <1>5. ASSUME Clean PROVE PolledMeansCurrent'
    BY <1>5, AnsweredKeeps DEF Clean
  <1>6. ASSUME Elapse PROVE PolledMeansCurrent'
    BY <1>6 DEF CInv, PolledMeansCurrent, Elapse
  <1>7. ASSUME UNCHANGED vars PROVE PolledMeansCurrent'
    BY <1>7 DEF vars, group, CInv, PolledMeansCurrent
  <1>8. QED BY <1>1, <1>2, <1>3, <1>4, <1>5, <1>6, <1>7 DEF Next

\* A peer that was answered since the map last changed holds it, also when it
\* was answered that nothing has changed (get_global_peer_map).
THEOREM PollsAreCurrent == Spec => []PolledMeansCurrent
  <1>1. Init => CInv
    BY DInit DEF Init, CInv, PolledMeansCurrent
  <1>2. CInv => PolledMeansCurrent
    BY DEF CInv
  <1>3. QED BY <1>1, <1>2, CStep, PTL DEF Spec

-----------------------------------------------------------------------------
(* Nothing of peers that are gone.                                         *)

\* OfPresent and the types together.
PInv == DInv /\ OfPresent

\* Keep with a map and report times that agree keeps OfPresent.
LEMMA KeepPresent ==
    ASSUME DInv, NEW i \in Maps, NEW r \in [Peers -> Ages \cup {Nothing}],
           Keep(i, AgesOf(i), r),
           \A p \in Peers : r[p] # Nothing => p \in present',
           \A d \in Pairs : i[d] # Nothing => r[d[1]] # Nothing /\ r[d[1]] <= age[d]
    PROVE  OfPresent'
  <1>1. CASE exists /\ ~(i = Empty /\ r = Silent)
    <2>1. exists' /\ info' = i /\ age' = AgesOf(i) /\ reported' = r
      BY <1>1 DEF Keep
    <2>2. \A d \in Pairs : i[d] # Nothing => AgesOf(i)[d] = age[d]
      BY DEF AgesOf
    <2>3. \E p \in Peers : r[p] # Nothing
      <3>1. CASE r # Silent
        BY <3>1
      <3>2. CASE i # Empty
        <4>1. PICK d \in Pairs : i[d] # Nothing
          BY <3>2
        <4>2. QED BY <4>1
      <3>3. QED BY <1>1, <3>1, <3>2
    <2>4. QED BY <2>1, <2>2, <2>3 DEF OfPresent
  <1>2. CASE ~(exists /\ ~(i = Empty /\ r = Silent))
    BY <1>2 DEF Keep, OfPresent
  <1>3. QED BY <1>1, <1>2

\* PInv is preserved by every step.
LEMMA PStep == PInv /\ [Next]_vars => PInv'
  <1> SUFFICES ASSUME PInv, [Next]_vars PROVE OfPresent'
    BY DStep DEF PInv
  <1>0. DInv /\ TypeOK
    BY DEF PInv, DInv
  <1>1. ASSUME NEW p \in Peers, Join(p) PROVE OfPresent'
    BY <1>1 DEF PInv, OfPresent, Join, group
  <1>2. ASSUME NEW p \in Peers, Leave(p) PROVE OfPresent'
    <2> DEFINE r == [reported EXCEPT ![p] = Nothing]
    <2>1. Left(p) \in Maps /\ r \in [Peers -> Ages \cup {Nothing}]
      BY <1>0 DEF Left, TypeOK
    <2>2. \A a \in Peers : r[a] # Nothing => a \in present'
      BY <1>0, <1>2 DEF Leave, PInv, OfPresent, TypeOK
    <2>3. \A d \in Pairs : Left(p)[d] # Nothing => r[d[1]] # Nothing /\ r[d[1]] <= age[d]
      BY <1>0 DEF Left, PInv, OfPresent, TypeOK
    <2>4. Keep(Left(p), AgesOf(Left(p)), r)
      BY <1>2 DEF Leave
    <2>5. QED
      <3> HIDE DEF r
      <3>1. QED BY <1>0, <2>1, <2>2, <2>3, <2>4, KeepPresent
  <1>3. ASSUME NEW p \in Peers, Get(p) PROVE OfPresent'
    BY <1>3 DEF PInv, OfPresent, Get
  <1>4. ASSUME NEW p \in Peers, NEW q \in Reports(p), Report(p, q) PROVE OfPresent'
    <2>1. p \in present' /\ present' = present
      BY <1>4 DEF Report
    <2>2. \A a \in Peers : reported'[a] # Nothing => a \in present'
      BY <1>0, <1>4, <2>1 DEF Report, PInv, OfPresent, TypeOK
    <2>3. ASSUME NEW d \in Pairs, info'[d] # Nothing
          PROVE  reported'[d[1]] # Nothing /\ reported'[d[1]] <= age'[d]
      <3>1. CASE d[1] = p
        <4>1. reported'[d[1]] = 0 /\ age'[d] \in Nat
          BY <1>0, <1>4, <3>1, TTLPositive DEF Report, Dated, TypeOK
        <4>2. 0 # Nothing
          BY NothingApart
        <4>3. QED BY <4>1, <4>2
      <3>2. CASE d[1] # p
        BY <1>0, <1>4, <2>3, <3>2 DEF Report, Said, Dated, PInv, OfPresent, TypeOK
      <3>3. QED BY <3>1, <3>2
    <2>4. QED BY <2>1, <2>2, <2>3 DEF OfPresent
  <1>5. ASSUME Clean PROVE OfPresent'
    <2> DEFINE r == [p \in Peers |-> IF p \in Recent THEN reported[p] ELSE Nothing]
    <2>1. Kept \in Maps /\ r \in [Peers -> Ages \cup {Nothing}]
      BY <1>0 DEF Kept, TypeOK
    <2>2. Keep(Kept, AgesOf(Kept), r)
      BY <1>5 DEF Clean
    <2>3. \A a \in Peers : r[a] # Nothing => a \in present'
      BY <1>5 DEF Clean, Recent, PInv, OfPresent
    <2>4. ASSUME NEW d \in Pairs, Kept[d] # Nothing
          PROVE  r[d[1]] # Nothing /\ r[d[1]] <= age[d]
      <3>1. info[d] # Nothing /\ age[d] < TTL
        BY <2>4 DEF Kept, Fresh
      <3>2. reported[d[1]] # Nothing /\ reported[d[1]] <= age[d] /\ d[1] \in Peers
        BY <3>1 DEF PInv, OfPresent
      <3>3. age[d] \in Nat /\ reported[d[1]] \in Nat
        BY <1>0, <3>2 DEF TypeOK
      <3>4. d[1] \in Recent
        BY <3>1, <3>2, <3>3, TTLPositive DEF Recent
      <3>5. QED BY <3>2, <3>4
    <2>5. QED
      <3> HIDE DEF r
      <3>1. QED BY <1>0, <2>1, <2>2, <2>3, <2>4, KeepPresent
  <1>6. ASSUME Elapse PROVE OfPresent'
    <2>1. \A a \in Peers : reported'[a] # Nothing => reported[a] # Nothing
      BY <1>6 DEF Elapse
    <2>2. ASSUME NEW d \in Pairs, info'[d] # Nothing
          PROVE  reported'[d[1]] # Nothing /\ reported'[d[1]] <= age'[d]
      <3>1. info[d] # Nothing /\ reported[d[1]] # Nothing /\ reported[d[1]] <= age[d]
        BY <1>6, <2>2 DEF Elapse, PInv, OfPresent
      <3>2. reported'[d[1]] = Older(reported[d[1]]) /\ age'[d] = Older(age[d])
        BY <1>6, <3>1 DEF Elapse
      <3>3. reported[d[1]] \in Nat /\ age[d] \in Nat
        BY <1>0, <3>1 DEF TypeOK
      <3>4. Older(reported[d[1]]) \in Nat /\ Older(reported[d[1]]) <= Older(age[d])
        BY <3>1, <3>3, TTLPositive DEF Older
      <3>5. QED BY <3>2, <3>4, NothingApart
    <2>3. QED BY <1>6, <2>1, <2>2 DEF Elapse, PInv, OfPresent
  <1>7. ASSUME UNCHANGED vars PROVE OfPresent'
    BY <1>7 DEF vars, group, PInv, OfPresent
  <1>8. QED BY <1>1, <1>2, <1>3, <1>4, <1>5, <1>6, <1>7 DEF Next

\* Report times and pairs are those of peers with a ready connection, and the
\* last peer to leave takes the group with it (remove_peer, clean_outdated).
THEOREM CenterExact == Spec => []GroupExact
  <1>1. Init => PInv
    BY DInit DEF Init, PInv, OfPresent
  <1>2. PInv => GroupExact
    BY DEF PInv, DInv, GroupExact
  <1>3. QED BY <1>1, <1>2, PStep, PTL DEF Spec
=============================================================================

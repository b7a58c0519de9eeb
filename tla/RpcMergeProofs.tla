--------------------------- MODULE RpcMergeProofs ---------------------------
(***************************************************************************)
(* Proofs about RpcMerge for any number of peers and transactions and any  *)
(* limits.  The invariant is about sums: what a sum becomes when one value *)
(* changes or a set of values is cleared follows from the cardinality of   *)
(* the set of units that it counts.                                        *)
(***************************************************************************)
EXTENDS RpcMerge, FiniteSetTheorems, TLAPS

IInv == TypeOK /\ MergesExact /\ CountersExact /\ PeerLimited /\ OnlyPresent

-----------------------------------------------------------------------------
(* Sums.                                                                   *)

Units(f, D) == UNION {{k} \X (1 .. f[k]) : k \in D}

LEMMA Counting ==
    ASSUME NEW n \in Nat
    PROVE  IsFiniteSet(1 .. n) /\ Cardinality(1 .. n) = n
<1>1. 1 \in Int /\ n \in Int
  OBVIOUS
<1>2. IsFiniteSet(1 .. n) /\ Cardinality(1 .. n) = IF 1 > n THEN 0 ELSE n - 1 + 1
  BY <1>1, FS_Interval
<1> QED
  BY <1>2

LEMMA UnitsFinite ==
    ASSUME NEW D, IsFiniteSet(D), NEW f, \A k \in D : f[k] \in Nat
    PROVE  IsFiniteSet(Units(f, D))
<1> DEFINE g == [k \in D |-> {k} \X (1 .. f[k])]
           T == {{k} \X (1 .. f[k]) : k \in D}
<1>1. g \in Surjection(D, T)
  BY DEF Surjection
<1>2. IsFiniteSet(T)
  BY <1>1, FS_Surjection
<1>3. ASSUME NEW k \in D PROVE IsFiniteSet({k} \X (1 .. f[k]))
  <2>1. IsFiniteSet({k})
    BY FS_Singleton
  <2>2. IsFiniteSet(1 .. f[k])
    BY Counting
  <2> QED
    BY <2>1, <2>2, FS_Product
<1>4. \A U \in T : IsFiniteSet(U)
  BY <1>3
<1> QED
  BY <1>2, <1>4, FS_UNION DEF Units

LEMMA SumNat ==
    ASSUME NEW D, IsFiniteSet(D), NEW f, \A k \in D : f[k] \in Nat
    PROVE  Sum(f, D) \in Nat
BY UnitsFinite, FS_CardinalityType DEF Sum, Units

\* A sum depends on the values it adds only.
LEMMA SumSame ==
    ASSUME NEW D, NEW f, NEW g, \A k \in D : f[k] = g[k]
    PROVE  Sum(f, D) = Sum(g, D)
<1>1. \A k \in D : {k} \X (1 .. f[k]) = {k} \X (1 .. g[k])
  OBVIOUS
<1> QED
  BY <1>1 DEF Sum

LEMMA SumOfNothing ==
    ASSUME NEW D, NEW f, \A k \in D : f[k] = 0
    PROVE  Sum(f, D) = 0
<1>1. Units(f, D) = {}
  BY DEF Units
<1> QED
  BY <1>1, FS_EmptySet DEF Sum, Units

LEMMA SumOfOne ==
    ASSUME NEW k, NEW f, f[k] \in Nat
    PROVE  Sum(f, {k}) = f[k]
<1>1. Units(f, {k}) = {k} \X (1 .. f[k])
  BY DEF Units
<1>2. IsFiniteSet({k}) /\ Cardinality({k}) = 1
  BY FS_Singleton
<1>3. IsFiniteSet(1 .. f[k]) /\ Cardinality(1 .. f[k]) = f[k]
  BY Counting
<1>4. Cardinality({k} \X (1 .. f[k])) = Cardinality({k}) * Cardinality(1 .. f[k])
  BY <1>2, <1>3, FS_Product
<1>5. Cardinality({k} \X (1 .. f[k])) = f[k]
  BY <1>2, <1>3, <1>4
<1>6. Sum(f, {k}) = Cardinality(Units(f, {k}))
  BY DEF Sum, Units
<1> QED
  BY <1>1, <1>5, <1>6

\* Taking a part out of a sum.
LEMMA SumWithout ==
    ASSUME NEW E, IsFiniteSet(E), NEW D \in SUBSET E, NEW f,
           \A k \in E : f[k] \in Nat
    PROVE  /\ Sum(f, E) \in Nat /\ Sum(f, D) \in Nat /\ Sum(f, E \ D) \in Nat
           /\ Sum(f, E) = Sum(f, D) + Sum(f, E \ D)
<1>1. IsFiniteSet(D) /\ IsFiniteSet(E \ D)
  BY FS_Subset, FS_Difference
<1>2. Sum(f, E) \in Nat /\ Sum(f, D) \in Nat /\ Sum(f, E \ D) \in Nat
  BY <1>1, SumNat
<1>3. Units(f, E) = Units(f, D) \cup Units(f, E \ D)
  BY DEF Units
<1>4. Units(f, D) \cap Units(f, E \ D) = {}
  BY DEF Units
<1>5. IsFiniteSet(Units(f, D)) /\ IsFiniteSet(Units(f, E \ D))
  BY <1>1, UnitsFinite
<1>6. Cardinality(Units(f, E)) = Cardinality(Units(f, D))
          + Cardinality(Units(f, E \ D)) - Cardinality({})
  BY <1>3, <1>4, <1>5, FS_Union
<1> QED
  BY <1>2, <1>6, FS_EmptySet DEF Sum, Units

\* Setting the values of D to 0.
LEMMA SumCleared ==
    ASSUME NEW E, IsFiniteSet(E), NEW D, NEW f, NEW g,
           \A k \in E : f[k] \in Nat,
           \A k \in E : g[k] = IF k \in D THEN 0 ELSE f[k]
    PROVE  /\ Sum(f, E \cap D) \in Nat /\ Sum(g, E) \in Nat
           /\ Sum(f, E) = Sum(f, E \cap D) + Sum(g, E)
<1>1. E \cap D \in SUBSET E /\ E \ (E \cap D) = E \ D
  OBVIOUS
<1>2. /\ Sum(f, E) = Sum(f, E \cap D) + Sum(f, E \ (E \cap D))
      /\ Sum(f, E \cap D) \in Nat
  BY <1>1, SumWithout
<1>0. \A k \in E : g[k] \in Nat
  OBVIOUS
<1>3. /\ Sum(g, E) = Sum(g, E \cap D) + Sum(g, E \ (E \cap D))
      /\ Sum(g, E) \in Nat /\ Sum(g, E \ (E \cap D)) \in Nat
  BY <1>1, <1>0, SumWithout
<1>4. Sum(g, E \cap D) = 0
  BY SumOfNothing
<1>5. Sum(g, E \ D) = Sum(f, E \ D)
  BY SumSame
<1> QED
  BY <1>1, <1>2, <1>3, <1>4, <1>5

\* Changing one value.
LEMMA SumChanged ==
    ASSUME NEW E, IsFiniteSet(E), NEW x \in E, NEW f, NEW g,
           \A k \in E : f[k] \in Nat /\ g[k] \in Nat,
           \A k \in E \ {x} : g[k] = f[k]
    PROVE  /\ Sum(f, E) \in Nat /\ Sum(g, E) \in Nat
           /\ f[x] <= Sum(f, E)
           /\ Sum(g, E) = Sum(f, E) - f[x] + g[x]
<1>1. /\ Sum(f, E) = Sum(f, {x}) + Sum(f, E \ {x})
      /\ Sum(f, E) \in Nat /\ Sum(f, E \ {x}) \in Nat
  BY SumWithout
<1>2. /\ Sum(g, E) = Sum(g, {x}) + Sum(g, E \ {x})
      /\ Sum(g, E) \in Nat
  BY SumWithout
<1>3. Sum(f, {x}) = f[x] /\ Sum(g, {x}) = g[x]
  BY SumOfOne
<1>4. Sum(g, E \ {x}) = Sum(f, E \ {x})
  BY SumSame
<1> QED
  BY <1>1, <1>2, <1>3, <1>4

-----------------------------------------------------------------------------
(* Merges.                                                                 *)

LEMMA KeysFinite ==
    IsFiniteSet(Keys) /\ IsFiniteSet(Indices) /\ \A p \in Peers : IsFiniteSet(KeysOf(p))
<1>1. IsFiniteSet(Keys)
  BY FinitePeers, FS_Product DEF Keys
<1>2. 0 \in Int /\ MaxPieces - 1 \in Int
  BY Limits
<1>3. IsFiniteSet(Indices)
  BY <1>2, FS_Interval DEF Indices
<1>4. ASSUME NEW p \in Peers PROVE IsFiniteSet(KeysOf(p))
  BY <1>1, FS_Subset DEF Keys, KeysOf
<1> QED
  BY <1>1, <1>3, <1>4

LEMMA NoMergeExact ==
    NoMerge \in Merge /\ MergeExact(NoMerge)
<1>1. NoMerge \in Merge
  BY Limits DEF NoMerge, NewMerge, NoPieces, Merge, Indices
<1>2. Arrived(NoMerge) = {}
  BY DEF Arrived, NoMerge, NewMerge, NoPieces
<1>3. Cardinality(Arrived(NoMerge)) = 0
  BY <1>2, FS_EmptySet
<1>4. \A i \in Indices : Lengths(NoMerge)[i] = 0
  BY DEF Lengths, LengthOf, NoMerge, NewMerge, NoPieces
<1>5. Sum(Lengths(NoMerge), Indices) = 0
  BY <1>4, SumOfNothing
<1>6. 0 \in Indices /\ NoMerge.pieces[0] = NoPiece
  BY Limits DEF Indices, NoMerge, NewMerge, NoPieces
<1> QED
  BY <1>1, <1>2, <1>3, <1>5, <1>6 DEF MergeExact, NoMerge, NewMerge

LEMMA LengthNat ==
    ASSUME NEW m \in Merge, NEW i \in Indices
    PROVE  LengthOf(m.pieces[i]) \in Nat /\ Lengths(m)[i] = LengthOf(m.pieces[i])
BY DEF Merge, LengthOf, Lengths

\* A merge that is not there holds no bytes.
LEMMA NothingHeld ==
    ASSUME NEW m \in Merge, MergeExact(m), m.total = 0
    PROVE  m.bytes = 0 /\ m.received = 0 /\ m.pieces = NoPieces /\ ~m.first
<1>1. Arrived(m) = {}
  BY DEF MergeExact
<1>2. \A i \in Indices : m.pieces[i] = NoPiece
  BY <1>1 DEF Arrived
<1>3. \A i \in Indices : Lengths(m)[i] = 0
  BY <1>2 DEF Lengths, LengthOf
<1>4. m.bytes = 0 /\ m.received = 0
  BY <1>1, <1>3, SumOfNothing, FS_EmptySet DEF MergeExact
<1>5. m.pieces = NoPieces
  BY <1>2 DEF Merge, NoPieces
<1>6. ~m.first
  BY <1>2, Limits DEF MergeExact, Indices
<1> QED
  BY <1>4, <1>5, <1>6

\* The merge merge_packet looks up or inserts is exact, and differs from what
\* was there in its declared count only.
LEMMA OpenedExact ==
    ASSUME NEW m \in Merge, MergeExact(m), NEW n \in 2 .. MaxPieces, SameCount(m, n)
    PROVE  /\ Opened(m, n) \in Merge /\ MergeExact(Opened(m, n))
           /\ Opened(m, n).total = n
           /\ Opened(m, n).bytes = m.bytes /\ Opened(m, n).pieces = m.pieces
<1>1. CASE m.total # 0
  BY <1>1 DEF Opened, SameCount
<1>2. CASE m.total = 0
  <2> DEFINE o == NewMerge(n)
  <2>1. Opened(m, n) = o
    BY <1>2 DEF Opened
  <2>2. /\ o \in Merge /\ o.total = n /\ o.pieces = NoPieces
        /\ o.bytes = 0 /\ o.received = 0 /\ ~o.first
    <3>1. NoPieces \in [Indices -> Nat \cup {NoPiece}]
      BY DEF NoPieces
    <3> QED
      BY <3>1, Limits DEF Merge, NewMerge
  <2>3. Arrived(o) = Arrived(NoMerge) /\ Lengths(o) = Lengths(NoMerge)
    BY DEF Arrived, Lengths, NoMerge, NewMerge
  <2>4. Arrived(NoMerge) = {} /\ NoMerge.total = 0
    BY DEF Arrived, NoMerge, NewMerge, NoPieces
  <2>5. MergeExact(o)
    BY <2>2, <2>3, <2>4, NoMergeExact DEF MergeExact, NoMerge, NewMerge
  <2> QED
    BY <1>2, <2>1, <2>2, <2>5, NothingHeld
<1> QED
  BY <1>1, <1>2

\* Storing a piece keeps the counts of a merge exact; only then may it be
\* complete.
LEMMA StoredExact ==
    ASSUME NEW m \in Merge, MergeExact(m), NEW n \in 2 .. MaxPieces, m.total = n,
           NEW i \in 0 .. n - 1, NEW s \in Nat
    PROVE  /\ Stored(m, i, s) \in Merge
           /\ Stored(m, i, s).received # n => MergeExact(Stored(m, i, s))
           /\ LengthOf(m.pieces[i]) <= m.bytes
           /\ Stored(m, i, s).bytes = m.bytes - LengthOf(m.pieces[i]) + s
<1> DEFINE r == Stored(m, i, s)
           prev == LengthOf(m.pieces[i])
<1>0. /\ i \in Indices /\ n \in Nat /\ n <= MaxPieces /\ n > 0
      /\ m.pieces \in [Indices -> Nat \cup {NoPiece}] /\ m.bytes \in Nat
      /\ m.received \in Nat
  BY Limits DEF Indices, Merge
<1>1. /\ r.total = n /\ r.pieces = [m.pieces EXCEPT ![i] = s]
      /\ r.first = (m.first \/ i = 0)
      /\ r.received = IF CountsAsNew(m, i) THEN m.received + 1 ELSE m.received
      /\ r.bytes = Minus(m.bytes, prev) + s /\ r.age = 0
  BY DEF Stored
<1>2. prev \in Nat
  BY <1>0, LengthNat
<1>3. r \in Merge
  <2>1. r.pieces \in [Indices -> Nat \cup {NoPiece}]
    BY <1>0, <1>1
  <2>2. r.bytes \in Nat /\ r.received \in Nat
    BY <1>0, <1>1, <1>2 DEF Minus
  <2> HIDE DEF prev
  <2> QED
    BY <1>0, <1>1, <2>1, <2>2, Limits DEF Merge, Stored
<1>4. /\ Arrived(r) = Arrived(m) \cup {i}
      /\ CountsAsNew(m, i) <=> i \notin Arrived(m)
  BY <1>0, <1>1, NoPieceNaN DEF Arrived, CountsAsNew
<1>5. IsFiniteSet(Arrived(m)) /\ Cardinality(Arrived(m)) \in Nat
  BY KeysFinite, FS_Subset, FS_CardinalityType DEF Arrived
<1>6. r.received = Cardinality(Arrived(r))
  <2>1. Cardinality(Arrived(m) \cup {i}) =
            IF i \in Arrived(m) THEN Cardinality(Arrived(m)) ELSE Cardinality(Arrived(m)) + 1
    BY <1>5, FS_AddElement
  <2>2. m.received = Cardinality(Arrived(m))
    BY DEF MergeExact
  <2> HIDE DEF r
  <2> QED
    BY <1>1, <1>4, <2>1, <2>2
<1>7. /\ \A j \in Indices : Lengths(m)[j] \in Nat /\ Lengths(r)[j] \in Nat
      /\ \A j \in Indices \ {i} : Lengths(r)[j] = Lengths(m)[j]
      /\ Lengths(m)[i] = prev /\ Lengths(r)[i] = s
  <2>1. r.pieces[i] = s /\ \A j \in Indices \ {i} : r.pieces[j] = m.pieces[j]
    BY <1>0, <1>1
  <2> HIDE DEF r
  <2> QED
    BY <1>0, <1>3, <2>1, LengthNat, NoPieceNaN DEF LengthOf, Lengths
<1>8. /\ Lengths(m)[i] <= Sum(Lengths(m), Indices)
      /\ Sum(Lengths(r), Indices) = Sum(Lengths(m), Indices) - Lengths(m)[i] + Lengths(r)[i]
      /\ Sum(Lengths(m), Indices) \in Nat
  <2> DEFINE f == Lengths(m)
             g == Lengths(r)
  <2>1. /\ \A j \in Indices : f[j] \in Nat /\ g[j] \in Nat
        /\ \A j \in Indices \ {i} : g[j] = f[j]
    BY <1>7
  <2>2. IsFiniteSet(Indices) /\ i \in Indices
    BY <1>0, KeysFinite
  <2> HIDE DEF r, prev, f, g
  <2>3. /\ f[i] <= Sum(f, Indices)
        /\ Sum(g, Indices) = Sum(f, Indices) - f[i] + g[i]
        /\ Sum(f, Indices) \in Nat
    BY <2>1, <2>2, SumChanged
  <2> QED
    BY <2>3 DEF f, g
<1>9. /\ prev <= m.bytes
      /\ r.bytes = m.bytes - prev + s
      /\ r.bytes = Sum(Lengths(r), Indices)
  <2> HIDE DEF r, prev
  <2> QED
    BY <1>0, <1>1, <1>2, <1>7, <1>8 DEF MergeExact, Minus
<1>10. ASSUME r.received # n PROVE MergeExact(r)
  <2>1. Arrived(r) \subseteq 0 .. n - 1
    BY <1>4 DEF MergeExact
  <2>2. Cardinality(Arrived(r)) <= n
    <3>1. IsFiniteSet(0 .. n - 1) /\ Cardinality(0 .. n - 1) = n
      <4>1. 0 \in Int /\ n - 1 \in Int
        BY <1>0
      <4>2. /\ IsFiniteSet(0 .. n - 1)
            /\ Cardinality(0 .. n - 1) = IF 0 > n - 1 THEN 0 ELSE n - 1 - 0 + 1
        BY <4>1, FS_Interval
      <4> QED
        BY <1>0, <4>2
    <3> QED
      BY <2>1, <3>1, FS_Subset
  <2>3. r.first <=> r.pieces[0] # NoPiece
    <3>1. 0 \in Indices /\ (m.first <=> m.pieces[0] # NoPiece)
      BY Limits DEF MergeExact, Indices
    <3>2. CASE i = 0
      <4>1. r.first /\ r.pieces[0] = s
        BY <1>0, <1>1, <3>1, <3>2
      <4> QED
        BY <4>1, NoPieceNaN
    <3>3. CASE i # 0
      <4>1. (r.first <=> m.first) /\ r.pieces[0] = m.pieces[0]
        BY <1>0, <1>1, <3>1, <3>3
      <4> QED
        BY <3>1, <4>1
    <3> QED
      BY <3>2, <3>3
  <2>4. r.received \in Nat
    BY <1>3 DEF Merge
  <2> HIDE DEF r
  <2> QED
    BY <1>0, <1>1, <1>6, <1>9, <1>10, <2>1, <2>2, <2>3, <2>4 DEF MergeExact
<1> QED
  BY <1>3, <1>9, <1>10

-----------------------------------------------------------------------------
(* Removing merges.                                                        *)

\* What remove_pending leaves, for any set of keys.
LEMMA RemovedExact ==
    ASSUME IInv, NEW D \in SUBSET Keys
    PROVE  LET W == Without(D)
           IN  /\ W \in [Keys -> Merge]
               /\ \A k \in Keys : W[k] = NoMerge \/ W[k] = merges[k]
               /\ \A k \in Keys : W[k] \in Merge /\ MergeExact(W[k])
               /\ PiecesLeft(D) = Sum(Totals(W), Keys)
               /\ BytesLeft(D) = Sum(Bytes(W), Keys)
               /\ PiecesLeft(D) \in 0 .. MaxPendingPieces
               /\ BytesLeft(D) \in 0 .. MaxPendingBytes
<1> DEFINE W == Without(D)
<1>1. \A k \in Keys : W[k] = IF k \in D THEN NoMerge ELSE merges[k]
  BY DEF Without
<1>2. \A k \in Keys : W[k] \in Merge /\ MergeExact(W[k])
  BY <1>1, NoMergeExact DEF IInv, TypeOK, MergesExact
<1>3. W \in [Keys -> Merge]
  BY <1>2 DEF Without
<1>4. Keys \cap D = D /\ IsFiniteSet(Keys)
  BY KeysFinite
<1>5. ASSUME NEW k \in Keys
      PROVE  /\ Totals(merges)[k] \in Nat /\ Bytes(merges)[k] \in Nat
             /\ Totals(W)[k] = IF k \in D THEN 0 ELSE Totals(merges)[k]
             /\ Bytes(W)[k] = IF k \in D THEN 0 ELSE Bytes(merges)[k]
  <2>1. merges[k].total \in Nat /\ merges[k].bytes \in Nat
    BY Limits DEF IInv, TypeOK, Merge
  <2>2. NoMerge.total = 0 /\ NoMerge.bytes = 0
    BY DEF NoMerge, NewMerge
  <2> HIDE DEF W
  <2> QED
    BY <1>1, <2>1, <2>2 DEF Totals, Bytes
<1>6. /\ Sum(Totals(merges), D) \in Nat /\ Sum(Totals(W), Keys) \in Nat
      /\ Sum(Totals(merges), Keys) = Sum(Totals(merges), D) + Sum(Totals(W), Keys)
  <2> DEFINE f == Totals(merges)
             g == Totals(W)
  <2>1. \A k \in Keys : f[k] \in Nat /\ g[k] = IF k \in D THEN 0 ELSE f[k]
    BY <1>5
  <2> HIDE DEF f, g
  <2>2. /\ Sum(f, Keys \cap D) \in Nat /\ Sum(g, Keys) \in Nat
        /\ Sum(f, Keys) = Sum(f, Keys \cap D) + Sum(g, Keys)
    BY <1>4, <2>1, SumCleared
  <2> QED
    BY <1>4, <2>2 DEF f, g
<1>7. /\ Sum(Bytes(merges), D) \in Nat /\ Sum(Bytes(W), Keys) \in Nat
      /\ Sum(Bytes(merges), Keys) = Sum(Bytes(merges), D) + Sum(Bytes(W), Keys)
  <2> DEFINE f == Bytes(merges)
             g == Bytes(W)
  <2>1. \A k \in Keys : f[k] \in Nat /\ g[k] = IF k \in D THEN 0 ELSE f[k]
    BY <1>5
  <2> HIDE DEF f, g
  <2>2. /\ Sum(f, Keys \cap D) \in Nat /\ Sum(g, Keys) \in Nat
        /\ Sum(f, Keys) = Sum(f, Keys \cap D) + Sum(g, Keys)
    BY <1>4, <2>1, SumCleared
  <2> QED
    BY <1>4, <2>2 DEF f, g
<1>8. /\ PiecesLeft(D) = Sum(Totals(W), Keys)
      /\ PiecesLeft(D) \in 0 .. MaxPendingPieces
  <2> HIDE DEF W
  <2> QED
    BY <1>6, Limits DEF PiecesLeft, Minus, IInv, CountersExact, TypeOK
<1>9. /\ BytesLeft(D) = Sum(Bytes(W), Keys)
      /\ BytesLeft(D) \in 0 .. MaxPendingBytes
  <2> HIDE DEF W
  <2> QED
    BY <1>7, Limits DEF BytesLeft, BytesHeld, Minus, IInv, CountersExact, TypeOK
<1> QED
  BY <1>1, <1>2, <1>3, <1>8, <1>9

\* No peer gets more merges by a removal.
LEMMA RemovedLimited ==
    ASSUME PeerLimited, NEW W, NEW p \in Peers,
           \A k \in Keys : W[k] = NoMerge \/ W[k] = merges[k]
    PROVE  /\ IsFiniteSet({k \in KeysOf(p) : W[k].total > 0})
           /\ Cardinality({k \in KeysOf(p) : W[k].total > 0}) \in Nat
           /\ Cardinality({k \in KeysOf(p) : W[k].total > 0}) <= MaxTransactions
<1> DEFINE A == {k \in KeysOf(p) : merges[k].total > 0}
           B == {k \in KeysOf(p) : W[k].total > 0}
<1>1. B \subseteq A
  BY DEF NoMerge, NewMerge, Keys, KeysOf
<1>2. IsFiniteSet(A)
  BY KeysFinite, FS_Subset
<1>3. /\ IsFiniteSet(B) /\ Cardinality(B) \in Nat /\ Cardinality(A) \in Nat
      /\ Cardinality(B) <= Cardinality(A)
  BY <1>1, <1>2, FS_Subset, FS_CardinalityType
<1>4. Cardinality(A) <= MaxTransactions
  BY DEF PeerLimited
<1> HIDE DEF A, B
<1>5. IsFiniteSet(B) /\ Cardinality(B) \in Nat /\ Cardinality(B) <= MaxTransactions
  BY <1>3, <1>4, Limits
<1> QED
  BY <1>5 DEF B

\* Every step that removes merges, with the peers whose merges are all gone.
LEMMA RemoveInv ==
    ASSUME IInv, NEW D \in SUBSET Keys, Remove(D), present' \subseteq present,
           \A k \in Keys : k[1] \in present \ present' => k \in D
    PROVE  IInv'
<1>1. merges' = Without(D) /\ pendingPieces' = PiecesLeft(D) /\ pendingBytes' = BytesLeft(D)
  BY DEF Remove
<1>2. /\ merges' \in [Keys -> Merge]
      /\ \A k \in Keys : merges'[k] = NoMerge \/ merges'[k] = merges[k]
      /\ \A k \in Keys : MergeExact(merges'[k])
      /\ pendingPieces' = Sum(Totals(merges'), Keys)
      /\ pendingBytes' = Sum(Bytes(merges'), Keys)
      /\ pendingPieces' \in 0 .. MaxPendingPieces
      /\ pendingBytes' \in 0 .. MaxPendingBytes
  BY <1>1, RemovedExact
<1>3. TypeOK'
  BY <1>2 DEF IInv, TypeOK
<1>4. MergesExact' /\ CountersExact'
  BY <1>2 DEF MergesExact, CountersExact
<1>5. PeerLimited'
  <2>1. PeerLimited
    BY DEF IInv
  <2> QED
    BY <1>2, <2>1, RemovedLimited DEF PeerLimited
<1>6. OnlyPresent'
  <2>1. \A k \in Keys : k \in D => merges'[k].total = 0
    BY <1>1 DEF Without, NoMerge, NewMerge
  <2>2. NoMerge.total = 0
    BY DEF NoMerge, NewMerge
  <2> QED
    BY <1>2, <2>1, <2>2 DEF OnlyPresent, IInv
<1> QED
  BY <1>3, <1>4, <1>5, <1>6 DEF IInv

-----------------------------------------------------------------------------
(* Merging a piece.                                                        *)

\* The merges with r in the place of k's, as merge_packet leaves them.
With(k, r) == [Without(Expired) EXCEPT ![k] = r]

\* The merge a piece was stored in, and the counters that go with it.
LEMMA MergedExact ==
    ASSUME IInv, NEW k \in Keys, NEW n \in 2 .. MaxPieces, NEW i \in 0 .. n - 1,
           NEW s \in Nat, Accepted(k, n, i, s)
    PROVE  LET r == Merged(k, n, i, s)
               V == With(k, r)
           IN  /\ r \in Merge /\ r.total = n
               /\ r.received # n => MergeExact(r)
               /\ PiecesWith(k, n) = Sum(Totals(V), Keys)
               /\ BytesWith(k, i, s) = Sum(Bytes(V), Keys)
               /\ PiecesWith(k, n) \in 0 .. MaxPendingPieces
               /\ BytesWith(k, i, s) \in 0 .. MaxPendingBytes
<1> DEFINE W == Without(Expired)
           o == Opened(W[k], n)
           r == Merged(k, n, i, s)
           V == With(k, r)
           prev == LengthOf(W[k].pieces[i])
<1>1. Expired \in SUBSET Keys
  BY DEF Expired
<1>2. /\ W \in [Keys -> Merge]
      /\ \A x \in Keys : W[x] \in Merge /\ MergeExact(W[x])
      /\ PiecesLeft(Expired) = Sum(Totals(W), Keys)
      /\ BytesLeft(Expired) = Sum(Bytes(W), Keys)
      /\ PiecesLeft(Expired) \in 0 .. MaxPendingPieces
      /\ BytesLeft(Expired) \in 0 .. MaxPendingBytes
  BY <1>1, RemovedExact
<1>3. /\ SameCount(W[k], n)
      /\ W[k].total = 0 => PiecesLeft(Expired) + n <= MaxPendingPieces
      /\ Minus(BytesLeft(Expired), prev) + s <= MaxPendingBytes
  BY DEF Accepted, BytesAllowed
<1>4. /\ o \in Merge /\ MergeExact(o) /\ o.total = n
      /\ o.bytes = W[k].bytes /\ o.pieces = W[k].pieces
  BY <1>2, <1>3, OpenedExact
<1>5. r = Stored(o, i, s)
  BY DEF Merged
<1>6. /\ r \in Merge /\ r.total = n
      /\ r.received # n => MergeExact(r)
      /\ prev <= W[k].bytes /\ r.bytes = W[k].bytes - prev + s
  <2>1. Stored(o, i, s).total = o.total
    BY DEF Stored
  <2> HIDE DEF o, r, W
  <2> QED
    BY <1>4, <1>5, <2>1, StoredExact
<1>7. V = [x \in Keys |-> IF x = k THEN r ELSE W[x]]
  BY <1>2 DEF With
<1>8. ASSUME NEW x \in Keys
      PROVE  /\ Totals(W)[x] = W[x].total /\ Totals(V)[x] = V[x].total
             /\ Bytes(W)[x] = W[x].bytes /\ Bytes(V)[x] = V[x].bytes
             /\ W[x].total \in Nat /\ W[x].bytes \in Nat
             /\ V[x].total \in Nat /\ V[x].bytes \in Nat
             /\ x # k => V[x] = W[x]
  <2>1. V[x] \in Merge /\ W[x] \in Merge /\ (x # k => V[x] = W[x])
    BY <1>2, <1>6, <1>7
  <2> HIDE DEF V, W
  <2> QED
    BY <2>1, Limits DEF Totals, Bytes, Merge
<1>9. V[k] = r
  BY <1>7
<1> HIDE DEF V, W, r, o, prev
<1>10. /\ Totals(W)[k] <= Sum(Totals(W), Keys)
       /\ Sum(Totals(V), Keys) = Sum(Totals(W), Keys) - Totals(W)[k] + Totals(V)[k]
  <2> DEFINE f == Totals(W)
             g == Totals(V)
  <2>1. /\ \A x \in Keys : f[x] \in Nat /\ g[x] \in Nat
        /\ \A x \in Keys \ {k} : g[x] = f[x]
    BY <1>8
  <2> HIDE DEF f, g
  <2>2. f[k] <= Sum(f, Keys) /\ Sum(g, Keys) = Sum(f, Keys) - f[k] + g[k]
    BY <2>1, KeysFinite, SumChanged
  <2> QED
    BY <2>2 DEF f, g
<1>11. /\ Bytes(W)[k] <= Sum(Bytes(W), Keys)
       /\ Sum(Bytes(V), Keys) = Sum(Bytes(W), Keys) - Bytes(W)[k] + Bytes(V)[k]
  <2> DEFINE f == Bytes(W)
             g == Bytes(V)
  <2>1. /\ \A x \in Keys : f[x] \in Nat /\ g[x] \in Nat
        /\ \A x \in Keys \ {k} : g[x] = f[x]
    BY <1>8
  <2> HIDE DEF f, g
  <2>2. f[k] <= Sum(f, Keys) /\ Sum(g, Keys) = Sum(f, Keys) - f[k] + g[k]
    BY <2>1, KeysFinite, SumChanged
  <2> QED
    BY <2>2 DEF f, g
<1>12. /\ PiecesWith(k, n) = Sum(Totals(V), Keys)
       /\ PiecesWith(k, n) \in 0 .. MaxPendingPieces
  <2>1. PiecesWith(k, n) = PiecesLeft(Expired) + IF W[k].total = 0 THEN n ELSE 0
    BY DEF PiecesWith, Declared, W
  <2>2. W[k].total \in {0, n} /\ n \in Nat
    BY <1>3 DEF SameCount
  <2>3. Totals(W)[k] = W[k].total /\ Totals(V)[k] = n
    BY <1>6, <1>8, <1>9
  <2> QED
    BY <1>2, <1>3, <1>10, <2>1, <2>2, <2>3, Limits
<1>13. /\ BytesWith(k, i, s) = Sum(Bytes(V), Keys)
       /\ BytesWith(k, i, s) \in 0 .. MaxPendingBytes
  <2>1. BytesWith(k, i, s) = Minus(BytesLeft(Expired), prev) + s
    BY DEF BytesWith, W, prev
  <2>2. Bytes(W)[k] = W[k].bytes /\ Bytes(V)[k] = r.bytes /\ W[k].bytes \in Nat
    BY <1>8, <1>9
  <2>3. prev \in Nat
    <3>1. i \in Indices
      BY Limits DEF Indices
    <3> QED
      BY <1>2, <3>1, LengthNat DEF prev
  <2> QED
    BY <1>2, <1>3, <1>6, <1>11, <2>1, <2>2, <2>3, Limits DEF Minus
<1> QED
  BY <1>6, <1>12, <1>13 DEF V, r

\* The step that stores a piece, whether or not it completes its merge: k's
\* merge becomes r, which is either the merge with the piece or none.
LEMMA MergeInv ==
    ASSUME IInv, NEW k \in Keys, NEW n \in 2 .. MaxPieces, NEW i \in 0 .. n - 1,
           NEW s \in Sizes, Piece(k, n, i, s) \/ LastPiece(k, n, i, s)
    PROVE  IInv'
<1> DEFINE W == Without(Expired)
           r == Merged(k, n, i, s)
           V == With(k, r)
<1>1. s \in Nat /\ Accepted(k, n, i, s) /\ k[1] \in present /\ present' = present
  BY SizesNat DEF Piece, LastPiece
<1>2. /\ r \in Merge /\ r.total = n
      /\ r.received # n => MergeExact(r)
      /\ PiecesWith(k, n) = Sum(Totals(V), Keys)
      /\ BytesWith(k, i, s) = Sum(Bytes(V), Keys)
      /\ PiecesWith(k, n) \in 0 .. MaxPendingPieces
      /\ BytesWith(k, i, s) \in 0 .. MaxPendingBytes
  BY <1>1, MergedExact
<1>3. /\ W \in [Keys -> Merge]
      /\ \A x \in Keys : W[x] \in Merge /\ MergeExact(W[x])
      /\ \A x \in Keys : W[x] = NoMerge \/ W[x] = merges[x]
  <2>1. Expired \in SUBSET Keys
    BY DEF Expired
  <2> QED
    BY <2>1, RemovedExact
<1>4. V \in [Keys -> Merge] /\ V[k] = r /\ \A x \in Keys \ {k} : V[x] = W[x]
  BY <1>2, <1>3 DEF With
<1>5. ASSUME NEW X, X \in [Keys -> Merge], \A x \in Keys \ {k} : X[x] = W[x],
             W[k].total = 0 => MayOpen(W, k[1]),
             NEW q \in Peers
      PROVE  Cardinality({x \in KeysOf(q) : X[x].total > 0}) <= MaxTransactions
  <2> DEFINE A == {x \in KeysOf(q) : W[x].total > 0}
             B == {x \in KeysOf(q) : X[x].total > 0}
  <2>1. IsFiniteSet(A) /\ Cardinality(A) \in Nat /\ Cardinality(A) <= MaxTransactions
    <3>1. PeerLimited
      BY DEF IInv
    <3> HIDE DEF W
    <3> QED
      BY <1>3, <3>1, RemovedLimited
  <2>2. CASE k \in KeysOf(q) /\ W[k].total = 0
    <3>1. q = k[1]
      BY <2>2 DEF KeysOf
    <3>2. Cardinality(A) < MaxTransactions
      BY <1>5, <2>2, <3>1 DEF MayOpen
    <3>3. B \subseteq A \cup {k}
      BY <1>5 DEF KeysOf, Keys
    <3> HIDE DEF A, B
    <3>4. IsFiniteSet(A \cup {k}) /\ Cardinality(A \cup {k}) <= Cardinality(A) + 1
      <4>1. /\ IsFiniteSet(A \cup {k})
            /\ Cardinality(A \cup {k}) =
                  IF k \in A THEN Cardinality(A) ELSE Cardinality(A) + 1
        BY <2>1, FS_AddElement
      <4> QED
        BY <2>1, <4>1
    <3>5. Cardinality(B) <= Cardinality(A \cup {k}) /\ Cardinality(B) \in Nat
          /\ Cardinality(A \cup {k}) \in Nat
      BY <3>3, <3>4, FS_Subset, FS_CardinalityType
    <3>6. Cardinality(B) <= MaxTransactions
      BY <2>1, <3>2, <3>4, <3>5, Limits
    <3> QED
      BY <3>6 DEF B
  <2>3. CASE ~(k \in KeysOf(q) /\ W[k].total = 0)
    <3>1. B \subseteq A
      <4>1. \A x \in Keys : W[x].total \in Nat
        BY <1>3, Limits DEF Merge
      <4> HIDE DEF W
      <4> QED
        BY <1>5, <2>3, <4>1 DEF KeysOf, Keys
    <3> HIDE DEF A, B
    <3>2. Cardinality(B) <= Cardinality(A) /\ Cardinality(B) \in Nat
      BY <2>1, <3>1, FS_Subset, FS_CardinalityType
    <3>3. Cardinality(B) <= MaxTransactions
      BY <2>1, <3>2, Limits
    <3> QED
      BY <3>3 DEF B
  <2> QED
    BY <2>2, <2>3
<1>6. W[k].total = 0 => MayOpen(W, k[1])
  BY <1>1 DEF Accepted
<1>7. merges' \in [Keys -> Merge] /\ \A x \in Keys \ {k} : merges'[x] = W[x]
  BY <1>3, <1>4, NoMergeExact DEF Piece, LastPiece, With
<1>8. PeerLimited'
  <2> HIDE DEF W, V, r
  <2> QED
    BY <1>5, <1>6, <1>7 DEF PeerLimited
<1>9. OnlyPresent'
  <2>1. NoMerge.total = 0
    BY DEF NoMerge, NewMerge
  <2> HIDE DEF W, V, r
  <2> QED
    BY <1>1, <1>3, <1>7, <2>1 DEF OnlyPresent, IInv
<1>10. CASE Piece(k, n, i, s)
  <2>1. merges' = V /\ r.received # n /\ pendingPieces' = PiecesWith(k, n)
        /\ pendingBytes' = BytesWith(k, i, s)
    BY <1>10 DEF Piece, With
  <2> HIDE DEF W, V, r
  <2>2. TypeOK' /\ CountersExact'
    BY <1>1, <1>2, <1>7, <2>1 DEF TypeOK, CountersExact, IInv
  <2>3. MergesExact'
    BY <1>2, <1>3, <1>4, <2>1 DEF MergesExact
  <2> QED
    BY <1>8, <1>9, <2>2, <2>3 DEF IInv
<1>11. CASE LastPiece(k, n, i, s)
  <2> DEFINE M == merges'
  <2>1. /\ M = [W EXCEPT ![k] = NoMerge]
        /\ pendingPieces' = Minus(PiecesWith(k, n), r.total)
        /\ pendingBytes' = Minus(BytesWith(k, i, s), r.bytes)
    BY <1>11 DEF LastPiece
  <2>2. M[k] = NoMerge /\ \A x \in Keys \ {k} : M[x] = V[x]
    BY <1>3, <1>4, <2>1
  <2>3. MergesExact'
    <3> HIDE DEF W, V, r
    <3> QED
      BY <1>3, <1>4, <2>2, NoMergeExact DEF MergesExact
  <2>4. ASSUME NEW x \in Keys
        PROVE  /\ Totals(V)[x] = V[x].total /\ Totals(M)[x] = M[x].total
               /\ Bytes(V)[x] = V[x].bytes /\ Bytes(M)[x] = M[x].bytes
               /\ V[x].total \in Nat /\ V[x].bytes \in Nat
               /\ M[x].total \in Nat /\ M[x].bytes \in Nat
    <3>1. V[x] \in Merge /\ M[x] \in Merge
      BY <1>4, <1>7
    <3> HIDE DEF V, M
    <3> QED
      BY <3>1, Limits DEF Totals, Bytes, Merge
  <2>5. M[k].total = 0 /\ M[k].bytes = 0 /\ V[k] = r
    BY <1>4, <2>2 DEF NoMerge, NewMerge
  <2> HIDE DEF W, V, M, r
  <2>6. /\ Totals(V)[k] <= Sum(Totals(V), Keys)
        /\ Sum(Totals(M), Keys) = Sum(Totals(V), Keys) - Totals(V)[k] + Totals(M)[k]
    <3> DEFINE f == Totals(V)
               g == Totals(M)
    <3>1. /\ \A x \in Keys : f[x] \in Nat /\ g[x] \in Nat
          /\ \A x \in Keys \ {k} : g[x] = f[x]
      BY <2>2, <2>4
    <3> HIDE DEF f, g
    <3>2. f[k] <= Sum(f, Keys) /\ Sum(g, Keys) = Sum(f, Keys) - f[k] + g[k]
      BY <3>1, KeysFinite, SumChanged
    <3> QED
      BY <3>2 DEF f, g
  <2>7. /\ Bytes(V)[k] <= Sum(Bytes(V), Keys)
        /\ Sum(Bytes(M), Keys) = Sum(Bytes(V), Keys) - Bytes(V)[k] + Bytes(M)[k]
    <3> DEFINE f == Bytes(V)
               g == Bytes(M)
    <3>1. /\ \A x \in Keys : f[x] \in Nat /\ g[x] \in Nat
          /\ \A x \in Keys \ {k} : g[x] = f[x]
      BY <2>2, <2>4
    <3> HIDE DEF f, g
    <3>2. f[k] <= Sum(f, Keys) /\ Sum(g, Keys) = Sum(f, Keys) - f[k] + g[k]
      BY <3>1, KeysFinite, SumChanged
    <3> QED
      BY <3>2 DEF f, g
  <2>8. /\ pendingPieces' = Sum(Totals(M), Keys) /\ pendingPieces' \in 0 .. MaxPendingPieces
        /\ pendingBytes' = Sum(Bytes(M), Keys) /\ pendingBytes' \in 0 .. MaxPendingBytes
    <3>1. /\ Totals(V)[k] = r.total /\ Bytes(V)[k] = r.bytes
          /\ Totals(M)[k] = 0 /\ Bytes(M)[k] = 0
          /\ r.total \in Nat /\ r.bytes \in Nat
      BY <2>4, <2>5
    <3> QED
      BY <1>2, <2>1, <2>6, <2>7, <3>1, Limits DEF Minus
  <2>9. TypeOK' /\ CountersExact'
    BY <1>1, <1>7, <2>8 DEF TypeOK, CountersExact, IInv, M
  <2> QED
    BY <1>8, <1>9, <2>3, <2>9 DEF IInv
<1> QED
  BY <1>10, <1>11

-----------------------------------------------------------------------------
(* The other steps and the theorems.                                       *)

LEMMA InitInv ==
    ASSUME Init
    PROVE  IInv
<1>1. \A k \in Keys : merges[k] = NoMerge
  BY DEF Init
<1>2. NoMerge.total = 0 /\ NoMerge.bytes = 0
  BY DEF NoMerge, NewMerge
<1>3. TypeOK
  BY NoMergeExact, Limits DEF Init, TypeOK
<1>4. MergesExact
  BY <1>1, NoMergeExact DEF MergesExact
<1>5. CountersExact
  <2>1. \A k \in Keys : Totals(merges)[k] = 0 /\ Bytes(merges)[k] = 0
    BY <1>1, <1>2 DEF Totals, Bytes
  <2> QED
    BY <2>1, SumOfNothing DEF Init, CountersExact
<1>6. ASSUME NEW p \in Peers
      PROVE  Cardinality({k \in KeysOf(p) : merges[k].total > 0}) <= MaxTransactions
  <2>1. {k \in KeysOf(p) : merges[k].total > 0} = {}
    BY <1>1, <1>2 DEF KeysOf, Keys
  <2> QED
    BY <2>1, FS_EmptySet, Limits
<1>7. OnlyPresent
  BY <1>1, <1>2 DEF OnlyPresent
<1> QED
  BY <1>3, <1>4, <1>5, <1>6, <1>7 DEF IInv, PeerLimited

\* Time changes nothing the invariant is about but the ages.
LEMMA ElapseInv ==
    ASSUME IInv, Elapse
    PROVE  IInv'
<1>1. ASSUME NEW k \in Keys
      PROVE  /\ merges'[k] \in Merge
             /\ merges'[k].total = merges[k].total /\ merges'[k].bytes = merges[k].bytes
             /\ merges'[k].pieces = merges[k].pieces
             /\ merges'[k].received = merges[k].received
             /\ merges'[k].first <=> merges[k].first
  BY Limits DEF Elapse, IInv, TypeOK, Merge
<1>2. merges' \in [Keys -> Merge]
  BY <1>1 DEF Elapse
<1>3. TypeOK'
  BY <1>2 DEF Elapse, IInv, TypeOK
<1>4. MergesExact'
  <2>1. \A k \in Keys : /\ Arrived(merges'[k]) = Arrived(merges[k])
                        /\ Lengths(merges'[k]) = Lengths(merges[k])
    BY <1>1 DEF Arrived, Lengths
  <2> QED
    BY <1>1, <2>1 DEF IInv, MergesExact, MergeExact
<1>5. CountersExact'
  <2>1. Totals(merges') = Totals(merges) /\ Bytes(merges') = Bytes(merges)
    BY <1>1 DEF Totals, Bytes
  <2> QED
    BY <2>1 DEF IInv, CountersExact, Elapse
<1>6. PeerLimited'
  <2>1. \A p \in Peers : {k \in KeysOf(p) : merges'[k].total > 0}
                            = {k \in KeysOf(p) : merges[k].total > 0}
    BY <1>1 DEF KeysOf, Keys
  <2> QED
    BY <2>1 DEF IInv, PeerLimited
<1>7. OnlyPresent'
  BY <1>1 DEF IInv, OnlyPresent, Elapse
<1> QED
  BY <1>3, <1>4, <1>5, <1>6, <1>7 DEF IInv

LEMMA NextInv ==
    ASSUME IInv, [Next]_vars
    PROVE  IInv'
<1>1. ASSUME NEW k \in Keys, NEW n \in 2 .. MaxPieces, NEW s \in Sizes,
             NEW i \in 0 .. n - 1, Piece(k, n, i, s) \/ LastPiece(k, n, i, s)
      PROVE  IInv'
  BY <1>1, MergeInv
<1>2. ASSUME NEW k \in Keys, NEW n, NEW s, NEW i, Refused(k, n, i, s)
      PROVE  IInv'
  <2>1. Expired \cup Forgotten(k[1]) \in SUBSET Keys
    BY DEF Expired, Forgotten, KeysOf, Keys
  <2>2. \A x \in Keys : x[1] \in present \ present' => x \in Forgotten(k[1])
    BY <1>2 DEF Refused, Forgotten, KeysOf, Keys
  <2> QED
    BY <1>2, <2>1, <2>2, RemoveInv DEF Refused
<1>3. ASSUME NEW p \in Peers, Arrive(p)
      PROVE  IInv'
  BY <1>3 DEF Arrive, IInv, TypeOK, MergesExact, CountersExact, PeerLimited, OnlyPresent
<1>4. ASSUME NEW p \in Peers, Depart(p)
      PROVE  IInv'
  <2>1. Forgotten(p) \in SUBSET Keys
    BY DEF Forgotten, KeysOf, Keys
  <2>2. \A x \in Keys : x[1] \in present \ present' => x \in Forgotten(p)
    BY <1>4 DEF Depart, Forgotten, KeysOf, Keys
  <2> QED
    BY <1>4, <2>1, <2>2, RemoveInv DEF Depart
<1>5. ASSUME Clean PROVE IInv'
  <2>1. Expired \in SUBSET Keys
    BY DEF Expired
  <2> QED
    BY <1>5, <2>1, RemoveInv DEF Clean
<1>6. ASSUME UNCHANGED vars PROVE IInv'
  BY <1>6 DEF vars, IInv, TypeOK, MergesExact, CountersExact, PeerLimited, OnlyPresent
<1> QED
  BY <1>1, <1>2, <1>3, <1>4, <1>5, <1>6, ElapseInv DEF Next, Fragment

THEOREM Invariance == Spec => []IInv
<1>1. Init => IInv
  BY InitInv
<1>2. IInv /\ [Next]_vars => IInv'
  BY NextInv
<1> QED
  BY <1>1, <1>2, PTL DEF Spec

\* Every variable keeps its type and the two counters stay within the limits
\* merge_packet tests, whatever the limits are.
THEOREM MergeTypeCorrect == Spec => []TypeOK
<1>1. IInv => TypeOK
  BY DEF IInv
<1> QED
  BY <1>1, Invariance, PTL

\* The counters of pending pieces and bytes are exact, so merge_packet,
\* remove_pending and remove_peer never leak capacity.
THEOREM CapacityGivenBack == Spec => []CountersExact
<1>1. IInv => CountersExact
  BY DEF IInv
<1> QED
  BY <1>1, Invariance, PTL

\* Every merge is exact and incomplete, so the errors after the last piece
\* cannot be met.
THEOREM MergesNeverIncomplete == Spec => []MergesExact
<1>1. IInv => MergesExact
  BY DEF IInv
<1> QED
  BY <1>1, Invariance, PTL

\* Neither both global limits nor MAX_PENDING_TRANSACTIONS_PER_PEER are ever
\* exceeded, and remove_peer leaves no fragment of a peer behind.
THEOREM PeersLimited == Spec => []LimitsKept
<1>1. IInv => LimitsKept
  BY DEF IInv, LimitsKept
<1> QED
  BY <1>1, Invariance, PTL

\* An expired merge is gone before a piece is looked at, in every step.
LEMMA LateStep ==
    ASSUME IInv, [Next]_vars, NEW k \in Keys, merges[k].total > 0, merges[k].age >= TTL
    PROVE  /\ ~Completes(k)
           /\ merges'[k] \in {merges[k], NoMerge} \/ merges'[k].received = 1
<1>1. k \in Expired
  BY DEF Expired
<1>2. NoMerge.total = 0
  BY DEF NoMerge, NewMerge
<1>3. Without(Expired) \in [Keys -> Merge] /\ Without(Expired)[k] = NoMerge
  <2>1. Expired \in SUBSET Keys
    BY DEF Expired
  <2> QED
    BY <1>1, <2>1, RemovedExact DEF Without
\* A piece for k begins a merge of its own, which it does not complete.
<1>4. ASSUME NEW n \in 2 .. MaxPieces, NEW s \in Sizes, NEW i \in 0 .. n - 1
      PROVE  Merged(k, n, i, s).received = 1
  <2>1. Merged(k, n, i, s) = Stored(NewMerge(n), i, s)
    BY <1>2, <1>3 DEF Merged, Opened
  <2>2. NewMerge(n).received = 0 /\ NewMerge(n).pieces[i] = NoPiece
    BY Limits DEF NewMerge, NoPieces, Indices
  <2> QED
    BY <2>1, <2>2 DEF Stored, CountsAsNew
<1>5. ASSUME NEW n \in 2 .. MaxPieces, NEW s \in Sizes, NEW i \in 0 .. n - 1,
             LastPiece(k, n, i, s)
      PROVE  FALSE
  BY <1>4, <1>5 DEF LastPiece
<1>6. ~Completes(k)
  BY <1>5 DEF Completes
<1>7. ASSUME NEW x \in Keys, NEW n \in 2 .. MaxPieces, NEW s \in Sizes,
             NEW i \in 0 .. n - 1, Piece(x, n, i, s) \/ LastPiece(x, n, i, s)
      PROVE  merges'[k] = NoMerge \/ merges'[k].received = 1
  <2>1. CASE x # k
    BY <1>3, <1>7, <2>1 DEF Piece, LastPiece
  <2>2. CASE x = k
    BY <1>3, <1>4, <1>5, <1>7, <2>2 DEF Piece
  <2> QED
    BY <2>1, <2>2
<1>8. ASSUME NEW D \in SUBSET Keys, Remove(D)
      PROVE  merges'[k] = merges[k] \/ merges'[k] = NoMerge
  BY <1>8 DEF Remove, Without
<1>9. ASSUME NEW x \in Keys, NEW n, NEW s, NEW i, Refused(x, n, i, s)
      PROVE  merges'[k] = merges[k] \/ merges'[k] = NoMerge
  BY <1>8, <1>9 DEF Refused, Expired, Forgotten, KeysOf, Keys
<1>10. ASSUME NEW p \in Peers, Arrive(p) \/ Depart(p)
       PROVE  merges'[k] = merges[k] \/ merges'[k] = NoMerge
  BY <1>8, <1>10 DEF Arrive, Depart, Forgotten, KeysOf, Keys
<1>11. ASSUME Clean
       PROVE  merges'[k] = merges[k] \/ merges'[k] = NoMerge
  BY <1>8, <1>11 DEF Clean, Expired
<1>12. ASSUME Elapse
       PROVE  merges'[k] = merges[k]
  <2>1. merges[k].age \in 0 .. TTL
    BY DEF IInv, TypeOK, Merge
  <2> QED
    BY <1>12, <2>1, Limits DEF Elapse
<1>13. CASE UNCHANGED vars
  BY <1>6, <1>13 DEF vars
<1> QED
  BY <1>6, <1>7, <1>9, <1>10, <1>11, <1>12, <1>13 DEF Next, Fragment

\* No piece is joined to a merge that has outlived RPC_FRAGMENT_TTL_MS, and none
\* completes its message.
THEOREM NeverJoinedLate == Spec => NoLateJoin
<1>1. IInv /\ [Next]_vars =>
        [\A k \in Keys : merges[k].total > 0 /\ merges[k].age >= TTL =>
              /\ ~Completes(k)
              /\ \/ merges'[k] \in {merges[k], NoMerge}
                 \/ merges'[k].received = 1]_vars
  BY LateStep
<1> QED
  BY <1>1, Invariance, PTL DEF Spec, NoLateJoin
=============================================================================

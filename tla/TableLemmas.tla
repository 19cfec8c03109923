---------------------------- MODULE TableLemmas ----------------------------
(***************************************************************************)
(* Facts about tables that the proofs about the engine rest on: finite     *)
(* sets of integers have a least and a greatest element, so non-empty      *)
(* tables have key bounds; and the chunks a merged table is split into     *)
(* are non-empty tables in increasing, disjoint key ranges.                *)
(***************************************************************************)
EXTENDS Tables, FiniteSetTheorems, SequenceTheorems, WellFoundedInduction, TLAPS

-----------------------------------------------------------------------------
(* Least and greatest elements.                                            *)

\* A non-empty set of natural numbers has a least element.
LEMMA NatLeast ==
    ASSUME NEW T, T \subseteq Nat, T # {}
    PROVE  \E x \in T : \A y \in T : x <= y
<1> DEFINE R == OpToRel(<, Nat)
<1>1. IsWellFoundedOn(R, Nat)
    BY NatLessThanWellFounded
<1>2. \A x, y \in Nat : y < x => <<y, x>> \in R
    BY DEF OpToRel
<1> HIDE DEF R
<1>3. \E x \in T : \A y \in T : ~(<<y, x>> \in R)
    BY <1>1, WFMin
<1>4. \A x \in T : x \in Nat
    OBVIOUS
<1>5. \E x \in T : \A y \in T : ~(y < x)
    BY <1>2, <1>3, <1>4
<1> QED  BY <1>4, <1>5

\* A finite non-empty set of integers has a least and a greatest element, and
\* Min and Max choose them.
LEMMA FiniteMax ==
    ASSUME NEW S \in SUBSET Int, IsFiniteSet(S), S # {}
    PROVE  Max(S) \in S /\ \A y \in S : Max(S) >= y
<1> DEFINE Above(k) == {j \in S : j > k}
           T == {Cardinality(Above(k)) : k \in S}
<1>0. \A x \in S : x \in Int
    OBVIOUS
<1>1. \A k \in S : IsFiniteSet(Above(k)) /\ Cardinality(Above(k)) \in Nat
    BY FS_Subset, FS_CardinalityType
<1>2. T \subseteq Nat /\ T # {}
    BY <1>1
<1>3. PICK n \in T : \A m \in T : n <= m
    BY <1>2, NatLeast
<1>4. PICK k \in S : n = Cardinality(Above(k))
    BY <1>3
<1>5. ASSUME NEW j \in S, j > k  PROVE FALSE
    <2>1. Above(j) \subseteq Above(k) /\ j \in Above(k) /\ j \notin Above(j)
        BY <1>0, <1>4, <1>5
    <2>2. Cardinality(Above(j)) < Cardinality(Above(k))
        <3> HIDE DEF Above
        <3>1. /\ Cardinality(Above(j)) <= Cardinality(Above(k))
              /\ Cardinality(Above(k)) = Cardinality(Above(j)) => Above(k) = Above(j)
            BY <1>1, <2>1, FS_Subset
        <3> QED  BY <1>1, <2>1, <3>1
    <2>3. n <= Cardinality(Above(j))
        BY <1>3
    <2> QED
        <3> HIDE DEF Above
        <3> QED  BY <1>1, <1>4, <2>2, <2>3
<1>6. \A y \in S : k >= y
    BY <1>0, <1>5
<1> QED  BY <1>6 DEF Max

\* A finite non-empty set of integers has its Min as a least member.
LEMMA FiniteMin ==
    ASSUME NEW S \in SUBSET Int, IsFiniteSet(S), S # {}
    PROVE  Min(S) \in S /\ \A y \in S : Min(S) <= y
<1> DEFINE Below(k) == {j \in S : j < k}
           T == {Cardinality(Below(k)) : k \in S}
<1>0. \A x \in S : x \in Int
    OBVIOUS
<1>1. \A k \in S : IsFiniteSet(Below(k)) /\ Cardinality(Below(k)) \in Nat
    BY FS_Subset, FS_CardinalityType
<1>2. T \subseteq Nat /\ T # {}
    BY <1>1
<1>3. PICK n \in T : \A m \in T : n <= m
    BY <1>2, NatLeast
<1>4. PICK k \in S : n = Cardinality(Below(k))
    BY <1>3
<1>5. ASSUME NEW j \in S, j < k  PROVE FALSE
    <2>1. Below(j) \subseteq Below(k) /\ j \in Below(k) /\ j \notin Below(j)
        BY <1>0, <1>4, <1>5
    <2>2. Cardinality(Below(j)) < Cardinality(Below(k))
        <3> HIDE DEF Below
        <3>1. /\ Cardinality(Below(j)) <= Cardinality(Below(k))
              /\ Cardinality(Below(k)) = Cardinality(Below(j)) => Below(k) = Below(j)
            BY <1>1, <2>1, FS_Subset
        <3> QED  BY <1>1, <2>1, <3>1
    <2>3. n <= Cardinality(Below(j))
        BY <1>3
    <2> QED
        <3> HIDE DEF Below
        <3> QED  BY <1>1, <1>4, <2>2, <2>3
<1>6. \A y \in S : k <= y
    BY <1>0, <1>5
<1> QED  BY <1>6 DEF Min

-----------------------------------------------------------------------------
(* Key bounds.                                                             *)

\* The keys of a table are a finite set of integers.
LEMMA TableKeys ==
    ASSUME NEW t
    PROVE  /\ KeysOf(t) \subseteq Keys
           /\ KeysOf(t) \subseteq Int
           /\ IsFiniteSet(KeysOf(t))
           /\ Size(t) \in Nat
           /\ KeysOf(t) # {} <=> Size(t) >= 1
<1>1. KeysOf(t) \subseteq Keys /\ KeysOf(t) \subseteq Int
    BY KeysAssumption DEF KeysOf
<1>2. IsFiniteSet(KeysOf(t))
    BY <1>1, KeysAssumption, FS_Subset
<1>3. Size(t) \in Nat /\ (Size(t) = 0 <=> KeysOf(t) = {})
    BY <1>2, FS_CardinalityType, FS_EmptySet DEF Size
<1> QED  BY <1>1, <1>2, <1>3

\* The bounds of a non-empty table are keys of it.
LEMMA TableBounds ==
    ASSUME NEW t, KeysOf(t) # {}
    PROVE  /\ MinKey(t) \in KeysOf(t)
           /\ MaxKey(t) \in KeysOf(t)
           /\ \A k \in KeysOf(t) : MinKey(t) <= k /\ k <= MaxKey(t)
<1>1. KeysOf(t) \subseteq Int /\ IsFiniteSet(KeysOf(t))
    BY TableKeys
<1>2. MinKey(t) \in KeysOf(t) /\ \A k \in KeysOf(t) : MinKey(t) <= k
    BY <1>1, FiniteMin DEF MinKey
<1>3. MaxKey(t) \in KeysOf(t) /\ \A k \in KeysOf(t) : MaxKey(t) >= k
    BY <1>1, FiniteMax DEF MaxKey
<1>4. \A k \in KeysOf(t) : k \in Int
    BY <1>1
<1> QED  BY <1>2, <1>3, <1>4

-----------------------------------------------------------------------------
(* Rank: the position of a key among the keys of a table.                  *)

\* The rank grows with the key, strictly at a key of the table.
LEMMA RankMonotone ==
    ASSUME NEW t, NEW k \in Int, NEW l \in Int
    PROVE  /\ Rank(t, k) \in 0 .. Size(t)
           /\ k <= l => Rank(t, k) <= Rank(t, l)
           /\ k < l /\ l \in KeysOf(t) => Rank(t, k) < Rank(t, l)
<1> DEFINE UpTo(x) == {j \in KeysOf(t) : j <= x}
<1>1. IsFiniteSet(KeysOf(t)) /\ \A j \in KeysOf(t) : j \in Int
    BY TableKeys
<1>2. ASSUME NEW x \in Int
      PROVE  /\ IsFiniteSet(UpTo(x))
             /\ Rank(t, x) = Cardinality(UpTo(x))
             /\ Rank(t, x) \in Nat
             /\ Rank(t, x) <= Size(t)
    BY <1>1, FS_Subset, FS_CardinalityType DEF Rank, Size
<1>3. k <= l => UpTo(k) \subseteq UpTo(l)
    BY <1>1
<1>4. k < l => l \notin UpTo(k)
    OBVIOUS
<1>5. l \in KeysOf(t) => l \in UpTo(l)
    OBVIOUS
<1> HIDE DEF UpTo
<1>6. ASSUME k <= l
      PROVE  /\ Cardinality(UpTo(k)) <= Cardinality(UpTo(l))
             /\ Cardinality(UpTo(l)) = Cardinality(UpTo(k)) => UpTo(l) = UpTo(k)
    BY <1>2, <1>3, <1>6, FS_Subset
<1>7. Size(t) \in Nat
    BY TableKeys
<1>8. k < l => k <= l
    OBVIOUS
<1> QED  BY <1>2, <1>4, <1>5, <1>6, <1>7, <1>8

\* Every position up to the size of a table is the rank of one of its keys.
LEMMA RankOnto ==
    ASSUME NEW t, NEW r \in 1 .. Size(t)
    PROVE  \E k \in KeysOf(t) : Rank(t, k) = r
<1> DEFINE S == {k \in KeysOf(t) : Rank(t, k) >= r}
           P(k) == {j \in KeysOf(t) : j < k}
<1>1. IsFiniteSet(KeysOf(t)) /\ KeysOf(t) \subseteq Int /\ Size(t) \in Nat
    BY TableKeys
<1>2. \A j \in KeysOf(t) : j \in Int
    BY <1>1
<1>3. S # {}
    <2>1. KeysOf(t) # {}
        BY <1>1, TableKeys
    <2>2. MaxKey(t) \in KeysOf(t) /\ \A j \in KeysOf(t) : j <= MaxKey(t)
        BY <2>1, TableBounds
    <2>3. {j \in KeysOf(t) : j <= MaxKey(t)} = KeysOf(t)
        BY <2>2
    <2>4. Rank(t, MaxKey(t)) = Size(t)
        BY <2>3 DEF Rank, Size
    <2> QED  BY <1>1, <2>2, <2>4
<1>4. S \subseteq Int /\ IsFiniteSet(S)
    BY <1>1, FS_Subset
<1>5. PICK k \in S : \A j \in S : k <= j
    BY <1>3, <1>4, FiniteMin
<1>6. k \in KeysOf(t) /\ k \in Int /\ Rank(t, k) >= r /\ Rank(t, k) \in Nat
    BY <1>2, <1>5, RankMonotone
<1>7. Rank(t, k) = Cardinality(P(k)) + 1 /\ IsFiniteSet(P(k)) /\ Cardinality(P(k)) \in Nat
    <2>1. IsFiniteSet(P(k)) /\ Cardinality(P(k)) \in Nat
        BY <1>1, FS_Subset, FS_CardinalityType
    <2>2. {j \in KeysOf(t) : j <= k} = P(k) \cup {k}
        <3>1. \A j \in KeysOf(t) : j <= k <=> j < k \/ j = k
            BY <1>2, <1>6
        <3> QED  BY <1>6, <3>1
    <2>3. k \notin P(k)
        BY <1>6
    <2>4. Cardinality(P(k) \cup {k}) = Cardinality(P(k)) + 1
        <3> HIDE DEF P
        <3> QED  BY <2>1, <2>3, FS_AddElement
    <2> QED  BY <2>1, <2>2, <2>4 DEF Rank
<1>8. ASSUME Cardinality(P(k)) >= r  PROVE FALSE
    <2>1. P(k) # {}
        <3> HIDE DEF P
        <3> QED  BY <1>7, <1>8, FS_EmptySet
    <2>2. P(k) \subseteq Int
        BY <1>1
    <2>3. PICK m \in P(k) : \A j \in P(k) : m >= j
        <3> HIDE DEF P
        <3> QED  BY <1>7, <2>1, <2>2, FiniteMax
    <2>4. m \in KeysOf(t) /\ m < k /\ m \in Int
        BY <1>2, <2>3
    <2>5. {j \in KeysOf(t) : j <= m} = P(k)
        <3>1. \A j \in KeysOf(t) : j < k => m >= j
            BY <2>3
        <3>2. \A j \in KeysOf(t) : j <= m <=> j < k
            BY <1>2, <1>6, <2>4, <3>1
        <3> QED  BY <3>2
    <2>6. Rank(t, m) >= r
        BY <1>8, <2>5 DEF Rank
    <2>7. k <= m
        BY <1>5, <2>4, <2>6
    <2> QED  BY <1>6, <2>4, <2>7
<1> QED
    <2> HIDE DEF P
    <2> QED  BY <1>6, <1>7, <1>8
-----------------------------------------------------------------------------
(* The chunks a merged table is split into.                                *)

\* The last of the chunks of n records starts within the table.
LEMMA ChunkStart ==
    ASSUME NEW n \in Nat, NEW i \in 1 .. (n + SegMax - 1) \div SegMax
    PROVE  /\ (i - 1) * SegMax + 1 \in 1 .. n
           /\ (i - 1) * SegMax < (i - 1) * SegMax + 1
           /\ (i - 1) * SegMax + 1 <= i * SegMax
<1> DEFINE q == (n + SegMax - 1) \div SegMax
<1>1. SegMax \in Nat /\ SegMax >= 1 /\ i \in Nat /\ i >= 1
    BY SegMaxAssumption
<1>2. q \in Int /\ q * SegMax <= n + SegMax - 1
    BY <1>1
<1>3. i <= q /\ q - i \in Nat
    BY <1>1, <1>2
<1> HIDE DEF q
<1>4. (q - i) * SegMax >= 0
    BY <1>1, <1>3
<1>5. i * SegMax <= q * SegMax
    BY <1>1, <1>2, <1>3, <1>4
<1>6. (i - 1) * SegMax = i * SegMax - SegMax
    BY <1>1
<1>7. (i - 1) * SegMax >= 0
    BY <1>1
<1>8. i * SegMax \in Int
    BY <1>1
<1> QED  BY <1>1, <1>2, <1>5, <1>6, <1>7, <1>8

\* A chunk holds the keys whose rank is in its range.
LEMMA ChunkKeys ==
    ASSUME NEW t \in Table, NEW i
    PROVE  /\ Chunk(t, i) \in Table
           /\ KeysOf(Chunk(t, i)) =
                {k \in KeysOf(t) : (i - 1) * SegMax < Rank(t, k) /\ Rank(t, k) <= i * SegMax}
BY DEF Chunk, KeysOf, Table

\* No chunk is empty, and every chunk lies wholly below the next ones.
ChunksOrdered(cs) ==
    /\ \A i \in 1 .. Len(cs) : KeysOf(cs[i]) # {}
    /\ \A i, j \in 1 .. Len(cs) : i < j => MaxKey(cs[i]) < MinKey(cs[j])

\* merged.chunks(segment_max_records) yields non-empty chunks of the merged
\* table in increasing key ranges.
THEOREM ChunksProper ==
    ASSUME NEW t \in Table
    PROVE  /\ Chunks(t) \in Seq(Table)
           /\ ChunksOrdered(Chunks(t))
           /\ \A i \in 1 .. Len(Chunks(t)) : KeysOf(Chunks(t)[i]) \subseteq KeysOf(t)
<1>1. Size(t) \in Nat /\ \A k \in KeysOf(t) : k \in Int
    BY TableKeys
<1>2. ChunkCount(t) \in Nat
    BY <1>1, SegMaxAssumption DEF ChunkCount
<1>3. /\ Chunks(t) \in Seq(Table)
      /\ Len(Chunks(t)) = ChunkCount(t)
      /\ \A i \in 1 .. ChunkCount(t) : Chunks(t)[i] = Chunk(t, i)
    <2>1. Chunks(t) \in [1 .. ChunkCount(t) -> Table]
        BY ChunkKeys DEF Chunks
    <2> QED  BY <1>2, <2>1 DEF Chunks
<1>4. ASSUME NEW i \in 1 .. ChunkCount(t)
      PROVE  KeysOf(Chunk(t, i)) # {}
    <2> DEFINE r == (i - 1) * SegMax + 1
    <2>1. r \in 1 .. Size(t) /\ (i - 1) * SegMax < r /\ r <= i * SegMax
        BY <1>1, ChunkStart DEF ChunkCount
    <2> HIDE DEF r
    <2>2. PICK k \in KeysOf(t) : Rank(t, k) = r
        BY <2>1, RankOnto
    <2> QED  BY <2>1, <2>2, ChunkKeys
<1>5. ASSUME NEW i \in 1 .. ChunkCount(t), NEW j \in 1 .. ChunkCount(t), i < j
      PROVE  MaxKey(Chunk(t, i)) < MinKey(Chunk(t, j))
    <2> DEFINE a == MaxKey(Chunk(t, i))
               b == MinKey(Chunk(t, j))
    <2>1. a \in KeysOf(Chunk(t, i)) /\ b \in KeysOf(Chunk(t, j))
        BY <1>4, TableBounds
    <2>2. /\ a \in Int /\ b \in Int
          /\ Rank(t, a) <= i * SegMax
          /\ (j - 1) * SegMax < Rank(t, b)
        BY <1>1, <2>1, ChunkKeys
    <2> HIDE DEF a, b
    <2>3. Rank(t, a) \in Nat /\ Rank(t, b) \in Nat /\ (b <= a => Rank(t, b) <= Rank(t, a))
        BY <1>1, <2>2, RankMonotone
    <2>4. i * SegMax \in Int /\ (j - 1) * SegMax \in Int /\ i * SegMax <= (j - 1) * SegMax
        <3>1. SegMax \in Nat /\ i \in Int /\ j \in Int /\ j - 1 - i \in Nat
            BY <1>2, <1>5, SegMaxAssumption
        <3>2. (j - 1 - i) * SegMax >= 0
            BY <3>1
        <3>3. (j - 1 - i) * SegMax = (j - 1) * SegMax - i * SegMax
            BY <3>1
        <3> QED  BY <3>1, <3>2, <3>3
    <2>5. a < b
        BY <2>2, <2>3, <2>4
    <2> QED  BY <2>5 DEF a, b
<1>6. \A i \in 1 .. ChunkCount(t) : KeysOf(Chunk(t, i)) \subseteq KeysOf(t)
    BY ChunkKeys
<1> QED  BY <1>3, <1>4, <1>5, <1>6 DEF ChunksOrdered

\* The chunk that record r of a table of n records falls into.
LEMMA ChunkOf ==
    ASSUME NEW n \in Nat, NEW r \in 1 .. n
    PROVE  \E i \in 1 .. (n + SegMax - 1) \div SegMax :
                (i - 1) * SegMax < r /\ r <= i * SegMax
<1> DEFINE q == (n + SegMax - 1) \div SegMax
           c == (r + SegMax - 1) \div SegMax
<1>1. SegMax \in Nat /\ SegMax >= 1 /\ r \in Nat /\ r >= 1 /\ r <= n
    BY SegMaxAssumption
<1>2. q \in Int /\ n + SegMax - 1 < q * SegMax + SegMax
    BY <1>1
<1>3. c \in Int /\ c * SegMax <= r + SegMax - 1 /\ r + SegMax - 1 < c * SegMax + SegMax
    BY <1>1
<1> HIDE DEF q, c
<1>4. c * SegMax \in Int /\ q * SegMax \in Int /\ (c - 1) * SegMax = c * SegMax - SegMax
    BY <1>1, <1>2, <1>3
<1>5. (c - 1) * SegMax < r /\ r <= c * SegMax
    BY <1>1, <1>3, <1>4
<1>6. c >= 1
    <2>1. ASSUME c <= 0  PROVE FALSE
        <3>1. (0 - c) * SegMax >= 0
            BY <1>1, <1>3, <2>1
        <3>2. (0 - c) * SegMax = 0 - c * SegMax
            BY <1>1, <1>3
        <3> QED  BY <1>1, <1>4, <1>5, <3>1, <3>2
    <2> QED  BY <1>3, <2>1
<1>7. c <= q
    <2>1. ASSUME q <= c - 1  PROVE FALSE
        <3>1. (c - 1 - q) * SegMax >= 0
            BY <1>1, <1>2, <1>3, <2>1
        <3>2. (c - 1 - q) * SegMax = (c - 1) * SegMax - q * SegMax
            BY <1>1, <1>2, <1>3
        <3> QED  BY <1>1, <1>2, <1>4, <1>5, <3>1, <3>2
    <2> QED  BY <1>2, <1>3, <2>1
<1>8. c \in 1 .. q
    BY <1>2, <1>3, <1>6, <1>7
<1> QED  BY <1>5, <1>8 DEF q

\* The chunks of a merged table hold all of its records, each as it is: none is
\* lost where one chunk ends and the next begins (chunks in compact).
LEMMA ChunksCover ==
    ASSUME NEW t \in Table
    PROVE  /\ \A k \in KeysOf(t) : \E i \in 1 .. Len(Chunks(t)) : k \in KeysOf(Chunks(t)[i])
           /\ \A i \in 1 .. Len(Chunks(t)) : \A k \in KeysOf(Chunks(t)[i]) : Chunks(t)[i][k] = t[k]
<1>1. Size(t) \in Nat /\ \A k \in KeysOf(t) : k \in Int
    BY TableKeys
<1>2. ChunkCount(t) \in Nat
    BY <1>1, SegMaxAssumption DEF ChunkCount
<1>3. /\ Len(Chunks(t)) = ChunkCount(t)
      /\ \A i \in 1 .. ChunkCount(t) : Chunks(t)[i] = Chunk(t, i)
    BY <1>2 DEF Chunks
<1>4. ASSUME NEW k \in KeysOf(t)
      PROVE  \E i \in 1 .. ChunkCount(t) : k \in KeysOf(Chunk(t, i))
    <2>1. Rank(t, k) \in 1 .. Size(t)
        <3>1. Rank(t, k) \in 0 .. Size(t)
            BY <1>1, RankMonotone
        <3>2. Rank(t, k) # 0
            <4> DEFINE U == {j \in KeysOf(t) : j <= k}
            <4>1. k \in U /\ U \subseteq KeysOf(t)
                BY <1>1
            <4> HIDE DEF U
            <4>2. IsFiniteSet(U)
                BY <4>1, TableKeys, FS_Subset
            <4>3. Cardinality(U) # 0
                BY <4>1, <4>2, FS_EmptySet
            <4> QED  BY <4>3 DEF Rank, U
        <3> QED  BY <1>1, <3>1, <3>2
    <2>2. PICK i \in 1 .. ChunkCount(t) :
                (i - 1) * SegMax < Rank(t, k) /\ Rank(t, k) <= i * SegMax
        BY <1>1, <2>1, ChunkOf DEF ChunkCount
    <2> QED  BY <2>2, ChunkKeys
<1>5. \A i \in 1 .. ChunkCount(t) : \A k \in KeysOf(Chunk(t, i)) : Chunk(t, i)[k] = t[k]
    BY DEF Chunk, KeysOf
<1> QED  BY <1>3, <1>4, <1>5
=============================================================================

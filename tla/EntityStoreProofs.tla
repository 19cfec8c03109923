------------------------- MODULE EntityStoreProofs -------------------------
(***************************************************************************)
(* Theorems about EntityStore, for all sets of entities, fields, values,   *)
(* indexes, inputs and updates: the types, whatever calls are made, fail   *)
(* and crash; where no put or cas_update is cut short (SchemaFirst), a     *)
(* stored field has a name in SCHEMA, an entity reads as it was last       *)
(* written, and a commit is whole or not at all; an index that find        *)
(* accepts misses no entity (Findable), after a crash neither (Stable).    *)
(***************************************************************************)
EXTENDS EntityStore, FiniteSetTheorems, SequenceTheorems, WellFoundedInduction, TLAPS

-----------------------------------------------------------------------------
(* Numbers.                                                                *)

\* A non-empty set of natural numbers has a least element.
LEMMA LeastNatural ==
    ASSUME NEW T, T \subseteq Nat, T # {}
    PROVE  \E x \in T : \A y \in T : x <= y
<1> DEFINE R == OpToRel(<, Nat)
<1>1. IsWellFoundedOn(R, Nat)
    BY NatLessThanWellFounded
<1>2. \A x, y \in Nat : y < x => <<y, x>> \in R
    BY DEF OpToRel
<1> HIDE DEF R
<1>3. \E x \in T : \A y \in T : ~(<<y, x>> \in R)
    BY <1>1, WFMin
<1>4. \A x \in T : x \in Nat
    OBVIOUS
<1>5. \E x \in T : \A y \in T : ~(y < x)
    BY <1>2, <1>3, <1>4
<1> QED  BY <1>4, <1>5

\* So has one of numbers up to n a greatest one, and Min and Max choose them.
LEMMA LeastAndGreatest ==
    ASSUME NEW n \in Nat, NEW T, T \subseteq 1 .. n, T # {}
    PROVE  /\ Max(T) \in T /\ \A y \in T : y <= Max(T)
           /\ Min(T) \in T /\ \A y \in T : Min(T) <= y
<1>1. \E x \in T : \A y \in T : x <= y
    <2>1. T \subseteq Nat
        OBVIOUS
    <2> QED  BY <2>1, LeastNatural
<1>2. \E x \in T : \A y \in T : y <= x
    <2> DEFINE U == {n - x : x \in T}
    <2>0. \A y \in T : y \in Int /\ y <= n /\ n - y \in Nat
        OBVIOUS
    <2>1. U \subseteq Nat /\ U # {}
        BY <2>0
    <2>2. PICK u \in U : \A v \in U : u <= v
        BY <2>1, LeastNatural
    <2>3. PICK x \in T : u = n - x
        BY <2>2
    <2>4. \A y \in T : n - x <= n - y
        BY <2>2, <2>3
    <2> QED  BY <2>0, <2>4
<1>3. Max(T) \in T /\ \A y \in T : Max(T) >= y
    BY <1>2 DEF Max
<1>4. Min(T) \in T /\ \A y \in T : Min(T) <= y
    BY <1>1 DEF Min
<1> QED  BY <1>3, <1>4

-----------------------------------------------------------------------------
(* Types: fields have values, entries of an index are listed or not.       *)

FieldKeys == [tag : {"E"}, ent : Ids, fld : Nat]
IndexKeys == [tag : {"I", "C"}, flds : Seq(Nat \cup {None}), vals : Seq(Values), ent : Ids]
Writes == [key : FieldKeys, val : Values \cup {None}] \cup [key : IndexKeys, val : {Listed, None}]

\* A batch writes no key twice.
Distinct(b) == \A w1, w2 \in b : w1.key = w2.key => w1 = w2
Batches == {b \in SUBSET Writes : Distinct(b)}

\* A map: what it has of a key is no absence.
IsMap(m) == m = [k \in DOMAIN m |-> m[k]] /\ \A k \in DOMAIN m : m[k] # None
Maps ==
    {m \in UNION {[K -> Values \cup {Listed}] : K \in SUBSET (FieldKeys \cup IndexKeys)} :
        \A k \in DOMAIN m : IF k \in FieldKeys THEN m[k] \in Values ELSE m[k] = Listed}

-----------------------------------------------------------------------------
(* Maps and logs.                                                          *)

\* The value of key k in m.
Val(m, k) == IF k \in DOMAIN m THEN m[k] ELSE None

\* Maps of the same values are the same.
LEMMA SameValues ==
    ASSUME NEW m1, NEW m2, IsMap(m1), IsMap(m2), \A k : Val(m1, k) = Val(m2, k)
    PROVE  m1 = m2
<1>1. DOMAIN m1 = DOMAIN m2
    BY DEF IsMap, Val
<1>2. \A k \in DOMAIN m1 : m1[k] = m2[k]
    BY <1>1 DEF Val
<1> QED  BY <1>1, <1>2 DEF IsMap

\* What Apply does to each key.
LEMMA ApplyValues ==
    ASSUME NEW m, NEW b, IsMap(m), Distinct(b)
    PROVE  /\ IsMap(Apply(m, b))
           /\ \A w \in b : Val(Apply(m, b), w.key) = w.val
           /\ \A k : k \notin KeysOfBatch(b) => Val(Apply(m, b), k) = Val(m, k)
<1> DEFINE puts == {w \in b : w.val # None}
           D == (DOMAIN m \ KeysOfBatch(b)) \cup KeysOfBatch(puts)
           v(k) == IF k \in KeysOfBatch(puts) THEN (CHOOSE w \in puts : w.key = k).val ELSE m[k]
<1>1. Apply(m, b) = [k \in D |-> v(k)]
    BY DEF Apply
<1>2. \A w \in puts : v(w.key) = w.val /\ w.key \in D
    <2> TAKE w \in puts
    <2>1. w.key \in KeysOfBatch(puts)
        BY DEF KeysOfBatch
    <2>2. (CHOOSE x \in puts : x.key = w.key) = w
        BY DEF Distinct
    <2> QED  BY <2>1, <2>2
<1>3. \A w \in b : w.val = None => w.key \notin D
    BY DEF Distinct, KeysOfBatch
<1>4. \A k \in D : v(k) # None
    <2> TAKE k \in D
    <2>1. CASE k \in KeysOfBatch(puts)
        <3>1. PICK w \in puts : k = w.key
            BY <2>1 DEF KeysOfBatch
        <3> QED  BY <1>2, <3>1
    <2>2. CASE k \notin KeysOfBatch(puts)
        BY <2>2 DEF IsMap
    <2> QED  BY <2>1, <2>2
<1>5. \A k : k \notin KeysOfBatch(b) => /\ k \in D <=> k \in DOMAIN m
                                        /\ k \in D => v(k) = m[k]
    BY DEF KeysOfBatch
<1> HIDE DEF v, D
<1>6. IsMap(Apply(m, b))
    BY <1>1, <1>4 DEF IsMap
<1>7. ASSUME NEW w \in b  PROVE Val(Apply(m, b), w.key) = w.val
    BY <1>1, <1>2, <1>3, <1>7 DEF Val
<1>8. ASSUME NEW k, k \notin KeysOfBatch(b)  PROVE Val(Apply(m, b), k) = Val(m, k)
    BY <1>1, <1>5, <1>8 DEF Val
<1> QED  BY <1>6, <1>7, <1>8

\* Write w of l[i] is the last of its key.
IsLast(l, i, w) == \A j \in DOMAIN l : w.key \in KeysOfBatch(l[j]) => j <= i

\* Every key that is written has a last write.
LEMMA LastExists ==
    ASSUME NEW l \in Seq(Batches), NEW k \in KeysOfLog(l)
    PROVE  \E i \in DOMAIN l : \E w \in l[i] : w.key = k /\ IsLast(l, i, w)
<1> DEFINE T == {j \in DOMAIN l : k \in KeysOfBatch(l[j])}
<1>1. DOMAIN l = 1 .. Len(l) /\ Len(l) \in Nat
    OBVIOUS
<1>2. T \subseteq 1 .. Len(l) /\ T # {}
    BY <1>1 DEF KeysOfLog
<1>3. Max(T) \in T /\ \A y \in T : y <= Max(T)
    BY <1>1, <1>2, LeastAndGreatest
<1>4. PICK w \in l[Max(T)] : w.key = k
    BY <1>3 DEF KeysOfBatch
<1> QED  BY <1>3, <1>4 DEF IsLast

\* The last writes are a batch that writes the keys of the log.
LEMMA LastWritesBatch ==
    ASSUME NEW l \in Seq(Batches)
    PROVE  /\ Distinct(LastWrites(l))
           /\ KeysOfBatch(LastWrites(l)) = KeysOfLog(l)
           /\ \A w : w \in LastWrites(l) <=> \E i \in DOMAIN l : w \in l[i] /\ IsLast(l, i, w)
<1>1. \A w : w \in LastWrites(l) <=> \E i \in DOMAIN l : w \in l[i] /\ IsLast(l, i, w)
    BY DEF LastWrites, IsLast
<1>2. ASSUME NEW w1 \in LastWrites(l), NEW w2 \in LastWrites(l), w1.key = w2.key
      PROVE  w1 = w2
    <2>1. PICK i \in DOMAIN l : w1 \in l[i] /\ IsLast(l, i, w1)
        BY <1>1
    <2>2. PICK j \in DOMAIN l : w2 \in l[j] /\ IsLast(l, j, w2)
        BY <1>1
    <2>3. i \in Int /\ j \in Int
        OBVIOUS
    <2>4. i <= j /\ j <= i
        BY <1>2, <2>1, <2>2 DEF IsLast, KeysOfBatch
    <2>5. i = j
        BY <2>3, <2>4
    <2> QED  BY <1>2, <2>1, <2>2, <2>5 DEF Batches, Distinct
<1>3. ASSUME NEW k \in KeysOfLog(l)  PROVE k \in KeysOfBatch(LastWrites(l))
    BY <1>1, LastExists DEF KeysOfBatch
<1>4. ASSUME NEW k \in KeysOfBatch(LastWrites(l))  PROVE k \in KeysOfLog(l)
    BY <1>1 DEF KeysOfBatch, KeysOfLog
<1> QED  BY <1>1, <1>2, <1>3, <1>4 DEF Distinct

\* What replaying l does to each key.
LEMMA ReplayValues ==
    ASSUME NEW m, NEW l \in Seq(Batches), IsMap(m)
    PROVE  /\ IsMap(Replayed(m, l))
           /\ \A i \in DOMAIN l : \A w \in l[i] :
                IsLast(l, i, w) => Val(Replayed(m, l), w.key) = w.val
           /\ \A k : k \notin KeysOfLog(l) => Val(Replayed(m, l), k) = Val(m, k)
BY LastWritesBatch, ApplyValues DEF Replayed
\* Types of batches of last writes and of maps that are replayed.
LEMMA LastWritesType ==
    ASSUME NEW l \in Seq(Batches)
    PROVE  LastWrites(l) \in Batches
<1>1. LastWrites(l) \subseteq Writes
    BY DEF LastWrites, Batches
<1> QED  BY <1>1, LastWritesBatch DEF Batches

\* A map stays a map when a batch is applied.
LEMMA ApplyType ==
    ASSUME NEW m \in Maps, NEW b \in Batches
    PROVE  Apply(m, b) \in Maps
<1> DEFINE puts == {w \in b : w.val # None}
           D == (DOMAIN m \ KeysOfBatch(b)) \cup KeysOfBatch(puts)
           v(k) == IF k \in KeysOfBatch(puts) THEN (CHOOSE w \in puts : w.key = k).val ELSE m[k]
<1>1. Apply(m, b) = [k \in D |-> v(k)]
    BY DEF Apply
<1>2. DOMAIN m \subseteq FieldKeys \cup IndexKeys
    BY DEF Maps
<1>3. \A w \in b : w.key \in FieldKeys \cup IndexKeys
    BY DEF Batches, Writes
<1>4. D \in SUBSET (FieldKeys \cup IndexKeys)
    BY <1>2, <1>3 DEF KeysOfBatch
<1>5. ASSUME NEW k \in D
      PROVE  IF k \in FieldKeys THEN v(k) \in Values ELSE v(k) = Listed
    <2>1. CASE k \in KeysOfBatch(puts)
        <3> DEFINE w == CHOOSE w \in puts : w.key = k
        <3>1. w \in puts /\ w.key = k
            BY <2>1 DEF KeysOfBatch
        <3>2. w \in Writes /\ w.val # None /\ v(k) = w.val
            BY <2>1, <3>1 DEF Batches
        <3> HIDE DEF w, v
        <3>3. k \in FieldKeys => k \notin IndexKeys
            BY DEF FieldKeys, IndexKeys
        <3> QED  BY <3>1, <3>2, <3>3 DEF Writes
    <2>2. CASE k \notin KeysOfBatch(puts)
        BY <2>2 DEF Maps
    <2> QED  BY <2>1, <2>2
<1> HIDE DEF v, D
<1>6. [k \in D |-> v(k)] \in [D -> Values \cup {Listed}]
    BY <1>5
<1> QED  BY <1>1, <1>4, <1>5, <1>6 DEF Maps

\* Nothing in a map is an absence.
LEMMA MapsAreMaps ==
    ASSUME NEW m \in Maps
    PROVE  IsMap(m)
BY ValuesAssumption DEF Maps, IsMap

\* A map stays a map when a log is replayed.
LEMMA ReplayType ==
    ASSUME NEW m \in Maps, NEW l \in Seq(Batches)
    PROVE  Replayed(m, l) \in Maps
BY LastWritesType, ApplyType DEF Replayed

\* Replaying a log that writes nothing changes nothing.
LEMMA ReplayNothing ==
    ASSUME NEW m, NEW l \in Seq(Batches), IsMap(m), NoneLeft(l)
    PROVE  Replayed(m, l) = m
<1>1. KeysOfLog(l) = {}
    BY DEF KeysOfLog, KeysOfBatch, NoneLeft
<1> QED  BY <1>1, ReplayValues, SameValues

\* Replaying the empty log changes nothing.
LEMMA EmptyLog ==
    ASSUME NEW m, IsMap(m)
    PROVE  /\ <<>> \in Seq(Batches)
           /\ Replayed(m, <<>>) = m
           /\ KeysOfLog(<<>>) = {}
<1>1. <<>> \in Seq(Batches) /\ NoneLeft(<<>>)
    BY DEF NoneLeft
<1>2. KeysOfLog(<<>>) = {}
    BY DEF KeysOfLog
<1> QED  BY <1>1, <1>2, ReplayNothing

\* Replaying one batch more.
LEMMA ReplayAppend ==
    ASSUME NEW m, NEW l \in Seq(Batches), NEW b \in Batches, IsMap(m)
    PROVE  /\ Append(l, b) \in Seq(Batches)
           /\ Replayed(m, Append(l, b)) = Apply(Replayed(m, l), b)
           /\ KeysOfLog(Append(l, b)) = KeysOfLog(l) \cup KeysOfBatch(b)
<1> DEFINE a == Append(l, b)
           n == Len(l) + 1
<1>1. /\ a \in Seq(Batches) /\ DOMAIN a = 1 .. n /\ DOMAIN l = 1 .. Len(l) /\ Len(l) \in Nat
      /\ a[n] = b /\ \A i \in DOMAIN l : a[i] = l[i]
    OBVIOUS
<1> HIDE DEF a
<1>2. KeysOfLog(a) = KeysOfLog(l) \cup KeysOfBatch(b)
    BY <1>1 DEF KeysOfLog
<1>3. IsMap(Replayed(m, a)) /\ IsMap(Replayed(m, l))
    BY <1>1, ReplayValues
<1>4. Distinct(b)
    BY DEF Batches
<1>5. IsMap(Apply(Replayed(m, l), b))
    BY <1>3, <1>4, ApplyValues
<1>6. ASSUME NEW k  PROVE Val(Replayed(m, a), k) = Val(Apply(Replayed(m, l), b), k)
    <2>1. CASE k \in KeysOfBatch(b)
        <3>1. PICK w \in b : w.key = k
            BY <2>1 DEF KeysOfBatch
        <3>2. IsLast(a, n, w) /\ n \in DOMAIN a
            BY <1>1 DEF IsLast
        <3>3. Val(Replayed(m, a), k) = w.val
            BY <1>1, <3>1, <3>2, ReplayValues
        <3> QED  BY <1>3, <1>4, <3>1, <3>3, ApplyValues
    <2>2. CASE k \notin KeysOfBatch(b)
        <3>1. Val(Apply(Replayed(m, l), b), k) = Val(Replayed(m, l), k)
            BY <1>3, <1>4, <2>2, ApplyValues
        <3>2. CASE k \in KeysOfLog(l)
            <4>1. PICK i \in DOMAIN l : \E w \in l[i] : w.key = k /\ IsLast(l, i, w)
                BY <3>2, LastExists
            <4>2. PICK w \in l[i] : w.key = k /\ IsLast(l, i, w)
                BY <4>1
            <4>3. i \in DOMAIN a /\ w \in a[i]
                BY <1>1
            <4>4. IsLast(a, i, w)
                <5>1. ASSUME NEW j \in DOMAIN a, w.key \in KeysOfBatch(a[j])  PROVE j <= i
                    <6>1. j # n
                        BY <1>1, <2>2, <4>2, <5>1
                    <6>2. j \in DOMAIN l /\ a[j] = l[j]
                        BY <1>1, <6>1
                    <6> QED  BY <4>2, <5>1, <6>2 DEF IsLast
                <5> QED  BY <5>1 DEF IsLast
            <4>5. Val(Replayed(m, a), k) = w.val
                BY <1>1, <4>2, <4>3, <4>4, ReplayValues
            <4>6. Val(Replayed(m, l), k) = w.val
                BY <4>2, ReplayValues
            <4> QED  BY <3>1, <4>5, <4>6
        <3>3. CASE k \notin KeysOfLog(l)
            <4>1. k \notin KeysOfLog(a)
                BY <1>2, <2>2, <3>3
            <4> QED  BY <1>1, <3>1, <3>3, <4>1, ReplayValues
        <3> QED  BY <3>2, <3>3
    <2> QED  BY <2>1, <2>2
<1>7. Replayed(m, a) = Apply(Replayed(m, l), b)
    BY <1>3, <1>5, <1>6, SameValues
<1> QED  BY <1>1, <1>2, <1>7 DEF a

\* Replaying a log twice is replaying it once.
LEMMA ReplayAgain ==
    ASSUME NEW m, NEW l \in Seq(Batches), IsMap(m)
    PROVE  Replayed(Replayed(m, l), l) = Replayed(m, l)
<1>1. IsMap(Replayed(m, l)) /\ IsMap(Replayed(Replayed(m, l), l))
    BY ReplayValues
<1>2. ASSUME NEW k  PROVE Val(Replayed(Replayed(m, l), l), k) = Val(Replayed(m, l), k)
    <2>1. CASE k \in KeysOfLog(l)
        <3>1. PICK i \in DOMAIN l : \E w \in l[i] : w.key = k /\ IsLast(l, i, w)
            BY <2>1, LastExists
        <3> QED  BY <1>1, <3>1, ReplayValues
    <2>2. CASE k \notin KeysOfLog(l)
        BY <1>1, <2>2, ReplayValues
    <2> QED  BY <2>1, <2>2
<1> QED  BY <1>1, <1>2, SameValues

\* The next write of a call moves it from what is left to the log.
LEMMA NextWrite ==
    ASSUME NEW m, IsMap(m), NEW l \in Seq(Batches),
           NEW i \in DOMAIN l, Current(l, i), NEW w \in l[i]
    PROVE  /\ {w} \in Batches
           /\ Without(l, i, w) \in Seq(Batches)
           /\ Replayed(Apply(m, {w}), Without(l, i, w)) = Replayed(m, l)
           /\ KeysOfLog(Without(l, i, w)) \subseteq KeysOfLog(l)
           /\ w.key \in KeysOfLog(l)
<1> DEFINE r == Without(l, i, w)
           mw == Apply(m, {w})
<1>1. DOMAIN r = DOMAIN l /\ \A j \in DOMAIN l : r[j] = IF j = i THEN l[i] \ {w} ELSE l[j]
    BY DEF Without
<1>2. DOMAIN l = 1 .. Len(l) /\ Len(l) \in Nat /\ \A j \in DOMAIN l : l[j] \in Batches
    OBVIOUS
<1>3. \A j \in DOMAIN l : r[j] \in Batches
    BY <1>1, <1>2 DEF Batches, Distinct
<1>4. r \in Seq(Batches)
    <2>1. r = [j \in 1 .. Len(l) |-> r[j]]
        BY <1>2 DEF Without
    <2> HIDE DEF r
    <2> QED  BY <1>1, <1>2, <1>3, <2>1
<1>5. {w} \in Batches /\ Distinct({w})
    BY <1>2 DEF Batches, Distinct
<1>6. KeysOfLog(r) \subseteq KeysOfLog(l) /\ w.key \in KeysOfLog(l)
    BY <1>1 DEF KeysOfLog, KeysOfBatch
<1> HIDE DEF r
<1>7. IsMap(mw) /\ Val(mw, w.key) = w.val /\ \A k : k # w.key => Val(mw, k) = Val(m, k)
    <2>1. \A k : k # w.key => k \notin KeysOfBatch({w})
        BY DEF KeysOfBatch
    <2>2. IsMap(mw) /\ Val(mw, w.key) = w.val
        BY <1>5, ApplyValues
    <2>3. \A k : k \notin KeysOfBatch({w}) => Val(mw, k) = Val(m, k)
        BY <1>5, ApplyValues
    <2> QED  BY <2>1, <2>2, <2>3
<1> HIDE DEF mw
<1>8. IsMap(Replayed(mw, r)) /\ IsMap(Replayed(m, l))
    BY <1>4, <1>7, ReplayValues
<1>9. ASSUME NEW k  PROVE Val(Replayed(mw, r), k) = Val(Replayed(m, l), k)
    <2>1. CASE k \in KeysOfLog(r)
        <3>1. PICK j \in DOMAIN r : \E x \in r[j] : x.key = k /\ IsLast(r, j, x)
            BY <1>4, <2>1, LastExists
        <3>2. PICK x \in r[j] : x.key = k /\ IsLast(r, j, x)
            BY <3>1
        <3>3. x \in l[j] /\ j \in DOMAIN l /\ i <= j
            BY <1>1, <1>2, <3>2 DEF Current
        <3>4. IsLast(l, j, x)
            <4>1. ASSUME NEW n \in DOMAIN l, x.key \in KeysOfBatch(l[n])  PROVE n <= j
                <5>1. CASE x.key \in KeysOfBatch(r[n])
                    BY <1>1, <3>2, <5>1 DEF IsLast
                <5>2. CASE x.key \notin KeysOfBatch(r[n])
                    <6>1. n = i
                        BY <1>1, <4>1, <5>2
                    <6>2. l[j] # {}
                        BY <3>3
                    <6> QED  BY <3>3, <6>1, <6>2 DEF Current
                <5> QED  BY <5>1, <5>2
            <4> QED  BY <4>1 DEF IsLast
        <3>5. Val(Replayed(mw, r), k) = x.val
            BY <1>4, <1>7, <3>2, ReplayValues
        <3>6. Val(Replayed(m, l), k) = x.val
            BY <3>2, <3>3, <3>4, ReplayValues
        <3> QED  BY <3>5, <3>6
    <2>2. CASE k \notin KeysOfLog(r) /\ k = w.key
        <3>1. IsLast(l, i, w)
            <4>1. ASSUME NEW n \in DOMAIN l, w.key \in KeysOfBatch(l[n])  PROVE n <= i
                <5>1. CASE n = i
                    BY <1>2, <5>1
                <5>2. CASE n # i
                    BY <1>1, <2>2, <4>1, <5>2 DEF KeysOfLog
                <5> QED  BY <5>1, <5>2
            <4> QED  BY <4>1 DEF IsLast
        <3>2. Val(Replayed(m, l), k) = w.val
            BY <2>2, <3>1, ReplayValues
        <3> QED  BY <1>4, <1>7, <2>2, <3>2, ReplayValues
    <2>3. CASE k \notin KeysOfLog(r) /\ k # w.key
        <3>1. k \notin KeysOfLog(l)
            BY <1>1, <2>3 DEF KeysOfLog, KeysOfBatch
        <3> QED  BY <1>4, <1>7, <2>3, <3>1, ReplayValues
    <2> QED  BY <2>1, <2>2, <2>3
<1>10. Replayed(mw, r) = Replayed(m, l)
    BY <1>8, <1>9, SameValues
<1> QED  BY <1>4, <1>5, <1>6, <1>10 DEF r, mw

\* The last writes of a batch and more phases are those phases on the batch.
LEMMA PendedWrites ==
    ASSUME NEW m, IsMap(m), NEW b \in Batches, NEW l \in Seq(Batches)
    PROVE  /\ LastWrites(<<b>> \o l) \in Batches
           /\ Apply(m, LastWrites(<<b>> \o l)) = Replayed(Apply(m, b), l)
           /\ KeysOfBatch(LastWrites(<<b>> \o l)) = KeysOfBatch(b) \cup KeysOfLog(l)
<1> DEFINE a == <<b>> \o l
           mb == Apply(m, b)
<1>1. /\ a \in Seq(Batches) /\ DOMAIN a = 1 .. (Len(l) + 1) /\ Len(l) \in Nat
      /\ DOMAIN l = 1 .. Len(l)
      /\ a[1] = b /\ \A i \in DOMAIN l : a[i + 1] = l[i]
    OBVIOUS
<1> HIDE DEF a
<1>2. \A i \in DOMAIN a : i = 1 \/ (i - 1 \in DOMAIN l /\ a[i] = l[i - 1])
    <2> TAKE i \in DOMAIN a
    <2>1. CASE i # 1
        <3>1. i - 1 \in DOMAIN l /\ i = (i - 1) + 1
            BY <1>1, <2>1
        <3> QED  BY <1>1, <3>1
    <2> QED  BY <2>1
<1>3. KeysOfLog(a) = KeysOfBatch(b) \cup KeysOfLog(l)
    <2>1. \A k : k \in KeysOfLog(a) <=> \E i \in DOMAIN a : k \in KeysOfBatch(a[i])
        BY DEF KeysOfLog
    <2>2. \A k : k \in KeysOfLog(l) <=> \E i \in DOMAIN l : k \in KeysOfBatch(l[i])
        BY DEF KeysOfLog
    <2>3. \A i \in DOMAIN l : i + 1 \in DOMAIN a
        BY <1>1
    <2>4. 1 \in DOMAIN a
        BY <1>1
    <2>5. ASSUME NEW k \in KeysOfLog(a)  PROVE k \in KeysOfBatch(b) \cup KeysOfLog(l)
        <3>1. PICK i \in DOMAIN a : k \in KeysOfBatch(a[i])
            BY <2>1
        <3> QED  BY <1>1, <1>2, <2>2, <3>1
    <2>6. ASSUME NEW k \in KeysOfLog(l)  PROVE k \in KeysOfLog(a)
        <3>1. PICK i \in DOMAIN l : k \in KeysOfBatch(l[i])
            BY <2>2
        <3> QED  BY <1>1, <2>1, <2>3, <3>1
    <2> QED  BY <1>1, <2>1, <2>4, <2>5, <2>6
<1>4. Distinct(b)
    BY DEF Batches
<1>5. IsMap(mb)
    BY <1>4, ApplyValues
<1>6. Apply(m, LastWrites(a)) = Replayed(m, a)
    BY DEF Replayed
<1>7. IsMap(Replayed(m, a)) /\ IsMap(Replayed(mb, l))
    BY <1>1, <1>5, ReplayValues
<1> HIDE DEF mb
<1>8. ASSUME NEW k  PROVE Val(Replayed(m, a), k) = Val(Replayed(mb, l), k)
    <2>1. CASE k \in KeysOfLog(l)
        <3>1. PICK i \in DOMAIN l : \E w \in l[i] : w.key = k /\ IsLast(l, i, w)
            BY <2>1, LastExists
        <3>2. PICK w \in l[i] : w.key = k /\ IsLast(l, i, w)
            BY <3>1
        <3>3. IsLast(a, i + 1, w)
            <4>1. ASSUME NEW j \in DOMAIN a, w.key \in KeysOfBatch(a[j])  PROVE j <= i + 1
                <5>1. CASE j = 1
                    BY <1>1, <5>1
                <5>2. CASE j # 1
                    <6>1. j - 1 \in DOMAIN l /\ a[j] = l[j - 1]
                        BY <1>2, <5>2
                    <6>2. j - 1 <= i
                        BY <3>2, <4>1, <6>1 DEF IsLast
                    <6> QED  BY <1>1, <6>2
                <5> QED  BY <5>1, <5>2
            <4> QED  BY <4>1 DEF IsLast
        <3>4. i + 1 \in DOMAIN a /\ w \in a[i + 1]
            BY <1>1
        <3>5. Val(Replayed(m, a), k) = w.val
            BY <1>1, <3>2, <3>3, <3>4, ReplayValues
        <3> QED  BY <1>5, <3>2, <3>5, ReplayValues
    <2>2. CASE k \notin KeysOfLog(l) /\ k \in KeysOfBatch(b)
        <3>1. PICK w \in b : w.key = k
            BY <2>2 DEF KeysOfBatch
        <3>2. IsLast(a, 1, w)
            <4>1. ASSUME NEW j \in DOMAIN a, w.key \in KeysOfBatch(a[j])  PROVE j <= 1
                <5>1. CASE j # 1
                    BY <1>2, <2>2, <3>1, <4>1, <5>1 DEF KeysOfLog
                <5> QED  BY <1>1, <5>1
            <4> QED  BY <4>1 DEF IsLast
        <3>3. 1 \in DOMAIN a
            BY <1>1
        <3>4. Val(Replayed(m, a), k) = w.val
            BY <1>1, <3>1, <3>2, <3>3, ReplayValues
        <3>5. Val(mb, k) = w.val
            BY <1>4, <3>1, ApplyValues DEF mb
        <3> QED  BY <1>5, <2>2, <3>4, <3>5, ReplayValues
    <2>3. CASE k \notin KeysOfLog(l) /\ k \notin KeysOfBatch(b)
        <3>1. Val(Replayed(m, a), k) = Val(m, k)
            BY <1>1, <1>3, <2>3, ReplayValues
        <3>2. Val(mb, k) = Val(m, k)
            BY <1>4, <2>3, ApplyValues DEF mb
        <3> QED  BY <1>5, <2>3, <3>1, <3>2, ReplayValues
    <2> QED  BY <2>1, <2>2, <2>3
<1>9. Replayed(m, a) = Replayed(mb, l)
    BY <1>7, <1>8, SameValues
<1>10. LastWrites(a) \in Batches /\ KeysOfBatch(LastWrites(a)) = KeysOfLog(a)
    BY <1>1, LastWritesType, LastWritesBatch
<1> QED  BY <1>3, <1>6, <1>9, <1>10 DEF a, mb

-----------------------------------------------------------------------------
(* Schemas.                                                                *)

Statuses == {"none", "building", "ready"}
Schemas == [next : Nat, idOf : [Names -> Field], status : [Indexes -> Statuses]]

\* All of these names, and the names of all of its indexes, have ids.
Numbered(s, ns) == \A n \in ToSet(ns) : s.idOf[n] # None
AllNumbered(s) == \A ix \in Indexes : s.status[ix] # "none" => Numbered(s, ix)

\* Ids are below next, and no two names have the same.
GoodIds(s) ==
    /\ \A n \in Names : s.idOf[n] # None => s.idOf[n] < s.next
    /\ \A n, k \in Names : s.idOf[n] # None /\ s.idOf[n] = s.idOf[k] => n = k

\* The names that have ids in s have the same in t.
Extends(t, s) == \A n \in Names : s.idOf[n] # None => t.idOf[n] = s.idOf[n]

\* None is no number.
LEMMA NoneIsNoId == \A f \in Nat : f # None
BY ValuesAssumption

\* The first places of names: those of different names are different, and a
\* list has finitely many.
LEMMA FirstPlaces ==
    ASSUME NEW ns \in Seq(Names), NEW n \in ToSet(ns)
    PROVE  LET first(k) == Min({j \in DOMAIN ns : ns[j] = k})
           IN  first(n) \in DOMAIN ns /\ ns[first(n)] = n
<1> DEFINE T == {j \in DOMAIN ns : ns[j] = n}
<1>1. T \subseteq 1 .. Len(ns) /\ T # {} /\ Len(ns) \in Nat
    BY DEF ToSet
<1>2. Min(T) \in T
    BY <1>1, LeastAndGreatest
<1> QED  BY <1>2

\* Allot keeps the ids there are, and gives all names of ns distinct new ones.
LEMMA AllotFacts ==
    ASSUME NEW s \in Schemas, NEW ns \in Seq(Names)
    PROVE  /\ Allot(s, ns) \in Schemas
           /\ Allot(s, ns).status = s.status
           /\ Extends(Allot(s, ns), s)
           /\ Numbered(Allot(s, ns), ns)
           /\ \A n \in Names : s.idOf[n] = None /\ Allot(s, ns).idOf[n] # None
                                => Allot(s, ns).idOf[n] >= s.next
           /\ GoodIds(s) => GoodIds(Allot(s, ns))
<1> DEFINE new == {n \in ToSet(ns) : s.idOf[n] = None}
           first(n) == Min({j \in DOMAIN ns : ns[j] = n})
           before(n) == {k \in new : first(k) < first(n)}
           t == Allot(s, ns)
<1>1. ToSet(ns) \subseteq Names
    BY DEF ToSet
<1>2. IsFiniteSet(new)
    BY <1>1, NamesAssumption, FS_Subset
<1>3. /\ t.next = s.next + Cardinality(new)
      /\ t.idOf = [n \in Names |-> IF n \in new THEN s.next + Cardinality(before(n)) ELSE s.idOf[n]]
      /\ t.status = s.status
      /\ t = [next |-> t.next, idOf |-> t.idOf, status |-> t.status]
    BY DEF Allot
<1> HIDE DEF t
<1>4. /\ s.next \in Nat /\ s.idOf \in [Names -> Field] /\ s.status \in [Indexes -> Statuses]
      /\ Cardinality(new) \in Nat
    BY <1>2, FS_CardinalityType DEF Schemas
<1>5. \A n \in new : first(n) \in Nat /\ ns[first(n)] = n
    <2>1. \A n \in new : first(n) \in DOMAIN ns /\ ns[first(n)] = n
        BY FirstPlaces
    <2> QED  BY <2>1
<1> HIDE DEF first
<1>6. \A n \in new : /\ IsFiniteSet(before(n)) /\ Cardinality(before(n)) \in Nat
                     /\ Cardinality(before(n)) < Cardinality(new)
    <2> TAKE n \in new
    <2>1. before(n) \in SUBSET new /\ n \notin before(n)
        BY <1>5
    <2> HIDE DEF before, new
    <2>2. IsFiniteSet(before(n)) /\ Cardinality(before(n)) <= Cardinality(new)
          /\ (Cardinality(new) = Cardinality(before(n)) => new = before(n))
        BY <1>2, <2>1, FS_Subset
    <2>3. Cardinality(before(n)) \in Nat
        BY <2>2, FS_CardinalityType
    <2> QED  BY <1>4, <2>1, <2>2, <2>3
<1>7. \A n, k \in new : first(n) < first(k) => Cardinality(before(n)) < Cardinality(before(k))
    <2> SUFFICES ASSUME NEW n \in new, NEW k \in new, first(n) < first(k)
                 PROVE  Cardinality(before(n)) < Cardinality(before(k))
        OBVIOUS
    <2>1. before(n) \in SUBSET before(k) /\ n \in before(k) /\ n \notin before(n)
        BY <1>5
    <2> HIDE DEF before, new
    <2>2. Cardinality(before(n)) <= Cardinality(before(k))
          /\ (Cardinality(before(k)) = Cardinality(before(n)) => before(k) = before(n))
        BY <1>6, <2>1, FS_Subset
    <2> QED  BY <1>6, <2>1, <2>2
<1> DEFINE c == [n \in new |-> Cardinality(before(n))]
<1>8. \A n \in new : c[n] \in Nat /\ c[n] < Cardinality(new) /\ t.idOf[n] = s.next + c[n]
    BY <1>1, <1>3, <1>6
<1>9. \A n, k \in new : c[n] = c[k] => n = k
    <2> SUFFICES ASSUME NEW n \in new, NEW k \in new, c[n] = c[k], n # k
                 PROVE  FALSE
        OBVIOUS
    <2>1. first(n) # first(k)
        BY <1>5
    <2>2. first(n) < first(k) \/ first(k) < first(n)
        BY <1>5, <2>1
    <2> HIDE DEF new
    <2>3. c[n] < c[k] \/ c[k] < c[n]
        BY <1>7, <2>2
    <2> QED  BY <1>8, <2>3
<1>10. \A n \in Names : n \notin new => t.idOf[n] = s.idOf[n]
    BY <1>3
<1> HIDE DEF c
<1>11. \A n \in new : t.idOf[n] \in Nat /\ t.idOf[n] >= s.next /\ t.idOf[n] < t.next
    <2> HIDE DEF new
    <2> TAKE n \in new
    <2>1. c[n] \in Nat /\ c[n] < Cardinality(new) /\ t.idOf[n] = s.next + c[n]
        BY <1>8
    <2>2. t.next = s.next + Cardinality(new)
        BY <1>3
    <2> QED  BY <1>4, <2>1, <2>2
<1>12. t.idOf \in [Names -> Field]
    <2>1. \A n \in Names : t.idOf[n] \in Field
        <3> TAKE n \in Names
        <3>1. CASE n \in new
            BY <1>11, <3>1 DEF Field
        <3>2. CASE n \notin new
            BY <1>4, <1>10, <3>2
        <3> QED  BY <3>1, <3>2
    <2> QED  BY <1>3, <2>1
<1>13. t \in Schemas
    <2> HIDE DEF new
    <2>1. t.next \in Nat /\ t.status \in [Indexes -> Statuses]
        BY <1>3, <1>4
    <2>2. t = [next |-> t.next, idOf |-> t.idOf, status |-> t.status]
        BY <1>3
    <2> QED  BY <1>12, <2>1, <2>2 DEF Schemas
<1>14. Extends(t, s)
    BY <1>10 DEF Extends
<1>15. Numbered(t, ns)
    <2> SUFFICES ASSUME NEW n \in ToSet(ns)  PROVE t.idOf[n] # None
        BY DEF Numbered
    <2>1. CASE n \in new
        BY <1>11, <2>1, NoneIsNoId
    <2>2. CASE n \notin new
        BY <1>1, <1>10, <2>2
    <2> QED  BY <2>1, <2>2
<1>16. \A n \in Names : s.idOf[n] = None /\ t.idOf[n] # None => t.idOf[n] >= s.next
    <2> SUFFICES ASSUME NEW n \in Names, s.idOf[n] = None, t.idOf[n] # None
                 PROVE  t.idOf[n] >= s.next
        OBVIOUS
    <2>1. n \in new
        BY <1>10
    <2> QED  BY <1>11, <2>1
<1>17. ASSUME GoodIds(s)  PROVE GoodIds(t)
    <2>1. ASSUME NEW n \in Names, t.idOf[n] # None  PROVE t.idOf[n] < t.next
        <3>1. CASE n \in new
            BY <1>11, <3>1
        <3>2. CASE n \notin new
            <4>1. s.idOf[n] < s.next /\ t.idOf[n] = s.idOf[n] /\ s.idOf[n] \in Nat
                BY <1>4, <1>10, <1>17, <2>1, <3>2 DEF GoodIds, Field
            <4> HIDE DEF new
            <4> QED  BY <1>3, <1>4, <4>1
        <3> QED  BY <3>1, <3>2
    <2>2. ASSUME NEW n \in Names, NEW k \in Names, t.idOf[n] # None, t.idOf[n] = t.idOf[k]
          PROVE  n = k
        <3>1. CASE n \in new /\ k \in new
            <4> HIDE DEF new
            <4>1. c[n] = c[k]
                BY <1>4, <1>8, <2>2, <3>1
            <4> QED  BY <1>9, <3>1, <4>1
        <3>2. CASE n \notin new /\ k \notin new
            BY <1>10, <1>17, <2>2, <3>2 DEF GoodIds
        <3>3. ASSUME NEW p \in Names, NEW q \in Names, p \in new, q \notin new,
                     t.idOf[p] = t.idOf[q], t.idOf[q] # None
              PROVE  FALSE
            <4>1. s.idOf[q] < s.next /\ t.idOf[q] = s.idOf[q] /\ s.idOf[q] \in Nat
                BY <1>4, <1>10, <1>17, <3>3 DEF GoodIds, Field
            <4> HIDE DEF new
            <4> QED  BY <1>4, <1>11, <3>3, <4>1
        <3> QED  BY <2>2, <3>1, <3>2, <3>3
    <2> QED  BY <2>1, <2>2 DEF GoodIds
<1> QED  BY <1>3, <1>13, <1>14, <1>15, <1>16, <1>17 DEF t

-----------------------------------------------------------------------------
(* Entities as lists of fields.                                            *)

Input == Seq([name : Names, val : Values])
Entity == [Names -> Values \cup {None}]
NoRepeats(x) == \A i, j \in DOMAIN x : x[i].name = x[j].name => i = j

\* SetToSeq lists each element of a finite set once.
LEMMA ListOfSet ==
    ASSUME NEW S, IsFiniteSet(S)
    PROVE  /\ SetToSeq(S) \in Seq(S)
           /\ ToSet(SetToSeq(S)) = S
           /\ \A i, j \in DOMAIN SetToSeq(S) : SetToSeq(S)[i] = SetToSeq(S)[j] => i = j
<1> DEFINE n == Cardinality(S)
           f == SetToSeq(S)
<1>1. n \in Nat /\ ExistsBijection(1 .. n, S)
    BY FS_CardinalityType
<1>2. \E g \in [1 .. n -> S] : IsInjective(g)
    BY <1>1 DEF ExistsBijection, Bijection, Injection, IsInjective
<1>3. f \in [1 .. n -> S] /\ IsInjective(f)
    BY <1>2 DEF SetToSeq
<1> HIDE DEF f
<1>4. f \in Seq(S) /\ DOMAIN f = 1 .. n
    BY <1>1, <1>3
<1>5. IsFiniteSet(1 .. n) /\ Cardinality(1 .. n) = n
    <2>1. 1 \in Int /\ n \in Int
        BY <1>1
    <2>2. IsFiniteSet(1 .. n) /\ Cardinality(1 .. n) = IF 1 > n THEN 0 ELSE n - 1 + 1
        BY <2>1, FS_Interval
    <2> HIDE DEF n
    <2> QED  BY <1>1, <2>2
<1>6. f \in Injection(1 .. n, S)
    BY <1>3 DEF Injection, IsInjective
<1>7. f \in Surjection(1 .. n, S)
    BY <1>5, <1>6, FS_Injection
<1>8. ToSet(f) = S
    BY <1>3, <1>7 DEF Surjection, ToSet
<1>9. \A i, j \in DOMAIN f : f[i] = f[j] => i = j
    BY <1>3 DEF IsInjective
<1> QED  BY <1>4, <1>8, <1>9 DEF f

\* The place that counts when a name is repeated in x.
LEMMA LastPlace ==
    ASSUME NEW x \in Input, NEW n, Places(x, n) # {}
    PROVE  /\ Max(Places(x, n)) \in DOMAIN x /\ x[Max(Places(x, n))].name = n
           /\ Min(Places(x, n)) \in DOMAIN x /\ x[Min(Places(x, n))].name = n
           /\ \A j \in DOMAIN x : x[j].name = n => j <= Max(Places(x, n))
           /\ NoRepeats(x) => Min(Places(x, n)) = Max(Places(x, n))
<1>1. Places(x, n) \subseteq 1 .. Len(x) /\ Len(x) \in Nat
    BY DEF Places, Input
<1>2. /\ Max(Places(x, n)) \in Places(x, n) /\ \A y \in Places(x, n) : y <= Max(Places(x, n))
      /\ Min(Places(x, n)) \in Places(x, n)
    BY <1>1, LeastAndGreatest
<1> QED  BY <1>2 DEF Places, NoRepeats

\* The names and values of an input, and the entity it makes.
LEMMA InputFacts ==
    ASSUME NEW x \in Input
    PROVE  /\ Len(x) \in Nat /\ DOMAIN x = 1 .. Len(x)
           /\ \A j \in DOMAIN x : x[j].name \in Names /\ x[j].val \in Values
           /\ NamesOf(x) \in Seq(Names)
           /\ \A n : n \in ToSet(NamesOf(x)) <=> Places(x, n) # {}
           /\ \A j \in DOMAIN x : x[j].name \in ToSet(NamesOf(x))
           /\ AsEntity(x) \in Entity
<1>1. Len(x) \in Nat /\ DOMAIN x = 1 .. Len(x) /\ \A j \in DOMAIN x : x[j].name \in Names /\ x[j].val \in Values
    <2> DEFINE F == [name : Names, val : Values]
    <2>1. \A y \in F : y.name \in Names /\ y.val \in Values
        OBVIOUS
    <2> HIDE DEF F
    <2>2. x \in Seq(F)
        BY DEF Input, F
    <2>3. Len(x) \in Nat /\ DOMAIN x = 1 .. Len(x) /\ \A j \in DOMAIN x : x[j] \in F
        BY <2>2
    <2> QED  BY <2>1, <2>3
<1>2. NamesOf(x) \in Seq(Names)
    BY <1>1 DEF NamesOf
<1>3. \A n : n \in ToSet(NamesOf(x)) <=> Places(x, n) # {}
    BY DEF NamesOf, ToSet, Places
<1>4. \A j \in DOMAIN x : x[j].name \in ToSet(NamesOf(x))
    BY DEF NamesOf, ToSet
<1>5. AsEntity(x) \in Entity
    <2>1. ASSUME NEW n \in Names, Places(x, n) # {}  PROVE x[Max(Places(x, n))].val \in Values
        BY <1>1, <2>1, LastPlace
    <2> QED  BY <2>1 DEF AsEntity, Entity
<1> QED  BY <1>1, <1>2, <1>3, <1>4, <1>5

\* AsInput lists the fields of an entity.
LEMMA AsInputFacts ==
    ASSUME NEW ent \in Entity
    PROVE  AsInput(ent) \in Input /\ AsEntity(AsInput(ent)) = ent /\ NoRepeats(AsInput(ent))
<1> DEFINE P == {n \in Names : ent[n] # None}
           field(n) == [name |-> n, val |-> ent[n]]
           S == {field(n) : n \in P}
           x == SetToSeq(S)
<1>1. AsInput(ent) = x
    BY DEF AsInput
<1>2. IsFiniteSet(P)
    BY NamesAssumption, FS_Subset
<1>3. IsFiniteSet(S)
    <2> DEFINE g == [n \in P |-> field(n)]
    <2>1. g \in Surjection(P, S)
        BY DEF Surjection
    <2> QED  BY <1>2, <2>1, FS_Surjection
<1>4. /\ x \in Seq(S) /\ ToSet(x) = S
      /\ \A i, j \in DOMAIN x : x[i] = x[j] => i = j
    BY <1>3, ListOfSet
<1> HIDE DEF x
<1>5. \A y \in S : y.name \in P /\ y.val = ent[y.name] /\ y = field(y.name)
    OBVIOUS
<1>6. S \subseteq [name : Names, val : Values]
    BY DEF Entity
<1>7. \A j \in DOMAIN x : x[j] \in S
    BY <1>4
<1>8. x \in Input
    <2> DEFINE F == [name : Names, val : Values]
    <2> HIDE DEF S, F
    <2>1. Len(x) \in Nat /\ x = [j \in 1 .. Len(x) |-> x[j]] /\ \A j \in 1 .. Len(x) : x[j] \in S
        BY <1>4
    <2>2. S \subseteq F
        BY <1>6 DEF F
    <2>3. x \in Seq(F)
        BY <2>1, <2>2
    <2> QED  BY <2>3 DEF Input, F
<1>9. NoRepeats(x)
    BY <1>4, <1>5, <1>7 DEF NoRepeats
<1>10. \A n \in Names : AsEntity(x)[n] = ent[n]
    <2> TAKE n \in Names
    <2>1. CASE Places(x, n) # {}
        <3>1. Max(Places(x, n)) \in DOMAIN x /\ x[Max(Places(x, n))].name = n
            BY <1>8, <2>1, LastPlace
        <3>2. x[Max(Places(x, n))].val = ent[n]
            BY <1>5, <1>7, <3>1
        <3> QED  BY <2>1, <3>2 DEF AsEntity
    <2>2. CASE Places(x, n) = {}
        <3>1. n \notin P
            <4> SUFFICES ASSUME n \in P  PROVE FALSE
                OBVIOUS
            <4>1. field(n) \in ToSet(x)
                BY <1>4
            <4>2. PICK j \in DOMAIN x : x[j] = field(n)
                BY <4>1 DEF ToSet
            <4> QED  BY <2>2, <4>2 DEF Places
        <3> QED  BY <2>2, <3>1 DEF AsEntity
    <2> QED  BY <2>1, <2>2
<1>11. AsEntity(x) = ent
    BY <1>10 DEF AsEntity, Entity
<1> QED  BY <1>1, <1>8, <1>9, <1>11

-----------------------------------------------------------------------------
(* What is read.                                                           *)

\* The keys of fields and of index entries differ.
LEMMA KeyFacts ==
    /\ \A e \in Ids, f \in Nat : FieldKey(e, f) \in FieldKeys /\ FieldKey(e, f) \notin IndexKeys
    /\ \A e1, e2, f1, f2 : FieldKey(e1, f1) = FieldKey(e2, f2) => e1 = e2 /\ f1 = f2
    /\ \A k \in FieldKeys : k.tag = "E" /\ k.ent \in Ids /\ k.fld \in Nat /\ k = FieldKey(k.ent, k.fld)
    /\ \A k \in IndexKeys : k.tag \in {"I", "C"} /\ k \notin FieldKeys
    /\ \A e \in Ids : FieldKey(e, None) \notin FieldKeys \cup IndexKeys
<1>1. \A e \in Ids : FieldKey(e, None) \notin FieldKeys \cup IndexKeys
    BY NoneIsNoId DEF FieldKey, FieldKeys, IndexKeys
<1> QED  BY <1>1 DEF FieldKey, FieldKeys, IndexKeys

\* What a map has of its keys.
LEMMA MapFacts ==
    ASSUME NEW m \in Maps
    PROVE  /\ \A k \in DOMAIN m : \/ k \in FieldKeys /\ m[k] \in Values
                                  \/ k \in IndexKeys /\ m[k] = Listed
           /\ \A k : Val(m, k) # None <=> k \in DOMAIN m
<1>1. \A k \in DOMAIN m : \/ k \in FieldKeys /\ m[k] \in Values
                          \/ k \in IndexKeys /\ m[k] = Listed
    BY DEF Maps
<1> QED  BY <1>1, ValuesAssumption DEF Val

\* The fields that are stored of an entity.
LEMMA StoredFacts ==
    ASSUME NEW m \in Maps, NEW e \in Ids
    PROVE  /\ StoredFields(m, e) \subseteq Nat
           /\ \A f : f \in StoredFields(m, e) <=> FieldKey(e, f) \in DOMAIN m
           /\ \A f \in StoredFields(m, e) : m[FieldKey(e, f)] \in Values
<1>1. \A k \in DOMAIN m : k.tag = "E" <=> k \in FieldKeys
    BY MapFacts, KeyFacts
<1>2. \A f : FieldKey(e, f) \in DOMAIN m => f \in StoredFields(m, e)
    BY DEF StoredFields, FieldKey
<1>3. ASSUME NEW f \in StoredFields(m, e)
      PROVE  f \in Nat /\ FieldKey(e, f) \in DOMAIN m /\ m[FieldKey(e, f)] \in Values
    <2>1. PICK k \in DOMAIN m : k.tag = "E" /\ k.ent = e /\ k.fld = f
        BY <1>3 DEF StoredFields
    <2>2. k \in FieldKeys /\ k = FieldKey(e, f) /\ f \in Nat
        BY <1>1, <2>1, KeyFacts
    <2> QED  BY <2>1, <2>2, MapFacts, KeyFacts
<1> QED  BY <1>2, <1>3

\* A field reads as the value of its key.
LEMMA ReadFacts ==
    ASSUME NEW m \in Maps, NEW s \in Schemas
    PROVE  /\ Read(m, s) \in [Ids -> Entity]
           /\ \A e \in Ids : ReadEntity(m, s, e) \in Entity /\ Read(m, s)[e] = ReadEntity(m, s, e)
           /\ \A e \in Ids, n \in Names :
                /\ ReadEntity(m, s, e)[n] = Val(m, FieldKey(e, s.idOf[n]))
                /\ s.idOf[n] = None => ReadEntity(m, s, e)[n] = None
<1>1. \A e \in Ids, n \in Names :
        /\ ReadEntity(m, s, e)[n] = Val(m, FieldKey(e, s.idOf[n]))
        /\ s.idOf[n] = None => ReadEntity(m, s, e)[n] = None
        /\ ReadEntity(m, s, e)[n] \in Values \cup {None}
    <2> TAKE e \in Ids, n \in Names
    <2>1. ReadEntity(m, s, e)[n] = Val(m, FieldKey(e, s.idOf[n]))
        BY DEF ReadEntity, Val
    <2>2. CASE s.idOf[n] = None
        <3>1. FieldKey(e, s.idOf[n]) \notin DOMAIN m
            BY <2>2, KeyFacts, MapFacts
        <3> QED  BY <2>1, <3>1 DEF Val
    <2>3. CASE s.idOf[n] # None
        <3>1. s.idOf[n] \in Nat
            BY <2>3 DEF Schemas, Field
        <3>2. FieldKey(e, s.idOf[n]) \in DOMAIN m => m[FieldKey(e, s.idOf[n])] \in Values
            BY <3>1, KeyFacts, MapFacts
        <3> QED  BY <2>1, <2>3, <3>2 DEF Val
    <2> QED  BY <2>2, <2>3
<1>2. \A e \in Ids : ReadEntity(m, s, e) \in Entity
    BY <1>1 DEF ReadEntity, Entity
<1> QED  BY <1>1, <1>2 DEF Read

\* A patched entity is an entity.
LEMMA PatchedType ==
    ASSUME NEW m \in Maps, NEW s \in Schemas, NEW e \in Ids, NEW u \in Updates
    PROVE  Patched(m, s, e, u) \in Entity
<1>1. ReadEntity(m, s, e) \in Entity
    BY ReadFacts
<1>2. \A n \in DOMAIN u.set : u.set[n] \in Values \cup {None}
    BY InputsAssumption
<1> QED  BY <1>1, <1>2 DEF Patched, Entity

-----------------------------------------------------------------------------
(* The writes of a call.                                                   *)

\* fv are values of fields.
IsFields(fv) == DOMAIN fv \subseteq Nat /\ \A f \in DOMAIN fv : fv[f] \in Values

\* What is read of an entity: the values of those fields that are stored.
LEMMA StoredIsFields ==
    ASSUME NEW m \in Maps, NEW e \in Ids, NEW F
    PROVE  /\ IsFields(Stored(m, e, F))
           /\ DOMAIN Stored(m, e, F) = StoredFields(m, e) \cap F
           /\ \A f \in StoredFields(m, e) \cap F :
                Stored(m, e, F)[f] = m[FieldKey(e, f)] /\ Stored(m, e, F)[f] = Val(m, FieldKey(e, f))
BY StoredFacts DEF Stored, IsFields, Val

\* The entry of index ix for values fv of e.
EntryOf(s, ix, fv, e) == IndexKey(s, ix, [i \in DOMAIN ix |-> fv[s.idOf[ix[i]]]], e)

\* The ids of the fields of an index.
LEMMA NumberedIds ==
    ASSUME NEW s \in Schemas, NEW ix \in Indexes, Numbered(s, ix)
    PROVE  /\ ix \in Seq(Names) /\ ix # <<>>
           /\ \A i \in DOMAIN ix : ix[i] \in Names /\ s.idOf[ix[i]] \in Nat
           /\ FieldIds(s, ToSet(ix)) = {s.idOf[ix[i]] : i \in DOMAIN ix}
           /\ [i \in DOMAIN ix |-> s.idOf[ix[i]]] \in Seq(Nat \cup {None})
<1>1. ix \in Seq(Names) /\ ix # <<>>
    BY NamesAssumption
<1>2. \A i \in DOMAIN ix : ix[i] \in Names /\ ix[i] \in ToSet(ix)
    BY <1>1 DEF ToSet
<1>3. \A i \in DOMAIN ix : s.idOf[ix[i]] \in Nat /\ s.idOf[ix[i]] # None
    BY <1>2 DEF Numbered, Schemas, Field
<1>4. FieldIds(s, ToSet(ix)) = {s.idOf[ix[i]] : i \in DOMAIN ix}
    BY <1>3 DEF FieldIds, ToSet
<1>5. [i \in DOMAIN ix |-> s.idOf[ix[i]]] \in Seq(Nat \cup {None})
    <2>1. DOMAIN ix = 1 .. Len(ix) /\ Len(ix) \in Nat
        BY <1>1
    <2> QED  BY <1>3, <2>1
<1> QED  BY <1>1, <1>2, <1>3, <1>4, <1>5

\* An index key of values is one.
LEMMA IndexKeyType ==
    ASSUME NEW s \in Schemas, NEW ix \in Indexes, Numbered(s, ix), NEW e \in Ids,
           NEW vals, DOMAIN vals = DOMAIN ix, vals = [i \in DOMAIN vals |-> vals[i]],
           \A i \in DOMAIN vals : vals[i] \in Values
    PROVE  IndexKey(s, ix, vals, e) \in IndexKeys
<1>1. [i \in DOMAIN ix |-> s.idOf[ix[i]]] \in Seq(Nat \cup {None}) /\ ix \in Seq(Names)
    BY NumberedIds
<1>2. DOMAIN vals = 1 .. Len(ix) /\ Len(ix) \in Nat
    BY <1>1
<1>3. vals \in Seq(Values)
    BY <1>2
<1> QED  BY <1>1, <1>3 DEF IndexKey, IndexKeys

\* The entries for the values there are.
LEMMA OldEntriesFacts ==
    ASSUME NEW s \in Schemas, NEW ix \in Indexes, Numbered(s, ix), NEW e \in Ids,
           NEW fv, IsFields(fv)
    PROVE  /\ OldEntries(s, ix, fv, e) =
                IF \A i \in DOMAIN ix : s.idOf[ix[i]] \in DOMAIN fv
                THEN {EntryOf(s, ix, fv, e)} ELSE {}
           /\ OldEntries(s, ix, fv, e) \subseteq IndexKeys
           /\ \A k \in OldEntries(s, ix, fv, e) : k.ent = e
<1>1. OldEntries(s, ix, fv, e) =
        IF \A i \in DOMAIN ix : s.idOf[ix[i]] \in DOMAIN fv
        THEN {EntryOf(s, ix, fv, e)} ELSE {}
    <2>1. FieldIds(s, ToSet(ix)) = {s.idOf[ix[i]] : i \in DOMAIN ix}
        BY NumberedIds
    <2>2. FieldIds(s, ToSet(ix)) \subseteq DOMAIN fv <=> \A i \in DOMAIN ix : s.idOf[ix[i]] \in DOMAIN fv
        BY <2>1
    <2>3. OldEntries(s, ix, fv, e) =
            IF FieldIds(s, ToSet(ix)) \subseteq DOMAIN fv THEN {EntryOf(s, ix, fv, e)} ELSE {}
        BY DEF OldEntries, EntryOf
    <2> QED  BY <2>2, <2>3
<1>2. ASSUME \A i \in DOMAIN ix : s.idOf[ix[i]] \in DOMAIN fv
      PROVE  EntryOf(s, ix, fv, e) \in IndexKeys
    <2> DEFINE vals == [i \in DOMAIN ix |-> fv[s.idOf[ix[i]]]]
    <2>1. DOMAIN vals = DOMAIN ix /\ \A i \in DOMAIN vals : vals[i] \in Values
        BY <1>2 DEF IsFields
    <2>2. vals = [i \in DOMAIN vals |-> vals[i]]
        OBVIOUS
    <2> HIDE DEF vals
    <2>3. IndexKey(s, ix, vals, e) \in IndexKeys
        BY <2>1, <2>2, IndexKeyType
    <2> QED  BY <2>3 DEF EntryOf, vals
<1>3. EntryOf(s, ix, fv, e).ent = e
    BY DEF EntryOf, IndexKey
<1> QED  BY <1>1, <1>2, <1>3

\* The entries for the fields that are written.
LEMMA NewEntriesFacts ==
    ASSUME NEW s \in Schemas, NEW ix \in Indexes, Numbered(s, ix), NEW e \in Ids,
           NEW x \in Input
    PROVE  /\ NewEntries(s, ix, x, e) \subseteq IndexKeys
           /\ \A k \in NewEntries(s, ix, x, e) : k.ent = e
<1>1. ix \in Seq(Names)
    BY NumberedIds
<1>2. ASSUME NEW k \in NewEntries(s, ix, x, e)  PROVE k \in IndexKeys /\ k.ent = e
    <2>1. CASE Len(ix) = 1
        <3>1. PICK j \in Places(x, ix[1]) : k = IndexKey(s, ix, <<x[j].val>>, e)
            BY <1>2, <2>1 DEF NewEntries
        <3>2. x[j].val \in Values /\ DOMAIN ix = {1}
            BY <1>1, <2>1, <3>1, InputFacts DEF Places
        <3> DEFINE vals == <<x[j].val>>
        <3>3. DOMAIN vals = DOMAIN ix /\ \A i \in DOMAIN vals : vals[i] \in Values
            BY <3>2
        <3>4. vals = [i \in DOMAIN vals |-> vals[i]]
            OBVIOUS
        <3> HIDE DEF vals
        <3>5. IndexKey(s, ix, vals, e) \in IndexKeys
            BY <3>3, <3>4, IndexKeyType
        <3> QED  BY <3>1, <3>5 DEF IndexKey, vals
    <2>2. CASE Len(ix) # 1
        <3> DEFINE vals == [i \in DOMAIN ix |-> x[Min(Places(x, ix[i]))].val]
        <3>1. k = IndexKey(s, ix, vals, e) /\ \A i \in DOMAIN ix : Places(x, ix[i]) # {}
            BY <1>2, <2>2 DEF NewEntries
        <3>2. \A i \in DOMAIN ix : Min(Places(x, ix[i])) \in DOMAIN x
            BY <3>1, LastPlace
        <3>3. DOMAIN vals = DOMAIN ix /\ \A i \in DOMAIN vals : vals[i] \in Values
            BY <3>2, InputFacts
        <3>4. vals = [i \in DOMAIN vals |-> vals[i]]
            OBVIOUS
        <3> HIDE DEF vals
        <3>5. IndexKey(s, ix, vals, e) \in IndexKeys
            BY <3>3, <3>4, IndexKeyType
        <3> QED  BY <3>1, <3>5 DEF IndexKey
    <2> QED  BY <2>1, <2>2
<1> QED  BY <1>2

\* The entries of an entity are index keys that name it.
LEMMA EntriesType ==
    ASSUME NEW s \in Schemas, AllNumbered(s), NEW e \in Ids,
           NEW fv, IsFields(fv), NEW x \in Input
    PROVE  /\ \A k \in EntriesFor(s, fv, e) : k \in IndexKeys /\ k.ent = e
           /\ \A k \in EntriesPut(s, x, e) : k \in IndexKeys /\ k.ent = e
<1>1. \A ix \in IndexesWith(s, "ready") : ix \in Indexes /\ Numbered(s, ix)
    BY DEF IndexesWith, AllNumbered
<1>2. ASSUME NEW k \in EntriesFor(s, fv, e)  PROVE k \in IndexKeys /\ k.ent = e
    <2>1. PICK ix \in IndexesWith(s, "ready") : k \in OldEntries(s, ix, fv, e)
        BY <1>2 DEF EntriesFor
    <2> QED  BY <1>1, <2>1, OldEntriesFacts
<1>3. ASSUME NEW k \in EntriesPut(s, x, e)  PROVE k \in IndexKeys /\ k.ent = e
    <2>1. PICK ix \in IndexesWith(s, "ready") : k \in NewEntries(s, ix, x, e)
        BY <1>3 DEF EntriesPut
    <2> QED  BY <1>1, <2>1, NewEntriesFacts
<1> QED  BY <1>2, <1>3

\* Puts and deletions are batches.
LEMMA PutsAndDeletes ==
    /\ \A K : /\ KeysOfBatch(Puts(K)) = K /\ Distinct(Puts(K))
              /\ \A w \in Puts(K) : w.key \in K /\ w.val = Listed /\ w = Write(w.key, Listed)
    /\ \A K : /\ KeysOfBatch(Deletes(K)) = K /\ Distinct(Deletes(K))
              /\ \A w \in Deletes(K) : w.key \in K /\ w.val = None /\ w = Write(w.key, None)
    /\ \A K \in SUBSET IndexKeys : Puts(K) \in Batches /\ Deletes(K) \in Batches
    /\ \A K \in SUBSET FieldKeys : Deletes(K) \in Batches
    /\ \A k \in FieldKeys, v \in Values : {Write(k, v)} \in Batches
    /\ \A k, v : Write(k, v).key = k /\ Write(k, v).val = v
<1>0. \A k, v : Write(k, v).key = k /\ Write(k, v).val = v
    BY DEF Write
<1>1. \A K : /\ KeysOfBatch(Puts(K)) = K /\ Distinct(Puts(K))
             /\ \A w \in Puts(K) : w.key \in K /\ w.val = Listed /\ w = Write(w.key, Listed)
    <2> TAKE K
    <2>1. \A w \in Puts(K) : w.key \in K /\ w.val = Listed /\ w = Write(w.key, Listed)
        BY <1>0 DEF Puts
    <2>2. \A k \in K : Write(k, Listed) \in Puts(K)
        BY DEF Puts
    <2> QED  BY <1>0, <2>1, <2>2 DEF KeysOfBatch, Distinct
<1>2. \A K : /\ KeysOfBatch(Deletes(K)) = K /\ Distinct(Deletes(K))
             /\ \A w \in Deletes(K) : w.key \in K /\ w.val = None /\ w = Write(w.key, None)
    <2> TAKE K
    <2>1. \A w \in Deletes(K) : w.key \in K /\ w.val = None /\ w = Write(w.key, None)
        BY <1>0 DEF Deletes
    <2>2. \A k \in K : Write(k, None) \in Deletes(K)
        BY DEF Deletes
    <2> QED  BY <1>0, <2>1, <2>2 DEF KeysOfBatch, Distinct
<1>3. \A k \in IndexKeys : Write(k, Listed) \in Writes /\ Write(k, None) \in Writes
    BY DEF Writes, Write
<1>4. \A k \in FieldKeys, v \in Values \cup {None} : Write(k, v) \in Writes
    BY DEF Writes, Write
<1>5. \A K \in SUBSET IndexKeys : Puts(K) \in Batches /\ Deletes(K) \in Batches
    <2> TAKE K \in SUBSET IndexKeys
    <2>1. Puts(K) \subseteq Writes /\ Deletes(K) \subseteq Writes
        BY <1>3 DEF Puts, Deletes
    <2> QED  BY <1>1, <1>2, <2>1 DEF Batches
<1>6. \A K \in SUBSET FieldKeys : Deletes(K) \in Batches
    <2> TAKE K \in SUBSET FieldKeys
    <2>1. Deletes(K) \subseteq Writes
        BY <1>4 DEF Deletes
    <2> QED  BY <1>2, <2>1 DEF Batches
<1>7. \A k \in FieldKeys, v \in Values : {Write(k, v)} \in Batches
    BY <1>4 DEF Batches, Distinct
<1> QED  BY <1>0, <1>1, <1>2, <1>5, <1>6, <1>7

\* The keys of fields F of e.
KeysOfFields(e, F) == {FieldKey(e, f) : f \in F}

\* A phase after others.
LEMMA AppendPhase ==
    ASSUME NEW q \in Seq(Batches), NEW b \in Batches
    PROVE  /\ q \o <<b>> \in Seq(Batches) /\ Len(q \o <<b>>) = Len(q) + 1
           /\ (q \o <<b>>)[Len(q) + 1] = b
           /\ \A j \in 1 .. Len(q) : (q \o <<b>>)[j] = q[j]
OBVIOUS

\* The phases of writing the fields of an entity.
LEMMA FieldWritesFacts ==
    ASSUME NEW s \in Schemas, NEW e \in Ids, NEW fv, IsFields(fv),
           NEW x \in Input, Numbered(s, NamesOf(x))
    PROVE  LET p == FieldWrites(s, fv, x, e)
           IN  /\ p \in Seq(Batches) /\ Len(p) = Len(x) + 1
               /\ p[1] = Deletes(KeysOfFields(e, DOMAIN fv \ FieldIds(s, ToSet(NamesOf(x)))))
               /\ \A j \in DOMAIN x : p[j + 1] = {Write(FieldKey(e, s.idOf[x[j].name]), x[j].val)}
<1> DEFINE D == Deletes(KeysOfFields(e, DOMAIN fv \ FieldIds(s, ToSet(NamesOf(x)))))
           q == [j \in DOMAIN x |-> {Write(FieldKey(e, s.idOf[x[j].name]), x[j].val)}]
<1>1. D \in Batches
    <2>1. KeysOfFields(e, DOMAIN fv \ FieldIds(s, ToSet(NamesOf(x)))) \in SUBSET FieldKeys
        BY KeyFacts DEF IsFields, KeysOfFields
    <2> QED  BY <2>1, PutsAndDeletes
<1>2. ASSUME NEW j \in DOMAIN x  PROVE q[j] \in Batches
    <2>1. x[j].name \in Names /\ x[j].val \in Values /\ x[j].name \in ToSet(NamesOf(x))
        BY InputFacts
    <2>2. s.idOf[x[j].name] \in Nat
        BY <2>1 DEF Numbered, Schemas, Field
    <2>3. FieldKey(e, s.idOf[x[j].name]) \in FieldKeys
        BY <2>2, KeyFacts
    <2> QED  BY <2>1, <2>3, PutsAndDeletes
<1>3. Len(x) \in Nat /\ DOMAIN x = 1 .. Len(x) /\ DOMAIN q = DOMAIN x /\ q = [j \in DOMAIN q |-> q[j]]
    BY InputFacts
<1>4. FieldWrites(s, fv, x, e) = <<D>> \o q /\ \A j \in DOMAIN x : q[j] = {Write(FieldKey(e, s.idOf[x[j].name]), x[j].val)}
    BY DEF FieldWrites, KeysOfFields
<1> HIDE DEF D, q
<1>5. q \in Seq(Batches) /\ Len(q) = Len(x)
    BY <1>2, <1>3
<1>6. /\ <<D>> \o q \in Seq(Batches) /\ Len(<<D>> \o q) = Len(x) + 1
      /\ (<<D>> \o q)[1] = D /\ \A j \in DOMAIN q : (<<D>> \o q)[j + 1] = q[j]
    BY <1>1, <1>5
<1> QED  BY <1>3, <1>4, <1>6 DEF D

\* The phases of put_entity: what is new in the indexes, the fields that go,
\* the fields of x, and what is old in the indexes.
PutPhases(p, s, e, x, old, new, gone) ==
    /\ p \in Seq(Batches) /\ Len(p) = Len(x) + 3
    /\ p[1] = Puts(new \ old)
    /\ p[2] = Deletes(KeysOfFields(e, gone))
    /\ \A j \in DOMAIN x : p[j + 2] = {Write(FieldKey(e, s.idOf[x[j].name]), x[j].val)}
    /\ p[Len(x) + 3] = Deletes(old \ new)

\* The fields that are read and that x lacks.
Gone(m, s, h, e, x) == DOMAIN OldValues(m, s, h, x, e) \ FieldIds(s, ToSet(NamesOf(x)))

\* core_put_entity makes these phases.
LEMMA PutWritesFacts ==
    ASSUME NEW m \in Maps, NEW s \in Schemas, AllNumbered(s), NEW h, NEW e \in Ids,
           NEW x \in Input, Numbered(s, NamesOf(x))
    PROVE  PutPhases(PutWrites(m, s, h, e, x), s, e, x,
                     EntriesFor(s, OldValues(m, s, h, x, e), e), EntriesPut(s, x, e),
                     Gone(m, s, h, e, x))
<1> DEFINE fv == OldValues(m, s, h, x, e)
           old == EntriesFor(s, fv, e)
           new == EntriesPut(s, x, e)
           q == FieldWrites(s, fv, x, e)
           A == Puts(new \ old)
           Z == Deletes(old \ new)
<1>1. IsFields(fv)
    <2>1. PICK F : fv = Stored(m, e, F)
        BY DEF OldValues
    <2> QED  BY <2>1, StoredIsFields
<1>2. A \in Batches /\ Z \in Batches
    <2>1. (new \ old) \in SUBSET IndexKeys /\ (old \ new) \in SUBSET IndexKeys
        <3> HIDE DEF fv
        <3> QED  BY <1>1, EntriesType
    <2> QED  BY <2>1, PutsAndDeletes
<1>3. /\ q \in Seq(Batches) /\ Len(q) = Len(x) + 1
      /\ q[1] = Deletes(KeysOfFields(e, DOMAIN fv \ FieldIds(s, ToSet(NamesOf(x)))))
      /\ \A j \in DOMAIN x : q[j + 1] = {Write(FieldKey(e, s.idOf[x[j].name]), x[j].val)}
    <2> HIDE DEF fv, A, Z, old, new
    <2> QED  BY <1>1, FieldWritesFacts
<1>4. PutWrites(m, s, h, e, x) = <<A>> \o q \o <<Z>>
    BY DEF PutWrites
<1>5. Len(x) \in Nat /\ DOMAIN x = 1 .. Len(x)
    BY InputFacts
<1> HIDE DEF fv, old, new, q, A, Z
<1> DEFINE p == <<A>> \o q \o <<Z>>
<1>6. /\ p \in Seq(Batches) /\ Len(p) = Len(q) + 2
      /\ p[1] = A /\ p[Len(q) + 2] = Z
      /\ \A j \in 1 .. Len(q) : p[j + 1] = q[j]
    <2> DEFINE r == <<A>> \o q
    <2>1. /\ r \in Seq(Batches) /\ Len(r) = Len(q) + 1 /\ r[1] = A
          /\ \A j \in 1 .. Len(q) : r[j + 1] = q[j]
        BY <1>2, <1>3
    <2> HIDE DEF r
    <2>2. Len(q) \in Nat
        BY <1>3
    <2>3. /\ r \o <<Z>> \in Seq(Batches) /\ Len(r \o <<Z>>) = Len(r) + 1
          /\ (r \o <<Z>>)[Len(r) + 1] = Z
          /\ \A j \in 1 .. Len(r) : (r \o <<Z>>)[j] = r[j]
        BY <1>2, <2>1
    <2>4. \A j \in 1 .. Len(q) : j + 1 \in 1 .. Len(r)
        BY <2>1, <2>2
    <2>5. 1 \in 1 .. Len(r)
        BY <2>1, <2>2
    <2> QED  BY <2>1, <2>2, <2>3, <2>4, <2>5 DEF r
<1> HIDE DEF p
<1>7. /\ Len(p) = Len(x) + 3 /\ p[Len(x) + 3] = Z
      /\ p[2] = q[1]
    <2>1. 1 \in 1 .. Len(q)
        BY <1>3, <1>5
    <2>2. p[1 + 1] = q[1]
        BY <1>6, <2>1
    <2> QED  BY <1>3, <1>5, <1>6, <2>2
<1>8. \A j \in DOMAIN x : p[j + 2] = q[j + 1]
    <2> TAKE j \in DOMAIN x
    <2>1. j + 1 \in 1 .. Len(q) /\ (j + 1) + 1 = j + 2
        BY <1>3, <1>5
    <2> QED  BY <1>6, <2>1
<1> QED  BY <1>3, <1>4, <1>6, <1>7, <1>8 DEF fv, old, new, A, Z, p, PutPhases, Gone

\* The phases of delete_entity: all fields, then the index entries.
DeletePhases(p, m, s, e) ==
    /\ p \in Seq(Batches) /\ Len(p) = 2
    /\ p[1] = Deletes(KeysOfFields(e, StoredFields(m, e)))
    /\ p[2] = Deletes(EntriesFor(s, Stored(m, e, StoredFields(m, e)), e))

\* core_delete_entity makes these phases.
LEMMA DeleteWritesFacts ==
    ASSUME NEW m \in Maps, NEW s \in Schemas, AllNumbered(s), NEW e \in Ids
    PROVE  DeletePhases(DeleteWrites(m, s, e), m, s, e)
<1> DEFINE fv == Stored(m, e, StoredFields(m, e))
           D == Deletes(KeysOfFields(e, StoredFields(m, e)))
           Z == Deletes(EntriesFor(s, fv, e))
<1>1. IsFields(fv) /\ DOMAIN fv = StoredFields(m, e)
    <2>1. StoredFields(m, e) \cap StoredFields(m, e) = StoredFields(m, e)
        OBVIOUS
    <2> QED  BY <2>1, StoredIsFields
<1> DEFINE x == <<>>
<1>2. x \in Input /\ Len(x) = 0 /\ ToSet(NamesOf(x)) = {}
    BY DEF Input, NamesOf, ToSet
<1> HIDE DEF fv, x
<1>3. EntriesFor(s, fv, e) \in SUBSET IndexKeys
    BY <1>1, <1>2, EntriesType
<1>4. Z \in Batches
    BY <1>3, PutsAndDeletes
<1>5. Numbered(s, NamesOf(x)) /\ FieldIds(s, ToSet(NamesOf(x))) = {}
    BY <1>2 DEF Numbered, FieldIds
<1> DEFINE q == FieldWrites(s, fv, x, e)
<1>6. q \in Seq(Batches) /\ Len(q) = 1 /\ q[1] = D
    <2>1. /\ q \in Seq(Batches) /\ Len(q) = Len(x) + 1
          /\ q[1] = Deletes(KeysOfFields(e, DOMAIN fv \ FieldIds(s, ToSet(NamesOf(x)))))
        <3>1. ASSUME NEW y \in Input, Numbered(s, NamesOf(y))
              PROVE  LET p == FieldWrites(s, fv, y, e)
                     IN  /\ p \in Seq(Batches) /\ Len(p) = Len(y) + 1
                         /\ p[1] = Deletes(KeysOfFields(e, DOMAIN fv \ FieldIds(s, ToSet(NamesOf(y)))))
            <4> HIDE DEF D, Z, q
            <4> QED  BY <1>1, <3>1, FieldWritesFacts
        <3> HIDE DEF D, Z
        <3> QED  BY <1>2, <1>5, <3>1
    <2>2. DOMAIN fv \ FieldIds(s, ToSet(NamesOf(x))) = StoredFields(m, e)
        BY <1>1, <1>5
    <2>3. Len(x) + 1 = 1
        BY <1>2
    <2> HIDE DEF q
    <2> QED  BY <2>1, <2>2, <2>3
<1>7. DeleteWrites(m, s, e) = q \o <<Z>>
    BY DEF DeleteWrites, fv, x
<1> HIDE DEF q, Z, D
<1>8. /\ q \o <<Z>> \in Seq(Batches) /\ Len(q \o <<Z>>) = 2
      /\ (q \o <<Z>>)[1] = q[1] /\ (q \o <<Z>>)[2] = Z
    <2>1. /\ q \o <<Z>> \in Seq(Batches) /\ Len(q \o <<Z>>) = Len(q) + 1
          /\ (q \o <<Z>>)[Len(q) + 1] = Z
          /\ \A j \in 1 .. Len(q) : (q \o <<Z>>)[j] = q[j]
        BY <1>4, <1>6, AppendPhase
    <2>2. 1 \in 1 .. Len(q) /\ Len(q) + 1 = 2
        BY <1>6
    <2> QED  BY <2>1, <2>2
<1> QED  BY <1>6, <1>7, <1>8 DEF fv, Z, D, DeletePhases

\* The phases of an index build, and of dropping an index.
LEMMA RebuildWritesFacts ==
    ASSUME NEW m \in Maps, NEW s \in Schemas, NEW ix \in Indexes
    PROVE  /\ EntriesOf(m, s, ix) \subseteq IndexKeys
           /\ <<Deletes(EntriesOf(m, s, ix))>> \in Seq(Batches)
           /\ Numbered(s, ix) =>
                /\ RightEntries(m, s, ix) \subseteq IndexKeys
                /\ \A k \in RightEntries(m, s, ix) : k.flds = [i \in DOMAIN ix |-> s.idOf[ix[i]]]
                /\ RebuildWrites(m, s, ix) \in Seq(Batches)
<1>1. EntriesOf(m, s, ix) \subseteq IndexKeys
    BY MapFacts, KeyFacts DEF EntriesOf
<1>2. Deletes(EntriesOf(m, s, ix)) \in Batches
    BY <1>1, PutsAndDeletes
<1>3. ASSUME Numbered(s, ix), NEW k \in RightEntries(m, s, ix)
      PROVE  k \in IndexKeys /\ k.flds = [i \in DOMAIN ix |-> s.idOf[ix[i]]]
    <2>1. PICK e \in Ids : k \in OldEntries(s, ix, Stored(m, e, StoredFields(m, e)), e)
        BY <1>3 DEF RightEntries
    <2>2. IsFields(Stored(m, e, StoredFields(m, e)))
        BY StoredIsFields
    <2>3. k \in IndexKeys /\ k = EntryOf(s, ix, Stored(m, e, StoredFields(m, e)), e)
        BY <1>3, <2>1, <2>2, OldEntriesFacts
    <2> QED  BY <2>3 DEF EntryOf, IndexKey
<1>4. ASSUME Numbered(s, ix)  PROVE RebuildWrites(m, s, ix) \in Seq(Batches)
    <2>1. RightEntries(m, s, ix) \in SUBSET IndexKeys
        BY <1>3, <1>4
    <2>2. Puts(RightEntries(m, s, ix)) \in Batches
        BY <2>1, PutsAndDeletes
    <2> QED  BY <1>2, <2>2 DEF RebuildWrites
<1>5. <<Deletes(EntriesOf(m, s, ix))>> \in Seq(Batches)
    BY <1>2
<1>6. Numbered(s, ix) => /\ RightEntries(m, s, ix) \subseteq IndexKeys
                         /\ \A k \in RightEntries(m, s, ix) : k.flds = [i \in DOMAIN ix |-> s.idOf[ix[i]]]
    BY <1>3
<1> QED  BY <1>1, <1>4, <1>5, <1>6

\* The keys of a one-field index in the place of a composite one.
IsNarrow(k) == k \in IndexKeys /\ k.tag = "C"

\* What create_composite_index and drop_composite_index of one field write.
LEMMA NarrowWritesFacts ==
    ASSUME NEW m \in Maps, NEW s \in Schemas, NEW ix \in Indexes
    PROVE  /\ <<Deletes(NarrowEntriesOf(m, s, ix))>> \in Seq(Batches)
           /\ \A k \in KeysOfLog(<<Deletes(NarrowEntriesOf(m, s, ix))>>) : IsNarrow(k)
           /\ Numbered(s, ix) => /\ NarrowRebuildWrites(m, s, ix) \in Seq(Batches)
                                 /\ \A k \in KeysOfLog(NarrowRebuildWrites(m, s, ix)) : IsNarrow(k)
<1> DEFINE D == NarrowEntriesOf(m, s, ix)
           P == {NarrowKey(k) : k \in RightEntries(m, s, ix)}
<1>1. \A k \in D : IsNarrow(k)
    BY MapFacts, KeyFacts DEF NarrowEntriesOf, IsNarrow
<1>2. ASSUME Numbered(s, ix)  PROVE \A k \in P : IsNarrow(k)
    <2>1. RightEntries(m, s, ix) \subseteq IndexKeys
        BY <1>2, RebuildWritesFacts
    <2>2. \A k \in IndexKeys : IsNarrow(NarrowKey(k))
        BY DEF IndexKeys, NarrowKey, IsNarrow
    <2> QED  BY <2>1, <2>2
<1> HIDE DEF D, P
<1>3. /\ D \in SUBSET IndexKeys
      /\ Numbered(s, ix) => P \in SUBSET IndexKeys
    BY <1>1, <1>2 DEF IsNarrow
<1>4. /\ Deletes(D) \in Batches /\ KeysOfBatch(Deletes(D)) = D /\ KeysOfBatch(Puts(P)) = P
      /\ Numbered(s, ix) => Puts(P) \in Batches
    BY <1>3, PutsAndDeletes
<1>5. /\ KeysOfLog(<<Deletes(D)>>) = D
      /\ KeysOfLog(<<Deletes(D), Puts(P)>>) = D \cup P
    BY <1>4 DEF KeysOfLog
<1>6. NarrowRebuildWrites(m, s, ix) = <<Deletes(D), Puts(P)>>
    BY DEF NarrowRebuildWrites, D, P
<1>7. /\ <<Deletes(D)>> \in Seq(Batches)
      /\ Numbered(s, ix) => <<Deletes(D), Puts(P)>> \in Seq(Batches)
    BY <1>4
<1>8. /\ <<Deletes(D)>> \in Seq(Batches)
      /\ \A k \in KeysOfLog(<<Deletes(D)>>) : IsNarrow(k)
      /\ Numbered(s, ix) => /\ <<Deletes(D), Puts(P)>> \in Seq(Batches)
                            /\ \A k \in KeysOfLog(<<Deletes(D), Puts(P)>>) : IsNarrow(k)
    BY <1>1, <1>2, <1>5, <1>7
<1> QED  BY <1>6, <1>8 DEF D

-----------------------------------------------------------------------------
(* Types.                                                                  *)

Ops == {"none", "put", "cas", "delete", "create", "drop", "narrow_create", "narrow_drop",
        "flush", "close", "commit"}
Steps == {"idle", "tx", "write", "save", "truncate", "persist", "block", "sync", "recover", "down"}
Jobs == [op : Ops, ent : SUBSET Ids, ids : SUBSET Nat, ix : Indexes \cup {<<>>},
         todo : Seq(Batches), after : Steps, back : Steps]

\* The engine's parts; SCHEMA's; the store's; and the call under way.
EngineType == base \in Maps /\ log \in Seq(Batches) /\ synced \in 0 .. Len(log)
\* Ids mean the same in memory and on disk.
SchemaType ==
    /\ schema \in Schemas /\ AllNumbered(schema) /\ GoodIds(schema)
    /\ saved \in Schemas /\ AllNumbered(saved) /\ GoodIds(saved)
    /\ Extends(schema, saved)
StateType ==
    /\ hint \in [Ids -> SUBSET SUBSET Nat]
    /\ pending \in Batches
    /\ want \in [Ids -> Entity]
    /\ pc \in Steps
\* The index that is built is one, of fields with ids.
JobType ==
    /\ job \in Jobs
    /\ job.op \in {"create", "drop", "narrow_create", "narrow_drop"} => job.ix \in Indexes
    /\ job.op \in {"create", "narrow_create"} => Numbered(schema, job.ix)
TInv == EngineType /\ SchemaType /\ StateType /\ JobType

\* What the engine holds, and what a transaction sees, are maps.
LEMMA ViewType ==
    ASSUME EngineType
    PROVE  Kv \in Maps /\ (pending \in Batches => View \in Maps)
<1>1. Kv \in Maps
    BY ReplayType DEF EngineType, Kv
<1> QED  BY <1>1, ApplyType DEF View

\* Schema::field_id for the fields of a call: what the schema promises stays so.
LEMMA NewSchema ==
    ASSUME SchemaType, NEW ns \in Seq(Names)
    PROVE  LET s == Allot(schema, ns)
           IN  /\ s \in Schemas /\ AllNumbered(s) /\ GoodIds(s)
               /\ Extends(s, schema) /\ Extends(s, saved)
               /\ Numbered(s, ns)
               /\ \A ix \in Indexes : Numbered(schema, ix) => Numbered(s, ix)
               /\ s.status = schema.status
               /\ \A n \in Names : schema.idOf[n] = None /\ s.idOf[n] # None
                                    => s.idOf[n] >= schema.next
<1> DEFINE s == Allot(schema, ns)
<1>1. /\ s \in Schemas /\ s.status = schema.status /\ Extends(s, schema) /\ GoodIds(s)
      /\ Numbered(s, ns)
      /\ \A n \in Names : schema.idOf[n] = None /\ s.idOf[n] # None => s.idOf[n] >= schema.next
    BY AllotFacts DEF SchemaType
<1> HIDE DEF s
<1>2. Extends(s, saved)
    BY <1>1 DEF SchemaType, Extends
<1>3. \A ix \in Indexes : Numbered(schema, ix) => Numbered(s, ix)
    <2>1. \A ix \in Indexes : ToSet(ix) \subseteq Names
        BY NamesAssumption DEF ToSet
    <2> QED  BY <1>1, <2>1 DEF Numbered, Extends
<1>4. AllNumbered(s)
    BY <1>1, <1>3 DEF AllNumbered, SchemaType
<1> QED  BY <1>1, <1>2, <1>3, <1>4 DEF s

\* The types of an empty store.
LEMMA InitTypes == Init => TInv
<1> SUFFICES ASSUME Init  PROVE TInv
    OBVIOUS
<1>1. NoSchema \in Schemas /\ GoodIds(NoSchema)
    BY DEF NoSchema, Schemas, Field, Statuses, GoodIds
<1> DEFINE N == UNION {ToSet(ix) : ix \in InitialReady}
           t == Allot(NoSchema, SetToSeq(N))
<1>2. \A ix \in Indexes : ToSet(ix) \subseteq Names
    BY NamesAssumption DEF ToSet
<1>3. N \subseteq Names /\ IsFiniteSet(N)
    BY <1>2, NamesAssumption, FS_Subset
<1> HIDE DEF N
<1>4. SetToSeq(N) \in Seq(Names) /\ ToSet(SetToSeq(N)) = N
    <2>1. SetToSeq(N) \in Seq(N) /\ ToSet(SetToSeq(N)) = N
        BY <1>3, ListOfSet
    <2> DEFINE q == SetToSeq(N)
    <2> HIDE DEF q
    <2>2. q \in Seq(N) => q \in Seq(Names)
        BY <1>3
    <2> QED  BY <2>1, <2>2 DEF q
<1>5. t \in Schemas /\ GoodIds(t) /\ \A n \in N : t.idOf[n] # None
    BY <1>1, <1>4, AllotFacts DEF Numbered
<1> HIDE DEF t
<1>6. schema = [t EXCEPT !.status = [ix \in Indexes |-> IF ix \in InitialReady THEN "ready" ELSE "none"]]
    BY DEF Init, SchemaWith, t, N
<1>7. schema \in Schemas /\ GoodIds(schema) /\ schema.idOf = t.idOf
      /\ schema.status = [ix \in Indexes |-> IF ix \in InitialReady THEN "ready" ELSE "none"]
    BY <1>5, <1>6 DEF Schemas, Statuses, GoodIds
<1>8. AllNumbered(schema)
    <2> SUFFICES ASSUME NEW ix \in Indexes, schema.status[ix] # "none"  PROVE Numbered(schema, ix)
        BY DEF AllNumbered
    <2>1. ix \in InitialReady
        BY <1>7
    <2>2. ToSet(ix) \subseteq N
        BY <2>1 DEF N
    <2> QED  BY <1>5, <1>7, <2>2 DEF Numbered
<1>9. Extends(schema, saved) /\ saved = schema
    BY DEF Init, Extends
<1>10. SchemaType
    BY <1>7, <1>8, <1>9 DEF SchemaType
<1>11. <<>> \in Maps /\ <<>> \in Seq(Batches) /\ Len(<<>>) = 0 /\ {} \in Batches
    <2>1. DOMAIN <<>> = {}
        OBVIOUS
    <2>2. <<>> \in [{} -> Values \cup {Listed}]
        OBVIOUS
    <2> QED  BY <2>1, <2>2 DEF Maps, Batches, Distinct
<1>12. EngineType
    BY <1>11 DEF Init, EngineType
<1>13. NoEntity \in Entity
    BY DEF NoEntity, Entity
<1>14. StateType
    BY <1>11, <1>13 DEF Init, StateType, Steps
<1>15. JobType
    BY <1>11 DEF Init, JobType, NoJob, Jobs, Ops, Steps
<1> QED  BY <1>10, <1>12, <1>14, <1>15 DEF TInv

\* Inputs, patched or not, are lists of fields with names.
LEMMA InputNames ==
    /\ \A x \in Inputs : x \in Input /\ NamesOf(x) \in Seq(Names) /\ AsEntity(x) \in Entity
    /\ \A ent \in Entity : /\ AsInput(ent) \in Input /\ NamesOf(AsInput(ent)) \in Seq(Names)
                           /\ AsEntity(AsInput(ent)) = ent /\ NoRepeats(AsInput(ent))
<1>1. \A x \in Inputs : x \in Input
    BY InputsAssumption DEF Input
<1>2. \A x \in Input : NamesOf(x) \in Seq(Names) /\ AsEntity(x) \in Entity
    BY InputFacts
<1> QED  BY <1>1, <1>2, AsInputFacts

\* The job of a put, for store or transaction: types of its parts.
LEMMA PutTypes ==
    ASSUME SchemaType, NEW m \in Maps, NEW h, NEW e \in Ids, NEW x \in Input
    PROVE  LET s == Allot(schema, NamesOf(x))
           IN  /\ PutWrites(m, s, h, e, x) \in Seq(Batches)
               /\ FieldIds(s, ToSet(NamesOf(x))) \in SUBSET Nat
<1> DEFINE s == Allot(schema, NamesOf(x))
<1>1. NamesOf(x) \in Seq(Names)
    BY InputFacts
<1>2. s \in Schemas /\ AllNumbered(s) /\ Numbered(s, NamesOf(x))
    BY <1>1, NewSchema
<1> HIDE DEF s
<1>3. PutWrites(m, s, h, e, x) \in Seq(Batches)
    BY <1>2, PutWritesFacts DEF PutPhases
<1>4. ToSet(NamesOf(x)) \subseteq Names
    BY <1>1 DEF ToSet
<1>5. FieldIds(s, ToSet(NamesOf(x))) \subseteq Nat
    BY <1>2, <1>4 DEF FieldIds, Schemas, Field
<1> QED  BY <1>3, <1>5 DEF s

\* The schema after a change of the status of an index.
LEMMA StatusType ==
    ASSUME NEW s \in Schemas, AllNumbered(s), GoodIds(s), NEW ix \in Indexes, Numbered(s, ix),
           NEW st \in Statuses
    PROVE  LET t == WithStatus(s, ix, st)
           IN  /\ t \in Schemas /\ AllNumbered(t) /\ GoodIds(t)
               /\ t.idOf = s.idOf /\ t.next = s.next
               /\ t.status = [s.status EXCEPT ![ix] = st]
<1> DEFINE t == WithStatus(s, ix, st)
<1>1. /\ t \in Schemas /\ t.idOf = s.idOf /\ t.next = s.next
      /\ t.status = [s.status EXCEPT ![ix] = st]
    BY DEF WithStatus, Schemas
<1> HIDE DEF t
<1>2. s.status \in [Indexes -> Statuses]
    BY DEF Schemas
<1>3. AllNumbered(t)
    BY <1>1, <1>2 DEF AllNumbered, Numbered
<1> QED  BY <1>1, <1>3 DEF GoodIds, t

\* A registered index has ids for its fields, and is being built unless it is there.
LEMMA RegisteredType ==
    ASSUME SchemaType, NEW ix \in Indexes
    PROVE  LET t == Registered(schema, ix)
           IN  /\ t \in Schemas /\ AllNumbered(t) /\ GoodIds(t)
               /\ Extends(t, schema) /\ Extends(t, saved)
               /\ Numbered(t, ix)
               /\ t.status = IF schema.status[ix] = "none"
                             THEN [schema.status EXCEPT ![ix] = "building"] ELSE schema.status
<1> DEFINE s == Allot(schema, ix)
           t == Registered(schema, ix)
<1>1. ix \in Seq(Names)
    BY NamesAssumption
<1>2. /\ s \in Schemas /\ AllNumbered(s) /\ GoodIds(s)
      /\ Extends(s, schema) /\ Extends(s, saved) /\ Numbered(s, ix) /\ s.status = schema.status
    BY <1>1, NewSchema
<1>3. t = IF s.status[ix] = "none" THEN WithStatus(s, ix, "building") ELSE s
    BY DEF Registered
<1> HIDE DEF s, t
<1>4. CASE s.status[ix] = "none"
    <2>1. t = WithStatus(s, ix, "building") /\ "building" \in Statuses
        BY <1>3, <1>4 DEF Statuses
    <2>2. /\ t \in Schemas /\ AllNumbered(t) /\ GoodIds(t)
          /\ t.idOf = s.idOf /\ t.status = [s.status EXCEPT ![ix] = "building"]
        BY <1>2, <2>1, StatusType
    <2> QED  BY <1>2, <1>4, <2>2 DEF Extends, Numbered, t
<1>5. CASE s.status[ix] # "none"
    BY <1>2, <1>3, <1>5 DEF t
<1> QED  BY <1>4, <1>5

\* What the log becomes.
LEMMA LogTypes ==
    ASSUME EngineType
    PROVE  /\ log \in Seq(Batches) /\ Len(log) \in Nat /\ synced \in Nat
           /\ \A b \in Batches : Append(log, b) \in Seq(Batches) /\ Len(Append(log, b)) = Len(log) + 1
           /\ \A n \in synced .. Len(log) : SubSeq(log, 1, n) \in Seq(Batches) /\ Len(SubSeq(log, 1, n)) = n
<1>1. log \in Seq(Batches) /\ Len(log) \in Nat /\ synced \in 0 .. Len(log)
    BY DEF EngineType
<1>2. \A n \in synced .. Len(log) : n \in Nat
    BY <1>1
<1> QED  BY <1>1, <1>2

\* No job is a job.
LEMMA NoJobType == NoJob \in Jobs /\ NoJob.op = "none"
<1>1. <<>> \in Seq(Batches)
    OBVIOUS
<1> QED  BY <1>1 DEF NoJob, Jobs, Ops, Steps

\* Steps that start a call preserve the types.
LEMMA StartTypes ==
    ASSUME TInv
    PROVE  /\ \A e \in Ids, x \in Inputs : PutEntity(e, x) => TInv'
           /\ \A e \in Ids, u \in Updates : CasUpdate(e, u) => TInv'
           /\ \A e \in Ids : DeleteEntity(e) => TInv'
           /\ \A ix \in Indexes : CreateIndex(ix) \/ RecoverIndex(ix) \/ DropIndex(ix) => TInv'
           /\ \A ix \in Indexes : NarrowCreateIndex(ix) \/ NarrowDropIndex(ix) => TInv'
           /\ Flush \/ Close \/ Begin \/ StartCommit => TInv'
<1>1. EngineType /\ SchemaType /\ StateType /\ JobType /\ job \in Jobs
    BY DEF TInv, JobType
<1>2. Kv \in Maps /\ View \in Maps
    BY <1>1, ViewType DEF StateType
<1>3. ASSUME NEW e \in Ids, NEW x \in Input, schema' = Allot(schema, NamesOf(x)),
             NEW op \in {"put", "cas"},
             job' = [NoJob EXCEPT !.op = op, !.ent = {e},
                            !.ids = FieldIds(schema', ToSet(NamesOf(x))),
                            !.todo = PutWrites(Kv, schema', hint[e], e, x)],
             UNCHANGED saved
      PROVE  SchemaType' /\ JobType'
    <2>1. NamesOf(x) \in Seq(Names)
        BY InputFacts
    <2>2. SchemaType'
        BY <1>1, <1>3, <2>1, NewSchema DEF SchemaType
    <2>3. PutWrites(Kv, schema', hint[e], e, x) \in Seq(Batches)
          /\ FieldIds(schema', ToSet(NamesOf(x))) \in SUBSET Nat
        BY <1>1, <1>2, <1>3, PutTypes
    <2> QED  BY <1>3, <2>2, <2>3 DEF NoJob, Jobs, Ops, Steps, JobType
<1>4. ASSUME NEW e \in Ids, NEW v \in Entity, want' = [want EXCEPT ![e] = v],
             UNCHANGED <<hint, pending>>, pc' = "write"
      PROVE  StateType'
    BY <1>1, <1>4 DEF StateType, Steps
<1>5. ASSUME NEW e \in Ids, NEW x \in Inputs, PutEntity(e, x)  PROVE TInv'
    <2>1. x \in Input /\ AsEntity(x) \in Entity
        BY InputNames
    <2>2. SchemaType' /\ JobType'
        BY <1>3, <1>5, <2>1 DEF PutEntity
    <2>3. StateType'
        BY <1>4, <1>5, <2>1 DEF PutEntity
    <2>4. EngineType'
        BY <1>1, <1>5 DEF PutEntity, engine, EngineType
    <2> QED  BY <2>2, <2>3, <2>4 DEF TInv
<1>6. ASSUME NEW e \in Ids, NEW u \in Updates, CasUpdate(e, u)  PROVE TInv'
    <2> DEFINE p == Patched(Kv, schema, e, u)
    <2>1. p \in Entity
        BY <1>1, <1>2, PatchedType DEF SchemaType
    <2> HIDE DEF p
    <2>2. AsInput(p) \in Input
        BY <2>1, InputNames
    <2>3. /\ schema' = Allot(schema, NamesOf(AsInput(p)))
          /\ job' = [NoJob EXCEPT !.op = "cas", !.ent = {e},
                            !.ids = FieldIds(schema', ToSet(NamesOf(AsInput(p)))),
                            !.todo = PutWrites(Kv, schema', hint[e], e, AsInput(p))]
          /\ want' = [want EXCEPT ![e] = p]
          /\ pc' = "write"
          /\ UNCHANGED <<engine, saved, hint, pending>>
        BY <1>6 DEF CasUpdate, p
    <2>4. SchemaType' /\ JobType'
        BY <1>3, <2>2, <2>3
    <2>5. StateType'
        BY <1>4, <2>1, <2>3
    <2>6. EngineType'
        BY <1>1, <2>3 DEF engine, EngineType
    <2> QED  BY <2>4, <2>5, <2>6 DEF TInv
<1>7. ASSUME NEW e \in Ids, DeleteEntity(e)  PROVE TInv'
    <2>1. NoEntity \in Entity
        BY DEF NoEntity, Entity
    <2>2. StateType'
        BY <1>4, <1>7, <2>1 DEF DeleteEntity
    <2>3. DeleteWrites(Kv, schema, e) \in Seq(Batches)
        BY <1>1, <1>2, DeleteWritesFacts DEF SchemaType, DeletePhases
    <2>4. JobType'
        BY <1>7, <2>3 DEF DeleteEntity, NoJob, Jobs, Ops, Steps, JobType
    <2>5. EngineType' /\ SchemaType'
        BY <1>1, <1>7 DEF DeleteEntity, engine, EngineType, SchemaType
    <2> QED  BY <2>2, <2>4, <2>5 DEF TInv
<1>8. ASSUME NEW ix \in Indexes, CreateIndex(ix) \/ RecoverIndex(ix)  PROVE TInv'
    <2>1. PICK to \in {"idle", "recover"} : StartCreate(ix, to)
        BY <1>8 DEF CreateIndex, RecoverIndex
    <2>2. UNCHANGED <<engine, saved, hint, pending, history>>
        BY <1>8 DEF CreateIndex, RecoverIndex
    <2>3. schema' = Registered(schema, ix)
        BY <2>1 DEF StartCreate
    <2>4. /\ schema' \in Schemas /\ AllNumbered(schema') /\ GoodIds(schema')
          /\ Extends(schema', saved) /\ Numbered(schema', ix)
        BY <1>1, <2>3, RegisteredType
    <2>5. SchemaType'
        BY <1>1, <2>2, <2>4 DEF SchemaType
    <2>6. RebuildWrites(Kv, schema', ix) \in Seq(Batches)
        BY <1>2, <2>4, RebuildWritesFacts
    <2>7. JobType'
        BY <2>1, <2>4, <2>6 DEF StartCreate, NoJob, Jobs, Ops, Steps, JobType
    <2>8. EngineType' /\ StateType'
        BY <1>1, <2>1, <2>2 DEF StartCreate, engine, history, EngineType, StateType, Steps
    <2> QED  BY <2>5, <2>7, <2>8 DEF TInv
<1>9. ASSUME NEW ix \in Indexes, DropIndex(ix)  PROVE TInv'
    <2>1. <<Deletes(EntriesOf(Kv, schema, ix))>> \in Seq(Batches)
        BY <1>1, <1>2, RebuildWritesFacts DEF SchemaType
    <2>2. JobType'
        BY <1>9, <2>1 DEF DropIndex, NoJob, Jobs, Ops, Steps, JobType
    <2>3. EngineType' /\ SchemaType' /\ StateType'
        BY <1>1, <1>9 DEF DropIndex, engine, history, EngineType, SchemaType, StateType, Steps
    <2> QED  BY <2>2, <2>3 DEF TInv
<1>10. ASSUME Flush \/ Close \/ Begin \/ StartCommit  PROVE TInv'
    <2>1. /\ UNCHANGED <<engine, schema, saved, hint, pending, want>>
          /\ pc' \in Steps
        BY <1>10 DEF Flush, Close, Begin, StartCommit, history, Steps
    <2>2. <<>> \in Seq(Batches)
        OBVIOUS
    <2>3. job' \in Jobs /\ job'.op \in {"none", "flush", "close", "commit"}
        <3>1. CASE Flush
            BY <2>2, <3>1 DEF Flush, NoJob, Jobs, Ops, Steps
        <3>2. CASE Close
            BY <2>2, <3>2 DEF Close, NoJob, Jobs, Ops, Steps
        <3>3. CASE Begin
            BY <3>3, NoJobType DEF Begin
        <3>4. CASE StartCommit
            BY <2>2, <3>4 DEF StartCommit, NoJob, Jobs, Ops, Steps
        <3> QED  BY <1>10, <3>1, <3>2, <3>3, <3>4
    <2>5. JobType'
        BY <2>3 DEF JobType
    <2>4. EngineType' /\ SchemaType' /\ StateType'
        BY <1>1, <2>1 DEF engine, EngineType, SchemaType, StateType
    <2> QED  BY <2>4, <2>5 DEF TInv
<1>11. ASSUME NEW ix \in Indexes, NarrowCreateIndex(ix)  PROVE TInv'
    <2>1. schema' = Registered(schema, ix) /\ UNCHANGED <<engine, saved, hint, pending, history>>
        BY <1>11 DEF NarrowCreateIndex
    <2>2. /\ schema' \in Schemas /\ AllNumbered(schema') /\ GoodIds(schema')
          /\ Extends(schema', saved) /\ Numbered(schema', ix)
        BY <1>1, <2>1, RegisteredType
    <2>3. SchemaType'
        BY <1>1, <2>1, <2>2 DEF SchemaType
    <2>4. NarrowRebuildWrites(Kv, schema', ix) \in Seq(Batches)
        BY <1>2, <2>2, NarrowWritesFacts
    <2>5. JobType'
        BY <1>11, <2>2, <2>4 DEF NarrowCreateIndex, NoJob, Jobs, Ops, Steps, JobType
    <2>6. EngineType' /\ StateType'
        BY <1>1, <1>11, <2>1 DEF NarrowCreateIndex, engine, history, EngineType, StateType, Steps
    <2> QED  BY <2>3, <2>5, <2>6 DEF TInv
<1>12. ASSUME NEW ix \in Indexes, NarrowDropIndex(ix)  PROVE TInv'
    <2>1. <<Deletes(NarrowEntriesOf(Kv, schema, ix))>> \in Seq(Batches)
        BY <1>1, <1>2, NarrowWritesFacts DEF SchemaType
    <2>2. JobType'
        BY <1>12, <2>1 DEF NarrowDropIndex, NoJob, Jobs, Ops, Steps, JobType
    <2>3. EngineType' /\ SchemaType' /\ StateType'
        BY <1>1, <1>12 DEF NarrowDropIndex, engine, history, EngineType, SchemaType, StateType, Steps
    <2> QED  BY <2>2, <2>3 DEF TInv
<1> QED  BY <1>5, <1>6, <1>7, <1>8, <1>9, <1>10, <1>11, <1>12

\* So do the writes of a call, and its end.
LEMMA WorkTypes ==
    ASSUME TInv
    PROVE  /\ WriteOne \/ SaveTables \/ Truncate \/ Persist => TInv'
           /\ PutDone \/ DeleteDone \/ IndexDone => TInv'
           /\ \A step \in Steps : CallFails(step) => TInv'
           /\ CommitFails => TInv'
<1>1. EngineType /\ SchemaType /\ StateType /\ JobType /\ job \in Jobs
    BY DEF TInv, JobType
<1>2. Kv \in Maps /\ View \in Maps
    BY <1>1, ViewType DEF StateType
<1>3. /\ job.op \in Ops /\ job.ent \subseteq Ids /\ job.ids \subseteq Nat /\ job.after \in Steps
      /\ job.back \in Steps /\ job.todo \in Seq(Batches)
    BY <1>1 DEF Jobs
<1>4. ASSUME WriteOne  PROVE TInv'
    <2>0. PICK i \in DOMAIN job.todo :
            /\ Current(job.todo, i)
            /\ \E w \in job.todo[i] : /\ log' = Append(log, {w})
                                     /\ job' = [job EXCEPT !.todo = Without(job.todo, i, w)]
        BY <1>4 DEF WriteOne
    <2>1. PICK w \in job.todo[i] : /\ log' = Append(log, {w})
                                  /\ job' = [job EXCEPT !.todo = Without(job.todo, i, w)]
        BY <2>0
    <2>2. UNCHANGED <<base, synced, schema, saved, hint, pending, history>> /\ pc' \in {"save", "write"}
        BY <1>4 DEF WriteOne
    <2>3. {w} \in Batches /\ Without(job.todo, i, w) \in Seq(Batches)
        <3>1. IsMap(Kv)
            BY <1>2, MapsAreMaps
        <3> QED  BY <1>3, <2>0, <3>1, NextWrite
    <2>4. EngineType'
        <3>1. log' \in Seq(Batches) /\ Len(log') = Len(log) + 1 /\ Len(log) \in Nat
            BY <1>1, <2>1, <2>3, LogTypes
        <3> QED  BY <1>1, <2>2, <3>1 DEF EngineType
    <2>5. job' \in Jobs /\ job'.op = job.op /\ job'.ix = job.ix
        BY <1>1, <2>1, <2>3 DEF Jobs
    <2>6. SchemaType' /\ StateType' /\ JobType'
        BY <1>1, <2>2, <2>5 DEF SchemaType, StateType, JobType, history, Steps
    <2> QED  BY <2>4, <2>6 DEF TInv
<1>5. ASSUME SaveTables  PROVE TInv'
    <2>1. EngineType'
        BY <1>1, <1>2, <1>5 DEF SaveTables, EngineType
    <2> QED  BY <1>1, <1>5, <2>1 DEF SaveTables, TInv, SchemaType, StateType, JobType, history, Steps
<1>6. ASSUME Truncate  PROVE TInv'
    <2>1. log' = <<>> /\ <<>> \in Seq(Batches) /\ Len(<<>>) = 0 /\ synced' = 0 /\ UNCHANGED base
        BY <1>6 DEF Truncate
    <2>2. EngineType'
        BY <1>1, <2>1 DEF EngineType
    <2>3. pc' \in Steps
        BY <1>3, <1>6 DEF Truncate, Steps
    <2> QED  BY <1>1, <1>6, <2>2, <2>3 DEF Truncate, TInv, SchemaType, StateType, JobType, history
<1>7. ASSUME Persist  PROVE TInv'
    <2>1. saved' = schema /\ UNCHANGED <<engine, schema, hint, pending, job, history>> /\ pc' = job.after
        BY <1>7 DEF Persist
    <2>2. SchemaType'
        BY <1>1, <2>1 DEF SchemaType, Extends
    <2> QED  BY <1>1, <1>3, <2>1, <2>2 DEF TInv, EngineType, StateType, JobType, engine, history
<1>8. ASSUME NEW next \in Steps, NEW after \in Steps, Finish(next, after)
      PROVE  job' \in Jobs /\ job'.op = job.op /\ job'.ix = job.ix /\ pc' \in Steps
    <2>1. <<>> \in Seq(Batches)
        OBVIOUS
    <2> QED  BY <1>1, <1>8, <2>1 DEF Finish, Jobs
<1>9. ASSUME PutDone \/ DeleteDone  PROVE TInv'
    <2>1. UNCHANGED <<engine, schema, saved, pending, history>>
        BY <1>9 DEF PutDone, DeleteDone
    <2>2. PICK next \in Steps, after \in Steps : Finish(next, after)
        BY <1>9 DEF PutDone, DeleteDone, Steps
    <2>3. job' \in Jobs /\ job'.op = job.op /\ job'.ix = job.ix /\ pc' \in Steps
        BY <1>8, <2>2
    <2>4. hint' \in [Ids -> SUBSET SUBSET Nat]
        BY <1>1, <1>3, <1>9 DEF PutDone, DeleteDone, StateType
    <2> QED  BY <1>1, <2>1, <2>3, <2>4
             DEF TInv, EngineType, SchemaType, StateType, JobType, engine, history
<1>10. ASSUME IndexDone  PROVE TInv'
    <2>1. UNCHANGED <<engine, saved, hint, pending, history>> /\ Finish("persist", job.back)
        BY <1>10 DEF IndexDone
    <2>2. job' \in Jobs /\ job'.op = job.op /\ job'.ix = job.ix /\ pc' \in Steps
        BY <1>3, <1>8, <2>1 DEF Steps
    <2>3. PICK st \in Statuses :
            /\ schema' = WithStatus(schema, job.ix, st)
            /\ st = "none" \/ job.op \in {"create", "narrow_create"}
        BY <1>10 DEF IndexDone, Statuses
    <2>4. job.ix \in Indexes
        BY <1>1, <1>10 DEF IndexDone, JobType
    <2>5. schema' \in Schemas /\ schema'.idOf = schema.idOf
          /\ schema'.next = schema.next /\ schema'.status = [schema.status EXCEPT ![job.ix] = st]
        BY <1>1, <2>3, <2>4 DEF SchemaType, WithStatus, Schemas
    <2>6. AllNumbered(schema')
        BY <1>1, <2>3, <2>4, <2>5 DEF AllNumbered, Numbered, SchemaType, JobType, Schemas
    <2>7. SchemaType'
        BY <1>1, <2>1, <2>5, <2>6 DEF SchemaType, GoodIds, Extends
    <2>8. JobType'
        BY <1>1, <2>2, <2>5 DEF JobType, Numbered
    <2> QED  BY <1>1, <2>1, <2>2, <2>7, <2>8 DEF TInv, EngineType, StateType, engine, history
<1>11. ASSUME NEW step \in Steps, CallFails(step)  PROVE TInv'
    <2>1. /\ UNCHANGED <<engine, schema, saved, hint, was>>
          /\ pc' \in Steps /\ want' = Read(Kv, schema) /\ job' = NoJob /\ pending' = {}
        BY <1>11 DEF CallFails, Steps
    <2>2. want' \in [Ids -> Entity]
        BY <1>1, <1>2, <2>1, ReadFacts DEF SchemaType
    <2>3. pending' \in Batches
        BY <2>1 DEF Batches, Distinct
    <2>4. JobType'
        BY <2>1, NoJobType DEF JobType
    <2> QED  BY <1>1, <2>1, <2>2, <2>3, <2>4
             DEF TInv, EngineType, SchemaType, StateType, engine
<1>12. ASSUME CommitFails  PROVE TInv'
    <2>1. UNCHANGED <<engine, schema, saved, hint, pending, history>> /\ job' = NoJob /\ pc' \in Steps
        BY <1>12 DEF CommitFails, Steps
    <2>2. JobType'
        BY <2>1, NoJobType DEF JobType
    <2> QED  BY <1>1, <2>1, <2>2 DEF TInv, EngineType, SchemaType, StateType, engine, history
<1> QED  BY <1>4, <1>5, <1>6, <1>7, <1>9, <1>10, <1>11, <1>12

\* So do transactions.
LEMMA TransactionTypes ==
    ASSUME TInv
    PROVE  /\ \A e \in Ids, x \in Inputs : TxUpdate(e, x) => TInv'
           /\ \A e \in Ids, u \in Updates : TxCasUpdate(e, u) => TInv'
           /\ \A e \in Ids : TxDelete(e) => TInv'
           /\ Abort \/ LogBlock \/ Sync => TInv'
<1>1. EngineType /\ SchemaType /\ StateType /\ JobType /\ job \in Jobs
    BY DEF TInv, JobType
<1>2. Kv \in Maps /\ View \in Maps
    BY <1>1, ViewType DEF StateType
<1>3. ASSUME NEW l \in Seq(Batches)  PROVE Pended(l) \in Batches
    BY <1>1, <1>2, <1>3, MapsAreMaps, PendedWrites DEF Pended, StateType
<1>4. ASSUME NEW e \in Ids, NEW x \in Input, NEW v \in Entity,
             schema' = Allot(schema, NamesOf(x)),
             pending' = Pended(PutWrites(View, schema', {}, e, x)),
             want' = [want EXCEPT ![e] = v],
             UNCHANGED <<engine, saved, hint, job, pc>>
      PROVE  TInv'
    <2>1. NamesOf(x) \in Seq(Names)
        BY InputFacts
    <2>2. SchemaType'
        BY <1>1, <1>4, <2>1, NewSchema DEF SchemaType
    <2>3. PutWrites(View, schema', {}, e, x) \in Seq(Batches)
        BY <1>1, <1>2, <1>4, PutTypes
    <2>4. StateType'
        BY <1>1, <1>3, <1>4, <2>3 DEF StateType
    <2>5. JobType'
        BY <1>1, <1>4, <2>1, NewSchema DEF JobType
    <2> QED  BY <1>1, <1>4, <2>2, <2>4, <2>5 DEF TInv, EngineType, engine
<1>5. ASSUME NEW e \in Ids, NEW x \in Inputs, TxUpdate(e, x)  PROVE TInv'
    BY <1>4, <1>5, InputNames DEF TxUpdate
<1>6. ASSUME NEW e \in Ids, NEW u \in Updates, TxCasUpdate(e, u)  PROVE TInv'
    <2> DEFINE p == Patched(View, schema, e, u)
    <2>1. p \in Entity
        BY <1>1, <1>2, PatchedType DEF SchemaType
    <2>2. /\ schema' = Allot(schema, NamesOf(AsInput(p)))
          /\ pending' = Pended(PutWrites(View, schema', {}, e, AsInput(p)))
          /\ want' = [want EXCEPT ![e] = p]
          /\ UNCHANGED <<engine, saved, hint, job, pc>>
        BY <1>6 DEF TxCasUpdate
    <2> HIDE DEF p
    <2>3. AsInput(p) \in Input
        BY <2>1, InputNames
    <2> QED  BY <1>4, <2>1, <2>2, <2>3
<1>7. ASSUME NEW e \in Ids, TxDelete(e)  PROVE TInv'
    <2>1. DeleteWrites(View, schema, e) \in Seq(Batches)
        BY <1>1, <1>2, DeleteWritesFacts DEF SchemaType, DeletePhases
    <2>2. NoEntity \in Entity
        BY DEF NoEntity, Entity
    <2>3. pending' \in Batches /\ want' \in [Ids -> Entity]
        BY <1>1, <1>3, <1>7, <2>1, <2>2 DEF TxDelete, StateType
    <2> QED  BY <1>1, <1>7, <2>3 DEF TxDelete, TInv, EngineType, SchemaType, StateType, JobType, engine
<1>8. {} \in Batches
    BY DEF Batches, Distinct
<1>9. ASSUME Abort  PROVE TInv'
    <2>1. want' \in [Ids -> Entity]
        BY <1>1, <1>2, <1>9, ReadFacts DEF Abort, SchemaType
    <2> QED  BY <1>1, <1>8, <1>9, <2>1
             DEF Abort, TInv, EngineType, SchemaType, StateType, JobType, engine, Steps
<1>10. ASSUME LogBlock  PROVE TInv'
    <2>1. log' \in Seq(Batches) /\ Len(log') = Len(log) + 1 /\ Len(log) \in Nat
        BY <1>1, <1>10, LogTypes DEF LogBlock, StateType
    <2>2. EngineType'
        BY <1>1, <1>10, <2>1 DEF LogBlock, EngineType
    <2> QED  BY <1>1, <1>10, <2>2 DEF LogBlock, TInv, SchemaType, StateType, JobType, history, Steps
<1>11. ASSUME Sync  PROVE TInv'
    <2>1. Len(log) \in Nat
        BY <1>1, LogTypes
    <2>2. EngineType'
        BY <1>1, <1>11, <2>1 DEF Sync, EngineType
    <2>3. hint' \in [Ids -> SUBSET SUBSET Nat]
        BY <1>1, <1>11 DEF Sync, StateType
    <2> QED  BY <1>1, <1>8, <1>11, <2>2, <2>3
             DEF Sync, TInv, SchemaType, StateType, JobType, history, Steps
<1> QED  BY <1>5, <1>6, <1>7, <1>9, <1>10, <1>11

\* So do crashes and opening.
LEMMA RestartTypes ==
    ASSUME TInv
    PROVE  Crash \/ Open \/ Recovered => TInv'
<1>1. EngineType /\ SchemaType /\ StateType /\ JobType /\ job \in Jobs
    BY DEF TInv, JobType
<1>2. Kv \in Maps
    BY <1>1, ViewType
<1>3. ASSUME Crash  PROVE TInv'
    <2>1. PICK n \in synced .. Len(log) : log' = SubSeq(log, 1, n)
        BY <1>3 DEF Crash
    <2>2. log' \in Seq(Batches) /\ Len(log') = n /\ n >= synced
        BY <1>1, <2>1, LogTypes
    <2>3. EngineType'
        BY <1>1, <1>3, <2>2 DEF Crash, EngineType
    <2>4. {} \in Batches
        BY DEF Batches, Distinct
    <2> QED  BY <1>1, <1>3, <2>3, <2>4 DEF Crash, TInv, SchemaType, StateType, JobType, history, Steps
<1>4. ASSUME Open  PROVE TInv'
    <2>1. want' \in [Ids -> Entity]
        BY <1>1, <1>2, <1>4, ReadFacts DEF Open, SchemaType
    <2>2. SchemaType'
        BY <1>1, <1>4 DEF Open, SchemaType, Extends
    <2> QED  BY <1>1, <1>4, <2>1, <2>2, NoJobType DEF Open, TInv, EngineType, StateType, JobType, engine, Steps
<1>5. ASSUME Recovered  PROVE TInv'
    BY <1>1, <1>5, NoJobType
       DEF Recovered, TInv, EngineType, SchemaType, StateType, JobType, engine, history, Steps
<1> QED  BY <1>3, <1>4, <1>5

\* Every step preserves the types.
LEMMA NextTypes == TInv /\ [Next]_vars => TInv'
<1> SUFFICES ASSUME TInv, [Next]_vars  PROVE TInv'
    OBVIOUS
<1>1. CASE UNCHANGED vars
    BY <1>1 DEF vars, engine, history, TInv, EngineType, SchemaType, StateType, JobType
<1>2. ASSUME Next  PROVE TInv'
    <2>1. \A step \in {"write", "save", "truncate", "persist"} : step \in Steps
        BY DEF Steps
    <2> QED  BY <1>2, <2>1, StartTypes, WorkTypes, TransactionTypes, RestartTypes DEF Next, WriteFails
<1> QED  BY <1>1, <1>2

\* What is stored has the type of its key, the log is durable up to a place in
\* it, and SCHEMA is well formed in memory and on disk: in every state.
THEOREM Types == Spec => []TypeOK
<1>1. TInv => TypeOK
    <2> SUFFICES ASSUME TInv  PROVE TypeOK
        OBVIOUS
    <2>1. MapOfKeys(base)
        BY MapFacts DEF TInv, EngineType, MapOfKeys
    <2>2. \A s \in {schema, saved} :
            /\ s.next \in Nat
            /\ s.idOf \in [Names -> Field]
            /\ s.status \in [Indexes -> {"none", "building", "ready"}]
        BY DEF TInv, SchemaType, Schemas, Statuses
    <2>3. want \in [Ids -> [Names -> Values \cup {None}]]
        BY DEF TInv, StateType, Entity
    <2> QED  BY <2>1, <2>2, <2>3 DEF TInv, EngineType, StateType, Steps, TypeOK
<1>2. Spec => []TInv
    BY InitTypes, NextTypes, PTL DEF Spec
<1> QED  BY <1>1, <1>2, PTL

\* The two calls on one-field indexes that go by the composite prefix.
LEMMA NarrowStarts ==
    ASSUME TInv, NEW ix \in Indexes
    PROVE  /\ NarrowCreateIndex(ix) \/ NarrowDropIndex(ix) =>
                /\ pc = "idle" /\ UNCHANGED <<base, log, synced, saved, hint, pending, want, was>>
                /\ job'.todo \in Seq(Batches) /\ \A k \in KeysOfLog(job'.todo) : IsNarrow(k)
                /\ job'.ix = ix /\ job'.back = "idle"
           /\ NarrowCreateIndex(ix) =>
                /\ pc' = "persist" /\ job'.op = "narrow_create" /\ job'.after = "write"
                /\ schema' = Registered(schema, ix)
                /\ schema.status[ix] = "none" => "narrow_create" \in Calls
           /\ NarrowDropIndex(ix) =>
                pc' = "write" /\ job'.op = "narrow_drop" /\ job'.after = "idle" /\ UNCHANGED schema
<1>1. SchemaType /\ Kv \in Maps
    BY ViewType DEF TInv
<1>2. NarrowCreateIndex(ix) \/ NarrowDropIndex(ix) =>
        pc = "idle" /\ UNCHANGED <<base, log, synced, saved, hint, pending, want, was>>
    BY DEF NarrowCreateIndex, NarrowDropIndex, Called, engine, history
<1>3. ASSUME NarrowCreateIndex(ix)
      PROVE  /\ job'.todo \in Seq(Batches) /\ \A k \in KeysOfLog(job'.todo) : IsNarrow(k)
             /\ job'.ix = ix /\ job'.back = "idle"
             /\ pc' = "persist" /\ job'.op = "narrow_create" /\ job'.after = "write"
             /\ schema' = Registered(schema, ix)
             /\ schema.status[ix] = "none" => "narrow_create" \in Calls
    <2>1. /\ job'.todo = NarrowRebuildWrites(Kv, schema', ix) /\ job'.ix = ix /\ job'.back = "idle"
          /\ job'.op = "narrow_create" /\ job'.after = "write"
        BY <1>3 DEF NarrowCreateIndex, NoJob
    <2>2. pc' = "persist" /\ schema' = Registered(schema, ix)
          /\ (schema.status[ix] = "none" => "narrow_create" \in Calls)
        BY <1>3 DEF NarrowCreateIndex, Called
    <2>3. schema' \in Schemas /\ Numbered(schema', ix)
        BY <1>1, <2>2, RegisteredType
    <2> QED  BY <1>1, <2>1, <2>2, <2>3, NarrowWritesFacts
<1>4. ASSUME NarrowDropIndex(ix)
      PROVE  /\ job'.todo \in Seq(Batches) /\ \A k \in KeysOfLog(job'.todo) : IsNarrow(k)
             /\ job'.ix = ix /\ job'.back = "idle"
             /\ pc' = "write" /\ job'.op = "narrow_drop" /\ job'.after = "idle" /\ UNCHANGED schema
    <2>1. /\ job'.todo = <<Deletes(NarrowEntriesOf(Kv, schema, ix))>> /\ job'.ix = ix
          /\ job'.back = "idle" /\ job'.op = "narrow_drop" /\ job'.after = "idle"
        BY <1>4 DEF NarrowDropIndex, NoJob
    <2>2. pc' = "write" /\ UNCHANGED schema
        BY <1>4 DEF NarrowDropIndex
    <2> QED  BY <1>1, <2>1, <2>2, NarrowWritesFacts DEF SchemaType
<1> QED  BY <1>2, <1>3, <1>4

-----------------------------------------------------------------------------
(* What is under way at each step of a call.                               *)

\* A call has writes to make.
Busy == pc \in {"write", "save", "truncate"} \/ (pc = "persist" /\ job.after = "write")

\* Only a writer that is busy has writes left, and only a transaction has
\* pending ones.
WorkLeft ==
    /\ job.todo # <<>> => job.op \in Writers /\ (Busy \/ pc = "down")
    /\ pending # {} => pc \in {"tx", "block", "sync"} \/ (pc = "persist" /\ job.op = "commit")

\* Which calls make which steps, and where they go on.
Course ==
    /\ pc = "write" => job.op \in Writers
    /\ pc \in {"save", "truncate"} => job.op \in Writers \cup {"flush", "close", "commit"}
    /\ pc \in {"block", "sync"} => job.op = "commit"
    /\ pc = "persist" => \/ job.op \in {"put", "cas", "drop", "narrow_drop"} /\ job.after = "idle"
                         \/ job.op = "narrow_create" /\ job.after \in {"write", "idle"}
                         \/ job.op = "create" /\ job.after \in {"write", "idle", "recover"}
                         \/ job.op = "commit" /\ job.after = "block"
                         \/ job.op = "close" /\ job.after = "save"
    /\ job.back = IF job.op = "close" THEN "down" ELSE IF job.back = "recover" THEN "recover" ELSE "idle"
    /\ job.back = "recover" => job.op = "create"

\* A commit logs its block after SCHEMA and before it goes on to anything else;
\* the tables that a flush saves hold the whole log.
Commits ==
    /\ pc \in {"block", "sync"} => saved = schema
    /\ pc = "sync" => log # <<>> /\ log[Len(log)] = pending
    /\ pc \in {"save", "truncate"} /\ job.op = "commit" => synced = Len(log)
    /\ pc = "truncate" => base = Kv

Control == WorkLeft /\ Course /\ Commits

\* In an empty store no call is under way.
LEMMA InitControl == Init => Control
BY DEF Init, NoJob, Control, WorkLeft, Course, Commits, Busy

\* Steps that start a call keep the course.
LEMMA StartControl ==
    ASSUME TInv, Control
    PROVE  /\ \A e \in Ids, x \in Inputs : PutEntity(e, x) => Control'
           /\ \A e \in Ids, u \in Updates : CasUpdate(e, u) => Control'
           /\ \A e \in Ids : DeleteEntity(e) => Control'
           /\ \A ix \in Indexes : CreateIndex(ix) \/ RecoverIndex(ix) \/ DropIndex(ix) => Control'
           /\ \A ix \in Indexes : NarrowCreateIndex(ix) \/ NarrowDropIndex(ix) => Control'
           /\ Flush \/ Close \/ Begin \/ StartCommit => Control'
<1>1. ASSUME NEW op \in Writers, NEW after, NEW back,
             job'.op = op, job'.after = after, job'.back = back,
             UNCHANGED pending, pc \in {"idle", "recover"},
             \/ pc' = "write" /\ back = "idle"
             \/ pc' = "persist" /\ after = "write" /\ op = "create" /\ back \in {"idle", "recover"}
             \/ pc' = "persist" /\ after = "write" /\ op = "narrow_create" /\ back = "idle"
      PROVE  Control'
    BY <1>1 DEF Control, WorkLeft, Course, Commits, Busy, Writers
<1>2. ASSUME NEW e \in Ids, NEW x \in Inputs, PutEntity(e, x)  PROVE Control'
    <2>1. job'.op = "put" /\ job'.after = "idle" /\ job'.back = "idle"
        BY <1>2 DEF PutEntity, NoJob
    <2> QED  BY <1>1, <1>2, <2>1 DEF PutEntity, Called, Writers
<1>3. ASSUME NEW e \in Ids, NEW u \in Updates, CasUpdate(e, u)  PROVE Control'
    <2>1. job'.op = "cas" /\ job'.after = "idle" /\ job'.back = "idle"
        BY <1>3 DEF CasUpdate, NoJob
    <2> QED  BY <1>1, <1>3, <2>1 DEF CasUpdate, Called, Writers
<1>4. ASSUME NEW e \in Ids, DeleteEntity(e)  PROVE Control'
    <2>1. job'.op = "delete" /\ job'.after = "idle" /\ job'.back = "idle"
        BY <1>4 DEF DeleteEntity, NoJob
    <2> QED  BY <1>1, <1>4, <2>1 DEF DeleteEntity, Called, Writers
<1>5. ASSUME NEW ix \in Indexes, CreateIndex(ix) \/ RecoverIndex(ix)  PROVE Control'
    <2>1. PICK to \in {"idle", "recover"} : StartCreate(ix, to)
        BY <1>5 DEF CreateIndex, RecoverIndex
    <2>2. job'.op = "create" /\ job'.after = "write" /\ job'.back = to /\ pc' = "persist"
        BY <2>1 DEF StartCreate, NoJob
    <2> QED  BY <1>1, <1>5, <2>2 DEF CreateIndex, RecoverIndex, Called, Writers
<1>6. ASSUME NEW ix \in Indexes, DropIndex(ix)  PROVE Control'
    <2>1. job'.op = "drop" /\ job'.after = "idle" /\ job'.back = "idle"
        BY <1>6 DEF DropIndex, NoJob
    <2> QED  BY <1>1, <1>6, <2>1 DEF DropIndex, Called, Writers
<1>7. ASSUME Flush  PROVE Control'
    <2>1. job'.op = "flush" /\ job'.todo = <<>> /\ job'.back = "idle"
        BY <1>7 DEF Flush, NoJob
    <2> QED  BY <1>7, <2>1 DEF Flush, Called, Control, WorkLeft, Course, Commits, Busy, Writers
<1>8. ASSUME Close  PROVE Control'
    <2>1. job'.op = "close" /\ job'.todo = <<>> /\ job'.back = "down" /\ job'.after = "save"
        BY <1>8 DEF Close, NoJob
    <2> QED  BY <1>8, <2>1 DEF Close, Called, Control, WorkLeft, Course, Commits, Busy, Writers
<1>9. ASSUME Begin  PROVE Control'
    <2>1. job'.op = "none" /\ job'.todo = <<>> /\ job'.back = "idle"
        BY <1>9 DEF Begin, NoJob
    <2> QED  BY <1>9, <2>1 DEF Begin, Called, Control, WorkLeft, Course, Commits, Busy, Writers
<1>10. ASSUME StartCommit  PROVE Control'
    <2>1. job'.op = "commit" /\ job'.todo = <<>> /\ job'.back = "idle" /\ job'.after = "block"
        BY <1>10 DEF StartCommit, NoJob
    <2> QED  BY <1>10, <2>1 DEF StartCommit, Control, WorkLeft, Course, Commits, Busy, Writers
<1>11. ASSUME NEW ix \in Indexes, NarrowCreateIndex(ix)  PROVE Control'
    <2>1. job'.op = "narrow_create" /\ job'.after = "write" /\ job'.back = "idle"
        BY <1>11 DEF NarrowCreateIndex, NoJob
    <2> QED  BY <1>1, <1>11, <2>1 DEF NarrowCreateIndex, Called, Writers
<1>12. ASSUME NEW ix \in Indexes, NarrowDropIndex(ix)  PROVE Control'
    <2>1. job'.op = "narrow_drop" /\ job'.after = "idle" /\ job'.back = "idle"
        BY <1>12 DEF NarrowDropIndex, NoJob
    <2> QED  BY <1>1, <1>12, <2>1 DEF NarrowDropIndex, Called, Writers
<1> QED  BY <1>2, <1>3, <1>4, <1>5, <1>6, <1>7, <1>8, <1>9, <1>10, <1>11, <1>12

\* So do the writes of a call, and its end.
LEMMA WorkControl ==
    ASSUME TInv, Control
    PROVE  /\ WriteOne \/ SaveTables \/ Truncate \/ Persist => Control'
           /\ PutDone \/ DeleteDone \/ IndexDone => Control'
           /\ \A step \in Steps : CallFails(step) => Control'
           /\ CommitFails => Control'
<1>1. job \in Jobs
    BY DEF TInv, JobType
<1>2. ASSUME WriteOne  PROVE Control'
    <2>1. PICK i \in DOMAIN job.todo : \E w : job' = [job EXCEPT !.todo = Without(job.todo, i, w)]
        BY <1>2 DEF WriteOne
    <2>2. job'.op = job.op /\ job'.after = job.after /\ job'.back = job.back
        BY <1>1, <2>1 DEF Jobs
    <2> QED  BY <1>2, <2>2 DEF WriteOne, Control, WorkLeft, Course, Commits, Busy, Writers
<1>3. ASSUME SaveTables  PROVE Control'
    <2>1. IsMap(base) /\ log \in Seq(Batches)
        BY MapsAreMaps DEF TInv, EngineType
    <2>2. Kv' = Kv
        BY <1>3, <2>1, ReplayAgain DEF SaveTables, Kv
    <2> QED  BY <1>3, <2>2 DEF SaveTables, Control, WorkLeft, Course, Commits, Busy, Writers
<1>4. ASSUME Truncate  PROVE Control'
    BY <1>4 DEF Truncate, Control, WorkLeft, Course, Commits, Busy, Writers
<1>5. ASSUME Persist  PROVE Control'
    BY <1>5 DEF Persist, Control, WorkLeft, Course, Commits, Busy, Writers
<1>6. ASSUME NEW next, NEW after, Finish(next, after), UNCHANGED pending,
             \/ next = "idle"
             \/ next = "persist" /\ job.op = "create" /\ after \in {"idle", "recover"}
             \/ next = "persist" /\ job.op \in {"put", "cas", "drop", "narrow_create", "narrow_drop"} /\ after = "idle"
      PROVE  Control'
    <2>1. job'.op = job.op /\ job'.after = after /\ job'.back = job.back /\ job'.todo = <<>>
        BY <1>1, <1>6 DEF Finish, Jobs
    <2> QED  BY <1>6, <2>1 DEF Finish, Control, WorkLeft, Course, Commits, Busy, Writers
<1>7. ASSUME PutDone  PROVE Control'
    BY <1>6, <1>7 DEF PutDone
<1>8. ASSUME DeleteDone  PROVE Control'
    BY <1>6, <1>8 DEF DeleteDone
<1>9. ASSUME IndexDone  PROVE Control'
    BY <1>6, <1>9 DEF IndexDone, Control, Course
<1>10. ASSUME NEW step \in Steps, CallFails(step)  PROVE Control'
    <2>1. job'.op = "none" /\ job'.todo = <<>> /\ job'.back = "idle"
        BY <1>10 DEF CallFails, NoJob
    <2> QED  BY <1>10, <2>1 DEF CallFails, Control, WorkLeft, Course, Commits, Busy, Writers
<1>11. ASSUME CommitFails  PROVE Control'
    <2>1. job'.op = "none" /\ job'.todo = <<>> /\ job'.back = "idle"
        BY <1>11 DEF CommitFails, NoJob
    <2> QED  BY <1>11, <2>1 DEF CommitFails, Control, WorkLeft, Course, Commits, Busy, Writers
<1> QED  BY <1>2, <1>3, <1>4, <1>5, <1>7, <1>8, <1>9, <1>10, <1>11

\* So do transactions.
LEMMA TransactionControl ==
    ASSUME TInv, Control
    PROVE  /\ \A e \in Ids, x \in Inputs : TxUpdate(e, x) => Control'
           /\ \A e \in Ids, u \in Updates : TxCasUpdate(e, u) => Control'
           /\ \A e \in Ids : TxDelete(e) => Control'
           /\ Abort \/ LogBlock \/ Sync => Control'
<1>1. ASSUME pc = "tx", UNCHANGED <<job, pc>>  PROVE Control'
    BY <1>1 DEF Control, WorkLeft, Course, Commits, Busy
<1>2. ASSUME Abort  PROVE Control'
    BY <1>2 DEF Abort, Control, WorkLeft, Course, Commits, Busy
<1>3. ASSUME LogBlock  PROVE Control'
    <2>1. log' = Append(log, pending) /\ log \in Seq(Batches)
        BY <1>3 DEF LogBlock, TInv, EngineType
    <2>2. log' # <<>> /\ log'[Len(log')] = pending
        BY <2>1
    <2> QED  BY <1>3, <2>2 DEF LogBlock, Control, WorkLeft, Course, Commits, Busy
<1>4. ASSUME Sync  PROVE Control'
    BY <1>4 DEF Sync, Control, WorkLeft, Course, Commits, Busy, Writers
<1>5. \A e \in Ids, x \in Inputs : TxUpdate(e, x) => Control'
    BY <1>1 DEF TxUpdate, InTransaction
<1>6. \A e \in Ids, u \in Updates : TxCasUpdate(e, u) => Control'
    BY <1>1 DEF TxCasUpdate, InTransaction
<1>7. \A e \in Ids : TxDelete(e) => Control'
    BY <1>1 DEF TxDelete, InTransaction
<1> QED  BY <1>2, <1>3, <1>4, <1>5, <1>6, <1>7

\* So do crashes and opening.
LEMMA RestartControl ==
    ASSUME TInv, Control
    PROVE  Crash \/ Open \/ Recovered => Control'
<1>1. ASSUME Crash  PROVE Control'
    BY <1>1 DEF Crash, Control, WorkLeft, Course, Commits, Busy
<1>2. ASSUME Open \/ Recovered  PROVE Control'
    <2>1. job'.op = "none" /\ job'.todo = <<>> /\ job'.back = "idle"
        BY <1>2 DEF Open, Recovered, NoJob
    <2> QED  BY <1>2, <2>1 DEF Open, Recovered, Control, WorkLeft, Course, Commits, Busy
<1> QED  BY <1>1, <1>2

\* Every step keeps the course.
LEMMA NextControl == TInv /\ Control /\ [Next]_vars => Control'
<1> SUFFICES ASSUME TInv, Control, [Next]_vars  PROVE Control'
    OBVIOUS
<1>1. CASE UNCHANGED vars
    BY <1>1 DEF vars, engine, history, Control, WorkLeft, Course, Commits, Busy, Kv
<1>2. ASSUME Next  PROVE Control'
    <2>1. \A step \in {"write", "save", "truncate", "persist"} : step \in Steps
        BY DEF Steps
    <2> QED  BY <1>2, <2>1, StartControl, WorkControl, TransactionControl, RestartControl
             DEF Next, WriteFails
<1> QED  BY <1>1, <1>2

-----------------------------------------------------------------------------
(* What an entity reads as, before and after the writes of a call.         *)

\* Every field that K has a key of has a name in s.
KnownTo(s, K) == \A k \in K \cap FieldKeys : k.fld \in FieldIds(s, Names)

\* The fields of e are the same in m1 and m2.
SameFields(m1, m2, e) == \A f \in Nat : Val(m1, FieldKey(e, f)) = Val(m2, FieldKey(e, f))

\* Then so is what is read of it.
LEMMA SameReads ==
    ASSUME NEW m1 \in Maps, NEW m2 \in Maps, NEW e \in Ids, SameFields(m1, m2, e)
    PROVE  /\ StoredFields(m1, e) = StoredFields(m2, e)
           /\ \A s \in Schemas : ReadEntity(m1, s, e) = ReadEntity(m2, s, e)
<1>1. \A f \in Nat : f \in StoredFields(m1, e) <=> f \in StoredFields(m2, e)
    BY StoredFacts, MapFacts DEF SameFields
<1>2. StoredFields(m1, e) \subseteq Nat /\ StoredFields(m2, e) \subseteq Nat
    BY StoredFacts
<1>3. ASSUME NEW s \in Schemas  PROVE ReadEntity(m1, s, e) = ReadEntity(m2, s, e)
    <2>1. ReadEntity(m1, s, e) \in Entity /\ ReadEntity(m2, s, e) \in Entity
        BY ReadFacts
    <2>2. ASSUME NEW n \in Names  PROVE ReadEntity(m1, s, e)[n] = ReadEntity(m2, s, e)[n]
        <3>1. s.idOf[n] = None \/ s.idOf[n] \in Nat
            BY DEF Schemas, Field
        <3> QED  BY <3>1, ReadFacts DEF SameFields
    <2> QED  BY <2>1, <2>2 DEF Entity
<1> QED  BY <1>1, <1>2, <1>3

\* A log that writes index entries only changes no entity.
LEMMA IndexWritesRead ==
    ASSUME NEW m \in Maps, NEW l \in Seq(Batches), KeysOfLog(l) \subseteq IndexKeys, NEW e \in Ids
    PROVE  SameFields(Replayed(m, l), m, e)
<1>1. \A f \in Nat : FieldKey(e, f) \notin KeysOfLog(l)
    BY KeyFacts
<1> QED  BY <1>1, ReplayValues, MapsAreMaps DEF SameFields

\* New ids do not change what is read while the ids of what is stored are known.
LEMMA ReadExtends ==
    ASSUME NEW m \in Maps, NEW s \in Schemas, NEW t \in Schemas,
           GoodIds(s), KnownTo(s, DOMAIN m), Extends(t, s),
           \A n \in Names : s.idOf[n] = None /\ t.idOf[n] # None => t.idOf[n] >= s.next
    PROVE  Read(m, t) = Read(m, s)
<1>1. ASSUME NEW e \in Ids, NEW n \in Names
      PROVE  ReadEntity(m, t, e)[n] = ReadEntity(m, s, e)[n]
    <2>1. CASE s.idOf[n] # None
        BY <2>1, ReadFacts DEF Extends
    <2>2. CASE s.idOf[n] = None /\ t.idOf[n] = None
        BY <2>2, ReadFacts
    <2>3. CASE s.idOf[n] = None /\ t.idOf[n] # None
        <3>1. t.idOf[n] \in Nat /\ s.next \in Nat /\ t.idOf[n] >= s.next
            BY <2>3 DEF Schemas, Field
        <3>2. ASSUME FieldKey(e, t.idOf[n]) \in DOMAIN m  PROVE FALSE
            <4>1. FieldKey(e, t.idOf[n]) \in FieldKeys /\ FieldKey(e, t.idOf[n]).fld = t.idOf[n]
                BY <3>1, KeyFacts DEF FieldKey
            <4>2. t.idOf[n] \in FieldIds(s, Names)
                BY <3>2, <4>1 DEF KnownTo
            <4>3. PICK k \in Names : s.idOf[k] = t.idOf[n]
                BY <4>2 DEF FieldIds
            <4> QED  BY <2>3, <3>1, <4>3 DEF GoodIds
        <3> QED  BY <2>3, <3>2, ReadFacts DEF Val
    <2> QED  BY <2>1, <2>2, <2>3
<1>2. ASSUME NEW e \in Ids  PROVE Read(m, t)[e] = Read(m, s)[e]
    <2>1. /\ Read(m, t)[e] = ReadEntity(m, t, e) /\ ReadEntity(m, t, e) \in Entity
          /\ Read(m, s)[e] = ReadEntity(m, s, e) /\ ReadEntity(m, s, e) \in Entity
        BY ReadFacts
    <2> QED  BY <1>1, <2>1 DEF Entity
<1>3. Read(m, t) \in [Ids -> Entity] /\ Read(m, s) \in [Ids -> Entity]
    BY ReadFacts
<1> QED  BY <1>2, <1>3

\* The keys that the phases of put_entity write.
LEMMA PutKeys ==
    ASSUME NEW m \in Maps, NEW s \in Schemas, AllNumbered(s), NEW h, NEW e \in Ids,
           NEW x \in Input, Numbered(s, NamesOf(x)),
           NEW j \in DOMAIN PutWrites(m, s, h, e, x),
           NEW k \in KeysOfBatch(PutWrites(m, s, h, e, x)[j])
    PROVE  /\ k.ent = e
           /\ \/ k \in IndexKeys /\ j \in {1, Len(x) + 3}
              \/ /\ j = 2
                 /\ k.fld \in StoredFields(m, e) \ FieldIds(s, ToSet(NamesOf(x)))
                 /\ k = FieldKey(e, k.fld) /\ k \in FieldKeys
              \/ /\ j - 2 \in DOMAIN x
                 /\ k = FieldKey(e, s.idOf[x[j - 2].name]) /\ k \in FieldKeys
                 /\ s.idOf[x[j - 2].name] \in FieldIds(s, ToSet(NamesOf(x)))
<1> DEFINE fv == OldValues(m, s, h, x, e)
           old == EntriesFor(s, fv, e)
           new == EntriesPut(s, x, e)
           p == PutWrites(m, s, h, e, x)
           del == KeysOfFields(e, DOMAIN fv \ FieldIds(s, ToSet(NamesOf(x))))
<1>1. /\ p \in Seq(Batches) /\ Len(p) = Len(x) + 3
      /\ p[1] = Puts(new \ old)
      /\ p[2] = Deletes(del)
      /\ \A i \in DOMAIN x : p[i + 2] = {Write(FieldKey(e, s.idOf[x[i].name]), x[i].val)}
      /\ p[Len(x) + 3] = Deletes(old \ new)
    <2>1. PutPhases(p, s, e, x, old, new, Gone(m, s, h, e, x))
        BY PutWritesFacts
    <2> HIDE DEF p, old, new
    <2> QED  BY <2>1 DEF PutPhases, Gone
<1>2. j \in DOMAIN p /\ k \in KeysOfBatch(p[j])
    OBVIOUS
<1>3. /\ Len(x) \in Nat /\ DOMAIN x = 1 .. Len(x) /\ \A i \in DOMAIN x : x[i].name \in ToSet(NamesOf(x))
      /\ ToSet(NamesOf(x)) \subseteq Names
    BY InputFacts DEF ToSet
<1>4. IsFields(fv) /\ DOMAIN fv \subseteq StoredFields(m, e) /\ StoredFields(m, e) \subseteq Nat
    <2>1. PICK F : fv = Stored(m, e, F)
        BY DEF OldValues
    <2>2. IsFields(Stored(m, e, F)) /\ DOMAIN Stored(m, e, F) = StoredFields(m, e) \cap F
        BY StoredIsFields
    <2> HIDE DEF fv
    <2> QED  BY <2>1, <2>2, StoredFacts
<1>5. /\ \A q \in old : q \in IndexKeys /\ q.ent = e
      /\ \A q \in new : q \in IndexKeys /\ q.ent = e
    BY <1>4, EntriesType
<1>6. \A q \in del : /\ q.ent = e /\ q = FieldKey(e, q.fld) /\ q \in FieldKeys
                     /\ q.fld \in DOMAIN fv \ FieldIds(s, ToSet(NamesOf(x)))
    BY <1>4, KeyFacts DEF KeysOfFields, FieldKey
<1> HIDE DEF fv, old, new, p, del
<1>7. j \in 1 .. Len(x) + 3
    BY <1>1, <1>2
<1>8. CASE j = 1
    BY <1>1, <1>2, <1>5, <1>8, PutsAndDeletes
<1>9. CASE j = Len(x) + 3
    BY <1>1, <1>2, <1>5, <1>9, PutsAndDeletes
<1>10. CASE j = 2
    <2>1. k \in del
        BY <1>1, <1>2, <1>10, PutsAndDeletes
    <2> QED  BY <1>4, <1>6, <1>10, <2>1
<1>11. CASE j - 2 \in DOMAIN x
    <2> DEFINE f == s.idOf[x[j - 2].name]
    <2>0. (j - 2) + 2 = j
        BY <1>7
    <2>1. p[j] = {Write(FieldKey(e, f), x[j - 2].val)}
        BY <1>1, <1>11, <2>0
    <2>2. k = FieldKey(e, f)
        <3>1. Write(FieldKey(e, f), x[j - 2].val).key = FieldKey(e, f)
            BY DEF Write
        <3> QED  BY <1>2, <2>1, <3>1 DEF KeysOfBatch
    <2>3. f # None /\ x[j - 2].name \in Names
        BY <1>3, <1>11 DEF Numbered
    <2>4. f \in FieldIds(s, ToSet(NamesOf(x))) /\ f \in Nat
        BY <1>3, <1>11, <2>3 DEF FieldIds, Schemas, Field
    <2> QED  BY <1>11, <2>2, <2>4, KeyFacts DEF FieldKey
<1> QED  BY <1>3, <1>7, <1>8, <1>9, <1>10, <1>11

\* After a put the entity is what was put, whatever it was before, if the hint
\* does not leave out a field of it; other entities are as they were.
LEMMA PutRead ==
    ASSUME NEW m \in Maps, NEW s \in Schemas, AllNumbered(s), GoodIds(s), NEW h, NEW e \in Ids,
           NEW x \in Input, Numbered(s, NamesOf(x)),
           h = {} \/ StoredFields(m, e) \subseteq UNION h
    PROVE  LET r == Replayed(m, PutWrites(m, s, h, e, x))
           IN  /\ r \in Maps
               /\ ReadEntity(r, s, e) = AsEntity(x)
               /\ StoredFields(r, e) \subseteq FieldIds(s, ToSet(NamesOf(x)))
               /\ \A d \in Ids \ {e} : SameFields(r, m, d)
<1> DEFINE p == PutWrites(m, s, h, e, x)
           r == Replayed(m, p)
           ids == FieldIds(s, ToSet(NamesOf(x)))
           gone == StoredFields(m, e) \ ids
           mine(j, k) == \/ k \in IndexKeys /\ j \in {1, Len(x) + 3}
                         \/ /\ j = 2 /\ k.fld \in gone
                            /\ k = FieldKey(e, k.fld) /\ k \in FieldKeys
                         \/ /\ j - 2 \in DOMAIN x
                            /\ k = FieldKey(e, s.idOf[x[j - 2].name]) /\ k \in FieldKeys
                            /\ s.idOf[x[j - 2].name] \in ids
<1>1. \A j \in DOMAIN p : \A k \in KeysOfBatch(p[j]) : k.ent = e /\ mine(j, k)
    BY PutKeys
<1>2. /\ p \in Seq(Batches) /\ Len(p) = Len(x) + 3
      /\ p[2] = Deletes(KeysOfFields(e, gone))
      /\ \A j \in DOMAIN x : p[j + 2] = {Write(FieldKey(e, s.idOf[x[j].name]), x[j].val)}
    <2> DEFINE fv == OldValues(m, s, h, x, e)
    <2>1. PICK F : fv = Stored(m, e, F) /\ StoredFields(m, e) \subseteq F
        BY DEF OldValues
    <2>2. DOMAIN Stored(m, e, F) = StoredFields(m, e) \cap F
        BY StoredIsFields
    <2> HIDE DEF fv
    <2>3. DOMAIN fv \ ids = gone
        BY <2>1, <2>2
    <2>4. PutPhases(p, s, e, x, EntriesFor(s, OldValues(m, s, h, x, e), e), EntriesPut(s, x, e),
                    Gone(m, s, h, e, x))
        BY PutWritesFacts
    <2>5. Gone(m, s, h, e, x) = gone
        BY <2>3 DEF fv, Gone
    <2> HIDE DEF p, ids, gone
    <2> QED  BY <2>4, <2>5 DEF PutPhases
<1>3. /\ Len(x) \in Nat /\ DOMAIN x = 1 .. Len(x) /\ \A j \in DOMAIN x : x[j].name \in Names
      /\ \A n : n \in ToSet(NamesOf(x)) <=> Places(x, n) # {}
      /\ AsEntity(x) \in Entity
    BY InputFacts
<1>4. IsMap(m) /\ r \in Maps
    BY <1>2, MapsAreMaps, ReplayType
<1>5. DOMAIN p = 1 .. Len(x) + 3
    BY <1>2
<1>6. \A n \in ToSet(NamesOf(x)) : n \in Names /\ s.idOf[n] \in Nat /\ s.idOf[n] \in ids
    <2> TAKE n \in ToSet(NamesOf(x))
    <2>1. PICK j \in DOMAIN x : x[j].name = n
        BY <1>3 DEF Places
    <2>2. n \in Names /\ s.idOf[n] # None
        BY <1>3, <2>1 DEF Numbered
    <2> QED  BY <2>2 DEF FieldIds, Schemas, Field
<1>7. gone \subseteq Nat
    BY StoredFacts
<1> HIDE DEF p
<1>8. ASSUME NEW n \in ToSet(NamesOf(x))
      PROVE  Val(r, FieldKey(e, s.idOf[n])) = x[Max(Places(x, n))].val
    <2> DEFINE i == Max(Places(x, n))
               key == FieldKey(e, s.idOf[n])
               w == Write(key, x[i].val)
    <2>1. i \in DOMAIN x /\ x[i].name = n /\ \A j \in DOMAIN x : x[j].name = n => j <= i
        BY <1>3, <1>8, LastPlace
    <2> HIDE DEF i
    <2>2. i + 2 \in DOMAIN p /\ w \in p[i + 2] /\ w.key = key /\ w.val = x[i].val
        BY <1>2, <1>3, <1>5, <2>1 DEF Write
    <2>3. key \in FieldKeys /\ key \notin IndexKeys /\ key.fld = s.idOf[n]
        BY <1>6, KeyFacts DEF FieldKey
    <2>4. ASSUME NEW j \in DOMAIN p, key \in KeysOfBatch(p[j])  PROVE j <= i + 2
        <3>1. mine(j, key)
            BY <1>1, <2>4
        <3>2. CASE j = 2
            BY <1>3, <2>1, <3>2
        <3>3. CASE /\ j - 2 \in DOMAIN x
                   /\ key = FieldKey(e, s.idOf[x[j - 2].name])
                   /\ s.idOf[x[j - 2].name] \in ids
            <4>1. s.idOf[x[j - 2].name] = s.idOf[n]
                BY <3>3 DEF FieldKey
            <4>2. x[j - 2].name = n
                <5>1. x[j - 2].name \in Names /\ n \in Names /\ s.idOf[n] # None
                    BY <1>3, <1>6, <3>3, NoneIsNoId
                <5> QED  BY <4>1, <5>1 DEF GoodIds
            <4>3. j - 2 <= i
                BY <2>1, <3>3, <4>2
            <4> QED  BY <1>3, <1>5, <2>1, <4>3
        <3> QED  BY <2>3, <3>1, <3>2, <3>3
    <2>5. IsLast(p, i + 2, w)
        BY <2>2, <2>4 DEF IsLast
    <2> HIDE DEF w, key
    <2>6. Val(r, w.key) = w.val
        BY <1>2, <1>4, <2>2, <2>5, ReplayValues
    <2> QED  BY <2>2, <2>6 DEF key, i
<1>9. ASSUME NEW f \in Nat, f \notin ids  PROVE Val(r, FieldKey(e, f)) = None
    <2> DEFINE key == FieldKey(e, f)
               w == Write(key, None)
    <2>1. key \in FieldKeys /\ key \notin IndexKeys /\ key.fld = f
        BY KeyFacts DEF FieldKey
    <2>2. \A j \in DOMAIN p : key \in KeysOfBatch(p[j]) => j = 2 /\ f \in gone
        <3> SUFFICES ASSUME NEW j \in DOMAIN p, key \in KeysOfBatch(p[j])  PROVE j = 2 /\ f \in gone
            OBVIOUS
        <3>1. mine(j, key)
            BY <1>1
        <3>2. CASE /\ j - 2 \in DOMAIN x
                   /\ key = FieldKey(e, s.idOf[x[j - 2].name])
                   /\ s.idOf[x[j - 2].name] \in ids
            BY <1>9, <3>2 DEF FieldKey
        <3> QED  BY <2>1, <3>1, <3>2
    <2>3. CASE f \in gone
        <3>1. 2 \in DOMAIN p
            BY <1>3, <1>5
        <3>2. w \in p[2] /\ w.key = key /\ w.val = None
            BY <1>2, <2>3 DEF Deletes, KeysOfFields, Write
        <3>3. IsLast(p, 2, w)
            BY <2>2, <3>2 DEF IsLast
        <3> HIDE DEF w, key
        <3>4. Val(r, w.key) = w.val
            BY <1>2, <1>4, <3>1, <3>2, <3>3, ReplayValues
        <3> QED  BY <3>2, <3>4 DEF key
    <2>4. CASE f \notin gone
        <3>1. key \notin KeysOfLog(p)
            BY <2>2, <2>4 DEF KeysOfLog
        <3>2. Val(m, key) = None
            <4>1. f \notin StoredFields(m, e)
                BY <1>9, <2>4
            <4> QED  BY <4>1, StoredFacts DEF Val
        <3> HIDE DEF key
        <3>3. Val(r, key) = Val(m, key)
            BY <1>2, <1>4, <3>1, ReplayValues
        <3> QED  BY <3>2, <3>3 DEF key
    <2> QED  BY <2>3, <2>4
<1>10. ASSUME NEW d \in Ids \ {e}  PROVE SameFields(r, m, d)
    <2>1. \A f \in Nat : FieldKey(d, f) \notin KeysOfLog(p)
        <3> SUFFICES ASSUME NEW f \in Nat, NEW j \in DOMAIN p, FieldKey(d, f) \in KeysOfBatch(p[j])
                     PROVE  FALSE
            BY DEF KeysOfLog
        <3>1. FieldKey(d, f).ent = e
            BY <1>1
        <3> QED  BY <3>1 DEF FieldKey
    <2> QED  BY <1>2, <1>4, <2>1, ReplayValues DEF SameFields
<1> HIDE DEF r, gone, ids
<1>11. StoredFields(r, e) \subseteq ids
    <2> SUFFICES ASSUME NEW f \in StoredFields(r, e), f \notin ids  PROVE FALSE
        OBVIOUS
    <2>1. f \in Nat /\ FieldKey(e, f) \in DOMAIN r
        BY <1>4, StoredFacts
    <2>2. Val(r, FieldKey(e, f)) # None
        BY <1>4, <2>1, MapFacts
    <2> QED  BY <1>9, <2>1, <2>2
<1>12. ReadEntity(r, s, e) = AsEntity(x)
    <2>1. ReadEntity(r, s, e) \in Entity
        BY <1>4, ReadFacts
    <2>2. ASSUME NEW n \in Names  PROVE ReadEntity(r, s, e)[n] = AsEntity(x)[n]
        <3>1. AsEntity(x)[n] = IF Places(x, n) = {} THEN None ELSE x[Max(Places(x, n))].val
            BY DEF AsEntity
        <3>2. ReadEntity(r, s, e)[n] = Val(r, FieldKey(e, s.idOf[n]))
            BY <1>4, ReadFacts
        <3>3. CASE n \in ToSet(NamesOf(x))
            BY <1>3, <1>8, <3>1, <3>2, <3>3
        <3>4. CASE n \notin ToSet(NamesOf(x)) /\ s.idOf[n] = None
            BY <1>3, <1>4, <3>1, <3>4, ReadFacts
        <3>5. CASE n \notin ToSet(NamesOf(x)) /\ s.idOf[n] # None
            <4>1. s.idOf[n] \in Nat
                BY <3>5 DEF Schemas, Field
            <4>2. s.idOf[n] \notin ids
                <5> SUFFICES ASSUME s.idOf[n] \in ids  PROVE FALSE
                    OBVIOUS
                <5>1. PICK k \in ToSet(NamesOf(x)) : s.idOf[k] = s.idOf[n]
                    BY DEF ids, FieldIds
                <5> QED  BY <1>6, <3>5, <5>1 DEF GoodIds
            <4> QED  BY <1>3, <1>9, <3>1, <3>2, <3>5, <4>1, <4>2
        <3> QED  BY <3>3, <3>4, <3>5
    <2> QED  BY <1>3, <2>1, <2>2 DEF Entity
<1> QED  BY <1>4, <1>10, <1>11, <1>12 DEF r, ids, p

\* The keys that the phases of delete_entity write.
LEMMA DeleteKeys ==
    ASSUME NEW m \in Maps, NEW s \in Schemas, AllNumbered(s), NEW e \in Ids,
           NEW j \in DOMAIN DeleteWrites(m, s, e),
           NEW k \in KeysOfBatch(DeleteWrites(m, s, e)[j])
    PROVE  /\ k.ent = e
           /\ \/ k \in IndexKeys /\ j = 2
              \/ /\ j = 1 /\ k.fld \in StoredFields(m, e)
                 /\ k = FieldKey(e, k.fld) /\ k \in FieldKeys
<1> DEFINE p == DeleteWrites(m, s, e)
           old == EntriesFor(s, Stored(m, e, StoredFields(m, e)), e)
           del == KeysOfFields(e, StoredFields(m, e))
<1>1. /\ DOMAIN p = 1 .. 2 /\ j \in DOMAIN p /\ k \in KeysOfBatch(p[j])
      /\ p[1] = Deletes(del) /\ p[2] = Deletes(old)
    BY DeleteWritesFacts DEF DeletePhases
<1>2. \A q \in old : q \in IndexKeys /\ q.ent = e
    <2>1. IsFields(Stored(m, e, StoredFields(m, e)))
        BY StoredIsFields
    <2>2. <<>> \in Input
        BY DEF Input
    <2> QED  BY <2>1, <2>2, EntriesType
<1>3. \A q \in del : q.ent = e /\ q = FieldKey(e, q.fld) /\ q \in FieldKeys /\ q.fld \in StoredFields(m, e)
    BY StoredFacts, KeyFacts DEF KeysOfFields, FieldKey
<1> HIDE DEF p, old, del
<1> QED  BY <1>1, <1>2, <1>3, PutsAndDeletes

\* After a deletion nothing is left of the entity, and others are as they were.
LEMMA DeleteRead ==
    ASSUME NEW m \in Maps, NEW s \in Schemas, AllNumbered(s), NEW e \in Ids
    PROVE  LET r == Replayed(m, DeleteWrites(m, s, e))
           IN  /\ r \in Maps
               /\ ReadEntity(r, s, e) = NoEntity
               /\ StoredFields(r, e) = {}
               /\ \A d \in Ids \ {e} : SameFields(r, m, d)
<1> DEFINE p == DeleteWrites(m, s, e)
           r == Replayed(m, p)
<1>1. \A j \in DOMAIN p : \A k \in KeysOfBatch(p[j]) :
        /\ k.ent = e
        /\ \/ k \in IndexKeys /\ j = 2
           \/ j = 1 /\ k.fld \in StoredFields(m, e) /\ k = FieldKey(e, k.fld) /\ k \in FieldKeys
    BY DeleteKeys
<1>2. p \in Seq(Batches) /\ DOMAIN p = 1 .. 2 /\ p[1] = Deletes(KeysOfFields(e, StoredFields(m, e)))
    BY DeleteWritesFacts DEF DeletePhases
<1>3. IsMap(m) /\ r \in Maps
    BY <1>2, MapsAreMaps, ReplayType
<1> HIDE DEF p
<1>4. ASSUME NEW f \in Nat  PROVE Val(r, FieldKey(e, f)) = None
    <2> DEFINE key == FieldKey(e, f)
               w == Write(key, None)
    <2>1. key \in FieldKeys /\ key \notin IndexKeys /\ key.fld = f
        BY KeyFacts DEF FieldKey
    <2>2. \A j \in DOMAIN p : key \in KeysOfBatch(p[j]) => j = 1 /\ f \in StoredFields(m, e)
        BY <1>1, <2>1
    <2>3. CASE f \in StoredFields(m, e)
        <3>0. key \in KeysOfFields(e, StoredFields(m, e))
            BY <2>3 DEF KeysOfFields
        <3>1. 1 \in DOMAIN p /\ w \in p[1] /\ w.key = key /\ w.val = None
            BY <1>2, <3>0 DEF Deletes, Write
        <3>2. IsLast(p, 1, w)
            BY <2>2, <3>1 DEF IsLast
        <3> HIDE DEF w, key
        <3>3. Val(r, w.key) = w.val
            BY <1>2, <1>3, <3>1, <3>2, ReplayValues
        <3> QED  BY <3>1, <3>3 DEF key
    <2>4. CASE f \notin StoredFields(m, e)
        <3>1. key \notin KeysOfLog(p)
            BY <2>2, <2>4 DEF KeysOfLog
        <3>2. Val(m, key) = None
            BY <2>4, StoredFacts DEF Val
        <3> HIDE DEF key
        <3>3. Val(r, key) = Val(m, key)
            BY <1>2, <1>3, <3>1, ReplayValues
        <3> QED  BY <3>2, <3>3 DEF key
    <2> QED  BY <2>3, <2>4
<1>5. ASSUME NEW d \in Ids \ {e}  PROVE SameFields(r, m, d)
    <2>1. \A f \in Nat : FieldKey(d, f) \notin KeysOfLog(p)
        <3> SUFFICES ASSUME NEW f \in Nat, NEW j \in DOMAIN p, FieldKey(d, f) \in KeysOfBatch(p[j])
                     PROVE  FALSE
            BY DEF KeysOfLog
        <3>1. FieldKey(d, f).ent = e
            BY <1>1
        <3> QED  BY <3>1 DEF FieldKey
    <2> QED  BY <1>2, <1>3, <2>1, ReplayValues DEF SameFields
<1> HIDE DEF r
<1>6. StoredFields(r, e) = {}
    <2> SUFFICES ASSUME NEW f \in StoredFields(r, e)  PROVE FALSE
        OBVIOUS
    <2>1. f \in Nat /\ FieldKey(e, f) \in DOMAIN r
        BY <1>3, StoredFacts
    <2>2. Val(r, FieldKey(e, f)) # None
        BY <1>3, <2>1, MapFacts
    <2> QED  BY <1>4, <2>1, <2>2
<1>7. ReadEntity(r, s, e) = NoEntity
    <2>1. ReadEntity(r, s, e) \in Entity
        BY <1>3, ReadFacts
    <2>2. ASSUME NEW n \in Names  PROVE ReadEntity(r, s, e)[n] = None
        <3>1. s.idOf[n] = None \/ s.idOf[n] \in Nat
            BY DEF Schemas, Field
        <3> QED  BY <1>3, <1>4, <3>1, ReadFacts
    <2> QED  BY <2>1, <2>2 DEF Entity, NoEntity
<1> QED  BY <1>3, <1>5, <1>6, <1>7 DEF r, p

\* What a call on one entity does to what is read of all.
LEMMA OthersRead ==
    ASSUME NEW m \in Maps, NEW r \in Maps, NEW s \in Schemas, NEW e \in Ids,
           \A d \in Ids \ {e} : SameFields(r, m, d)
    PROVE  /\ Read(r, s) = [Read(m, s) EXCEPT ![e] = ReadEntity(r, s, e)]
           /\ \A d \in Ids \ {e} : StoredFields(r, d) = StoredFields(m, d)
<1>1. Read(r, s) \in [Ids -> Entity] /\ Read(m, s) \in [Ids -> Entity]
    BY ReadFacts
<1>2. \A d \in Ids : Read(r, s)[d] = ReadEntity(r, s, d) /\ Read(m, s)[d] = ReadEntity(m, s, d)
    BY ReadFacts
<1>3. \A d \in Ids \ {e} : /\ ReadEntity(r, s, d) = ReadEntity(m, s, d)
                           /\ StoredFields(r, d) = StoredFields(m, d)
    BY SameReads
<1>4. \A d \in Ids : Read(r, s)[d] = [Read(m, s) EXCEPT ![e] = ReadEntity(r, s, e)][d]
    BY <1>1, <1>2, <1>3
<1> QED  BY <1>1, <1>3, <1>4

\* Writes of index entries change no entity.
LEMMA IndexOnlyRead ==
    ASSUME NEW m \in Maps, NEW l \in Seq(Batches), KeysOfLog(l) \subseteq IndexKeys
    PROVE  /\ \A s \in Schemas : Read(Replayed(m, l), s) = Read(m, s)
           /\ \A e \in Ids : StoredFields(Replayed(m, l), e) = StoredFields(m, e)
<1>1. Replayed(m, l) \in Maps
    BY ReplayType
<1>2. \A e \in Ids : SameFields(Replayed(m, l), m, e)
    BY IndexWritesRead
<1>3. ASSUME NEW s \in Schemas  PROVE Read(Replayed(m, l), s) = Read(m, s)
    <2>1. \A e \in Ids : ReadEntity(Replayed(m, l), s, e) = ReadEntity(m, s, e)
        BY <1>1, <1>2, SameReads
    <2> QED  BY <2>1 DEF Read
<1> QED  BY <1>1, <1>2, <1>3, SameReads

\* An index build and the removal of an index write index entries only.
LEMMA IndexPhases ==
    ASSUME NEW m \in Maps, NEW s \in Schemas, NEW ix \in Indexes
    PROVE  /\ KeysOfLog(<<Deletes(EntriesOf(m, s, ix))>>) \subseteq IndexKeys
           /\ Numbered(s, ix) => KeysOfLog(RebuildWrites(m, s, ix)) \subseteq IndexKeys
<1> DEFINE D == Deletes(EntriesOf(m, s, ix))
           P == Puts(RightEntries(m, s, ix))
<1>1. KeysOfBatch(D) \subseteq IndexKeys
    BY RebuildWritesFacts, PutsAndDeletes
<1>2. Numbered(s, ix) => KeysOfBatch(P) \subseteq IndexKeys
    BY RebuildWritesFacts, PutsAndDeletes
<1>3. RebuildWrites(m, s, ix) = <<D, P>>
    BY DEF RebuildWrites
<1> HIDE DEF D, P
<1>4. KeysOfLog(<<D>>) = KeysOfBatch(D)
    BY DEF KeysOfLog
<1>5. KeysOfLog(<<D, P>>) = KeysOfBatch(D) \cup KeysOfBatch(P)
    BY DEF KeysOfLog
<1> QED  BY <1>1, <1>2, <1>3, <1>4, <1>5 DEF D

-----------------------------------------------------------------------------
(* The ids of what is stored have names in SCHEMA.                         *)

\* A put or cas_update is under way, SCHEMA still to be saved.
InPut == pc \in {"write", "save", "truncate", "persist"} /\ job.op \in {"put", "cas"}

\* No put or cas_update of the store is cut short, by an error or by a crash:
\* it writes fields before SCHEMA has their new names.
SchemaFirst ==
    \/ Calls \cap {"put", "cas"} = {}
    \/ /\ Faults \cap {"put", "cas"} = {}
       /\ CrashAt \cap {"put", "cas", "save", "truncate", "persist"} = {}

\* Keys of the tables, the log and what is to come have names in memory, and,
\* unless a put is under way, in the file.
Known ==
    /\ pc # "down" => /\ KnownTo(schema, DOMAIN base) /\ KnownTo(schema, KeysOfLog(log))
                      /\ KnownTo(schema, KeysOfBatch(pending))
                      /\ KnownTo(schema, KeysOfLog(job.todo))
    /\ ~InPut => /\ KnownTo(saved, DOMAIN base) /\ KnownTo(saved, KeysOfLog(log))
                 /\ KnownTo(saved, KeysOfLog(job.todo))
    /\ job.op \in {"put", "cas"} => Calls \cap {"put", "cas"} # {}

\* Fewer keys, or more names, keep keys known.
LEMMA KnownMore ==
    ASSUME NEW s \in Schemas, NEW K, KnownTo(s, K)
    PROVE  /\ \A J : J \subseteq K => KnownTo(s, J)
           /\ \A J : KnownTo(s, J) => KnownTo(s, K \cup J)
           /\ \A t \in Schemas : Extends(t, s) => KnownTo(t, K)
<1>1. ASSUME NEW t \in Schemas, Extends(t, s)  PROVE FieldIds(s, Names) \subseteq FieldIds(t, Names)
    BY <1>1 DEF Extends, FieldIds
<1> QED  BY <1>1 DEF KnownTo

\* A map has no keys but those it had and those that were written.
LEMMA ReplayDomain ==
    ASSUME NEW m \in Maps
    PROVE  /\ \A b \in Batches : DOMAIN Apply(m, b) \subseteq DOMAIN m \cup KeysOfBatch(b)
           /\ \A l \in Seq(Batches) : DOMAIN Replayed(m, l) \subseteq DOMAIN m \cup KeysOfLog(l)
<1>1. ASSUME NEW b \in Batches  PROVE DOMAIN Apply(m, b) \subseteq DOMAIN m \cup KeysOfBatch(b)
    BY DEF Apply, KeysOfBatch
<1>2. ASSUME NEW l \in Seq(Batches)  PROVE DOMAIN Replayed(m, l) \subseteq DOMAIN m \cup KeysOfLog(l)
    BY <1>1, LastWritesType, LastWritesBatch DEF Replayed
<1> QED  BY <1>1, <1>2

\* So what is stored in a map of known keys is known.
LEMMA StoredKnown ==
    ASSUME NEW m \in Maps, NEW s \in Schemas, KnownTo(s, DOMAIN m), NEW e \in Ids
    PROVE  StoredFields(m, e) \subseteq FieldIds(s, Names)
<1> SUFFICES ASSUME NEW f \in StoredFields(m, e)  PROVE f \in FieldIds(s, Names)
    OBVIOUS
<1>1. f \in Nat /\ FieldKey(e, f) \in DOMAIN m
    BY StoredFacts
<1>2. FieldKey(e, f) \in FieldKeys /\ FieldKey(e, f).fld = f
    BY <1>1, KeyFacts DEF FieldKey
<1> QED  BY <1>1, <1>2 DEF KnownTo

\* Nothing that is yet to be written to an index concerns the names of fields.
LEMMA IndexKeysKnown ==
    ASSUME NEW s, NEW K, K \subseteq IndexKeys
    PROVE  KnownTo(s, K)
BY KeyFacts DEF KnownTo

\* put_entity and delete_entity write fields that have names.
LEMMA WritesKnown ==
    ASSUME NEW m \in Maps, NEW s \in Schemas, AllNumbered(s), KnownTo(s, DOMAIN m), NEW e \in Ids
    PROVE  /\ \A x \in Input : \A h :
                Numbered(s, NamesOf(x)) => KnownTo(s, KeysOfLog(PutWrites(m, s, h, e, x)))
           /\ KnownTo(s, KeysOfLog(DeleteWrites(m, s, e)))
<1>1. StoredFields(m, e) \subseteq FieldIds(s, Names)
    BY StoredKnown
<1>2. ASSUME NEW h, NEW x \in Input, Numbered(s, NamesOf(x))
      PROVE  KnownTo(s, KeysOfLog(PutWrites(m, s, h, e, x)))
    <2>1. ToSet(NamesOf(x)) \subseteq Names
        BY InputFacts DEF ToSet
    <2>2. FieldIds(s, ToSet(NamesOf(x))) \subseteq FieldIds(s, Names)
        BY <2>1 DEF FieldIds
    <2> SUFFICES ASSUME NEW j \in DOMAIN PutWrites(m, s, h, e, x),
                        NEW k \in KeysOfBatch(PutWrites(m, s, h, e, x)[j]), k \in FieldKeys
                 PROVE  k.fld \in FieldIds(s, Names)
        BY DEF KnownTo, KeysOfLog
    <2>3. \/ k \in IndexKeys
          \/ k.fld \in StoredFields(m, e)
          \/ /\ k = FieldKey(e, s.idOf[x[j - 2].name])
             /\ s.idOf[x[j - 2].name] \in FieldIds(s, ToSet(NamesOf(x)))
        BY <1>2, PutKeys
    <2> QED  BY <1>1, <2>2, <2>3, KeyFacts DEF FieldKey
<1>3. KnownTo(s, KeysOfLog(DeleteWrites(m, s, e)))
    <2> SUFFICES ASSUME NEW j \in DOMAIN DeleteWrites(m, s, e),
                        NEW k \in KeysOfBatch(DeleteWrites(m, s, e)[j]), k \in FieldKeys
                 PROVE  k.fld \in FieldIds(s, Names)
        BY DEF KnownTo, KeysOfLog
    <2>1. k \in IndexKeys \/ k.fld \in StoredFields(m, e)
        BY DeleteKeys
    <2> QED  BY <1>1, <2>1, KeyFacts
<1> QED  BY <1>2, <1>3

\* The jobs of calls that write nothing themselves.
LEMMA IdleJobs ==
    Flush \/ Close \/ Begin \/ StartCommit
    => job'.op \in {"none", "flush", "close", "commit"} /\ job'.todo = <<>> /\ job'.ent = {}
<1>1. Flush => job'.op = "flush" /\ job'.todo = <<>> /\ job'.ent = {}
    BY DEF Flush, NoJob
<1>2. Close => job'.op = "close" /\ job'.todo = <<>> /\ job'.ent = {}
    BY DEF Close, NoJob
<1>3. Begin => job'.op = "none" /\ job'.todo = <<>> /\ job'.ent = {}
    BY DEF Begin, NoJob
<1>4. StartCommit => job'.op = "commit" /\ job'.todo = <<>> /\ job'.ent = {}
    BY DEF StartCommit, NoJob
<1> QED  BY <1>1, <1>2, <1>3, <1>4

\* The keys of what is read now.
LEMMA KvKnown ==
    ASSUME TInv
    PROVE  /\ \A s \in Schemas :
                KnownTo(s, DOMAIN base) /\ KnownTo(s, KeysOfLog(log)) => KnownTo(s, DOMAIN Kv)
           /\ \A s \in Schemas :
                KnownTo(s, DOMAIN Kv) /\ KnownTo(s, KeysOfBatch(pending)) => KnownTo(s, DOMAIN View)
           /\ DOMAIN Kv \subseteq DOMAIN base \cup KeysOfLog(log)
<1>1. base \in Maps /\ log \in Seq(Batches) /\ pending \in Batches /\ Kv \in Maps
    BY ViewType DEF TInv, EngineType, StateType
<1>2. DOMAIN Kv \subseteq DOMAIN base \cup KeysOfLog(log)
    BY <1>1, ReplayDomain DEF Kv
<1>3. DOMAIN View \subseteq DOMAIN Kv \cup KeysOfBatch(pending)
    BY <1>1, ReplayDomain DEF View
<1> QED  BY <1>2, <1>3 DEF KnownTo

\* An empty store has no keys.
LEMMA InitKnown == Init => Known
<1> SUFFICES ASSUME Init  PROVE Known
    OBVIOUS
<1>1. /\ KeysOfLog(<<>>) = {} /\ KeysOfBatch({}) = {} /\ DOMAIN <<>> = {}
    BY DEF KeysOfLog, KeysOfBatch
<1>2. job.op = "none" /\ job.todo = <<>>
    BY DEF Init, NoJob
<1> QED  BY <1>1, <1>2 DEF Init, Known, KnownTo

\* The start of a call keeps keys known.
LEMMA StartKnown ==
    ASSUME TInv, Control, Known
    PROVE  /\ \A e \in Ids, x \in Inputs : PutEntity(e, x) => Known'
           /\ \A e \in Ids, u \in Updates : CasUpdate(e, u) => Known'
           /\ \A e \in Ids : DeleteEntity(e) => Known'
           /\ \A ix \in Indexes : CreateIndex(ix) \/ RecoverIndex(ix) \/ DropIndex(ix) => Known'
           /\ \A ix \in Indexes : NarrowCreateIndex(ix) \/ NarrowDropIndex(ix) => Known'
           /\ Flush \/ Close \/ Begin \/ StartCommit => Known'
<1>1. EngineType /\ SchemaType /\ StateType /\ JobType /\ Kv \in Maps
    BY ViewType DEF TInv
<1>2. KeysOfLog(<<>>) = {}
    BY DEF KeysOfLog
<1>3. \A K : K = {} => \A s : KnownTo(s, K)
    BY DEF KnownTo
<1>4. ASSUME NEW e \in Ids, NEW x \in Input, schema' = Allot(schema, NamesOf(x)),
             NEW op \in {"put", "cas"}, op \in Calls, pc = "idle", pc' = "write",
             job'.op = op, job'.todo = PutWrites(Kv, schema', hint[e], e, x),
             UNCHANGED <<base, log, saved, pending>>
      PROVE  Known'
    <2>1. NamesOf(x) \in Seq(Names)
        BY InputFacts
    <2>2. schema' \in Schemas /\ AllNumbered(schema') /\ Extends(schema', schema) /\ Numbered(schema', NamesOf(x))
        BY <1>1, <1>4, <2>1, NewSchema
    <2>3. /\ KnownTo(schema', DOMAIN base) /\ KnownTo(schema', KeysOfLog(log))
          /\ KnownTo(schema', KeysOfBatch(pending))
        BY <1>1, <1>4, <2>2, KnownMore DEF Known, SchemaType
    <2>4. KnownTo(schema', DOMAIN Kv)
        BY <2>2, <2>3, KvKnown
    <2>5. KnownTo(schema', KeysOfLog(job'.todo))
        BY <1>1, <1>4, <2>2, <2>4, WritesKnown
    <2> QED  BY <1>4, <2>3, <2>5 DEF Known, InPut
<1>5. ASSUME NEW e \in Ids, NEW x \in Inputs, PutEntity(e, x)  PROVE Known'
    <2>1. job'.op = "put" /\ job'.todo = PutWrites(Kv, schema', hint[e], e, x)
        BY <1>5 DEF PutEntity, NoJob
    <2> QED  BY <1>4, <1>5, <2>1, InputNames DEF PutEntity, Called, engine
<1>6. ASSUME NEW e \in Ids, NEW u \in Updates, CasUpdate(e, u)  PROVE Known'
    <2> DEFINE p == AsInput(Patched(Kv, schema, e, u))
    <2>1. p \in Input
        BY <1>1, PatchedType, InputNames DEF SchemaType
    <2>2. schema' = Allot(schema, NamesOf(p)) /\ pc = "idle" /\ "cas" \in Calls /\ pc' = "write"
          /\ UNCHANGED <<base, log, saved, pending>>
        BY <1>6 DEF CasUpdate, Called, engine
    <2>3. job'.op = "cas" /\ job'.todo = PutWrites(Kv, schema', hint[e], e, p)
        BY <1>6 DEF CasUpdate, NoJob
    <2> HIDE DEF p
    <2> QED  BY <1>4, <2>1, <2>2, <2>3
<1>7. ASSUME NEW e \in Ids, DeleteEntity(e)  PROVE Known'
    <2>1. job'.op = "delete" /\ job'.todo = DeleteWrites(Kv, schema, e)
        BY <1>7 DEF DeleteEntity, NoJob
    <2>2. pc = "idle" /\ pc' = "write" /\ UNCHANGED <<base, log, schema, saved, pending>>
        BY <1>7 DEF DeleteEntity, Called, engine
    <2>3. /\ KnownTo(schema, DOMAIN Kv) /\ KnownTo(saved, DOMAIN Kv)
        BY <1>1, <2>2, KvKnown DEF Known, SchemaType, InPut
    <2>4. \A k \in KeysOfLog(DeleteWrites(Kv, schema, e)) \cap FieldKeys : k.fld \in StoredFields(Kv, e)
        <3> SUFFICES ASSUME NEW j \in DOMAIN DeleteWrites(Kv, schema, e),
                            NEW k \in KeysOfBatch(DeleteWrites(Kv, schema, e)[j]), k \in FieldKeys
                     PROVE  k.fld \in StoredFields(Kv, e)
            BY DEF KeysOfLog
        <3> QED  BY <1>1, DeleteKeys, KeyFacts DEF SchemaType
    <2>5. KnownTo(schema, KeysOfLog(job'.todo)) /\ KnownTo(saved, KeysOfLog(job'.todo))
        BY <1>1, <2>1, <2>3, <2>4, StoredKnown DEF KnownTo, SchemaType
    <2> QED  BY <2>1, <2>2, <2>5 DEF Known, InPut
<1>8. ASSUME NEW ix \in Indexes, CreateIndex(ix) \/ RecoverIndex(ix)  PROVE Known'
    <2>1. PICK to : StartCreate(ix, to)
        BY <1>8 DEF CreateIndex, RecoverIndex
    <2>2. pc \in {"idle", "recover"} /\ UNCHANGED <<base, log, saved, pending>>
        BY <1>8 DEF CreateIndex, RecoverIndex, Called, engine
    <2>3. schema' = Registered(schema, ix) /\ pc' = "persist" /\ job'.op = "create"
          /\ job'.todo = RebuildWrites(Kv, schema', ix)
        BY <2>1 DEF StartCreate, NoJob
    <2>4. schema' \in Schemas /\ Extends(schema', schema) /\ Numbered(schema', ix)
        BY <1>1, <2>3, RegisteredType
    <2>5. /\ KnownTo(schema', DOMAIN base) /\ KnownTo(schema', KeysOfLog(log))
          /\ KnownTo(schema', KeysOfBatch(pending))
        BY <1>1, <2>2, <2>4, KnownMore DEF Known, SchemaType
    <2>6. KeysOfLog(job'.todo) \subseteq IndexKeys
        BY <1>1, <2>3, <2>4, IndexPhases
    <2>7. KnownTo(schema', KeysOfLog(job'.todo)) /\ KnownTo(saved, KeysOfLog(job'.todo))
        BY <2>6, IndexKeysKnown
    <2> QED  BY <2>2, <2>3, <2>5, <2>7 DEF Known, InPut
<1>9. ASSUME NEW ix \in Indexes, DropIndex(ix)  PROVE Known'
    <2>1. pc = "idle" /\ pc' = "write" /\ UNCHANGED <<base, log, schema, saved, pending>>
        BY <1>9 DEF DropIndex, Called, engine
    <2>2. job'.op = "drop" /\ job'.todo = <<Deletes(EntriesOf(Kv, schema, ix))>>
        BY <1>9 DEF DropIndex, NoJob
    <2>3. KeysOfLog(job'.todo) \subseteq IndexKeys
        BY <1>1, <2>2, IndexPhases DEF SchemaType
    <2>4. KnownTo(schema, KeysOfLog(job'.todo)) /\ KnownTo(saved, KeysOfLog(job'.todo))
        BY <2>3, IndexKeysKnown
    <2> QED  BY <2>1, <2>2, <2>4 DEF Known, InPut
<1>10. ASSUME Flush \/ Close \/ Begin \/ StartCommit  PROVE Known'
    <2>1. pc \in {"idle", "tx"} /\ UNCHANGED <<base, log, schema, saved, pending>>
        BY <1>10 DEF Flush, Close, Begin, StartCommit, Called, engine
    <2>2. job'.op \in {"none", "flush", "close", "commit"} /\ job'.todo = <<>>
        BY <1>10, IdleJobs
    <2> QED  BY <1>2, <1>3, <2>1, <2>2 DEF Known, InPut
<1>11. ASSUME NEW ix \in Indexes, NarrowCreateIndex(ix) \/ NarrowDropIndex(ix)  PROVE Known'
    <2>1. pc = "idle" /\ UNCHANGED <<base, log, saved, pending>>
          /\ job'.op \in {"narrow_create", "narrow_drop"}
        BY <1>11, NarrowStarts
    <2>2. schema' \in Schemas /\ Extends(schema', schema)
        <3>1. schema' = schema \/ schema' = Registered(schema, ix)
            BY <1>11, NarrowStarts
        <3> QED  BY <1>1, <3>1, RegisteredType DEF SchemaType, Extends
    <2>3. /\ KnownTo(schema', DOMAIN base) /\ KnownTo(schema', KeysOfLog(log))
          /\ KnownTo(schema', KeysOfBatch(pending))
        BY <1>1, <2>1, <2>2, KnownMore DEF Known, SchemaType
    <2>4. KeysOfLog(job'.todo) \subseteq IndexKeys
        BY <1>11, NarrowStarts DEF IsNarrow
    <2>5. KnownTo(schema', KeysOfLog(job'.todo)) /\ KnownTo(saved, KeysOfLog(job'.todo))
        BY <2>4, IndexKeysKnown
    <2> QED  BY <2>1, <2>3, <2>5 DEF Known, InPut
<1> QED  BY <1>5, <1>6, <1>7, <1>8, <1>9, <1>10, <1>11

\* The writes of a call keep keys known: what is written was to be written.
LEMMA WorkKnown ==
    ASSUME SchemaFirst, TInv, Control, Known
    PROVE  /\ WriteOne \/ SaveTables \/ Truncate \/ Persist => Known'
           /\ PutDone \/ DeleteDone \/ IndexDone => Known'
           /\ \A step \in {"write", "save", "truncate", "persist"} : CallFails(step) => Known'
           /\ CommitFails => Known'
<1>1. EngineType /\ SchemaType /\ StateType /\ JobType /\ Kv \in Maps /\ job \in Jobs
    BY ViewType DEF TInv, JobType
<1>2. KeysOfLog(<<>>) = {} /\ KeysOfBatch({}) = {}
    BY DEF KeysOfLog, KeysOfBatch
<1>3. \A K : K = {} => \A s : KnownTo(s, K)
    BY DEF KnownTo
<1>4. ASSUME WriteOne  PROVE Known'
    <2>1. PICK i \in DOMAIN job.todo :
            /\ Current(job.todo, i)
            /\ \E w \in job.todo[i] : /\ log' = Append(log, {w})
                                      /\ job' = [job EXCEPT !.todo = Without(job.todo, i, w)]
        BY <1>4 DEF WriteOne
    <2>2. PICK w \in job.todo[i] : /\ log' = Append(log, {w})
                                   /\ job' = [job EXCEPT !.todo = Without(job.todo, i, w)]
        BY <2>1
    <2>3. job.todo \in Seq(Batches) /\ log \in Seq(Batches) /\ IsMap(Kv)
        BY <1>1, MapsAreMaps DEF Jobs, EngineType
    <2>4. {w} \in Batches /\ w.key \in KeysOfLog(job.todo)
          /\ KeysOfLog(Without(job.todo, i, w)) \subseteq KeysOfLog(job.todo)
        BY <2>1, <2>3, NextWrite
    <2>5. KeysOfLog(log') = KeysOfLog(log) \cup KeysOfBatch({w})
        BY <2>2, <2>3, <2>4, MapsAreMaps, ReplayAppend
    <2>6. KeysOfLog(log') \subseteq KeysOfLog(log) \cup KeysOfLog(job.todo)
        BY <2>4, <2>5 DEF KeysOfBatch
    <2>7. job'.op = job.op /\ KeysOfLog(job'.todo) \subseteq KeysOfLog(job.todo)
        BY <1>1, <2>2, <2>4 DEF Jobs
    <2>8. pc = "write" /\ pc' \in {"save", "write"} /\ UNCHANGED <<base, schema, saved, pending>>
        BY <1>4 DEF WriteOne
    <2> QED  BY <2>6, <2>7, <2>8 DEF Known, KnownTo, InPut
<1>5. ASSUME SaveTables  PROVE Known'
    <2>1. pc = "save" /\ pc' = "truncate" /\ base' = Kv /\ UNCHANGED <<log, schema, saved, pending, job>>
        BY <1>5 DEF SaveTables
    <2>2. DOMAIN base' \subseteq DOMAIN base \cup KeysOfLog(log)
        BY <2>1, KvKnown
    <2> QED  BY <2>1, <2>2 DEF Known, KnownTo, InPut
<1>6. ASSUME Truncate  PROVE Known'
    <2>1. pc = "truncate" /\ log' = <<>> /\ UNCHANGED <<base, schema, saved, pending, job>>
        BY <1>6 DEF Truncate
    <2>2. job.op \in {"put", "cas"} => pc' = "write"
        BY <1>6 DEF Truncate, Writers
    <2> QED  BY <1>2, <1>3, <2>1, <2>2 DEF Known, InPut
<1>7. ASSUME Persist  PROVE Known'
    <2>1. pc = "persist" /\ saved' = schema /\ UNCHANGED <<base, log, schema, pending, job>>
        BY <1>7 DEF Persist, engine
    <2> QED  BY <2>1 DEF Known
<1>8. ASSUME NEW next, NEW after, Finish(next, after)
      PROVE  job'.op = job.op /\ job'.todo = <<>> /\ pc = "write" /\ pc' = next
    BY <1>1, <1>8 DEF Finish, Jobs
<1>9. ASSUME PutDone  PROVE Known'
    <2>1. /\ UNCHANGED <<base, log, schema, saved, pending>>
          /\ Finish(IF schema # saved THEN "persist" ELSE "idle", "idle")
        BY <1>9 DEF PutDone, engine
    <2>2. job'.op = job.op /\ job'.todo = <<>> /\ pc = "write"
          /\ pc' = IF schema # saved THEN "persist" ELSE "idle"
        BY <1>8, <2>1
    <2>3. job.op \in {"put", "cas"}
        BY <1>9 DEF PutDone
    <2> QED  BY <1>2, <1>3, <2>1, <2>2, <2>3 DEF Known, InPut
<1>10. ASSUME DeleteDone  PROVE Known'
    <2>1. UNCHANGED <<base, log, schema, saved, pending>> /\ Finish("idle", "idle") /\ job.op = "delete"
        BY <1>10 DEF DeleteDone, engine
    <2>2. job'.op = job.op /\ job'.todo = <<>> /\ pc = "write" /\ pc' = "idle"
        BY <1>8, <2>1
    <2> QED  BY <1>2, <1>3, <2>1, <2>2 DEF Known, InPut
<1>11. ASSUME IndexDone  PROVE Known'
    <2>1. UNCHANGED <<base, log, saved, pending>> /\ Finish("persist", job.back)
          /\ job.op \notin {"put", "cas"} /\ \E st : schema' = WithStatus(schema, job.ix, st)
        BY <1>11 DEF IndexDone, engine
    <2>2. job'.op = job.op /\ job'.todo = <<>> /\ pc = "write" /\ pc' = "persist"
        BY <1>8, <2>1
    <2>3. FieldIds(schema', Names) = FieldIds(schema, Names)
        BY <1>1, <2>1 DEF WithStatus, SchemaType, Schemas, FieldIds
    <2> QED  BY <1>2, <1>3, <2>1, <2>2, <2>3 DEF Known, KnownTo, InPut
<1>12. ASSUME NEW step \in {"write", "save", "truncate", "persist"}, CallFails(step)
      PROVE  Known'
    <2>1. /\ UNCHANGED <<base, log, schema, saved>> /\ pending' = {}
          /\ pc = step /\ job.op \in Faults /\ pc' \in {"idle", "down"}
        BY <1>12 DEF CallFails, engine
    <2>2. job'.op = "none" /\ job'.todo = <<>>
        BY <1>12 DEF CallFails, NoJob
    <2>3. ~InPut
        BY <2>1 DEF SchemaFirst, Known, InPut
    <2> QED  BY <1>2, <1>3, <2>1, <2>2, <2>3 DEF Known, InPut
<1>13. ASSUME CommitFails  PROVE Known'
    <2>1. UNCHANGED <<base, log, schema, saved, pending>> /\ pc = "persist" /\ pc' = "tx" /\ job.op = "commit"
        BY <1>13 DEF CommitFails, engine
    <2>2. job'.op = "none" /\ job'.todo = <<>>
        BY <1>13 DEF CommitFails, NoJob
    <2> QED  BY <1>2, <1>3, <2>1, <2>2 DEF Known, InPut
<1> QED  BY <1>4, <1>5, <1>6, <1>7, <1>9, <1>10, <1>11, <1>12, <1>13

\* Transactions keep keys known: SCHEMA is saved before their block is logged.
LEMMA TransactionKnown ==
    ASSUME TInv, Control, Known
    PROVE  /\ \A e \in Ids, x \in Inputs : TxUpdate(e, x) => Known'
           /\ \A e \in Ids, u \in Updates : TxCasUpdate(e, u) => Known'
           /\ \A e \in Ids : TxDelete(e) => Known'
           /\ Abort \/ LogBlock \/ Sync => Known'
<1>1. /\ EngineType /\ SchemaType /\ StateType /\ JobType /\ Kv \in Maps /\ View \in Maps
      /\ pending \in Batches
    BY ViewType DEF TInv, StateType
<1>2. KeysOfLog(<<>>) = {} /\ KeysOfBatch({}) = {}
    BY DEF KeysOfLog, KeysOfBatch
<1>3. \A K : K = {} => \A s : KnownTo(s, K)
    BY DEF KnownTo
<1>4. ASSUME NEW l \in Seq(Batches)
      PROVE  KeysOfBatch(Pended(l)) = KeysOfBatch(pending) \cup KeysOfLog(l)
    BY <1>1, <1>4, MapsAreMaps, PendedWrites DEF Pended
<1>5. ASSUME NEW e \in Ids, NEW x \in Input, pc = "tx", schema' = Allot(schema, NamesOf(x)),
             pending' = Pended(PutWrites(View, schema', {}, e, x)),
             UNCHANGED <<base, log, saved, job, pc>>
      PROVE  Known'
    <2>1. NamesOf(x) \in Seq(Names)
        BY InputFacts
    <2>2. schema' \in Schemas /\ AllNumbered(schema') /\ Extends(schema', schema) /\ Numbered(schema', NamesOf(x))
        BY <1>1, <1>5, <2>1, NewSchema
    <2>3. /\ KnownTo(schema', DOMAIN base) /\ KnownTo(schema', KeysOfLog(log))
          /\ KnownTo(schema', KeysOfBatch(pending)) /\ KnownTo(schema', KeysOfLog(job.todo))
        BY <1>1, <1>5, <2>2, KnownMore DEF Known, SchemaType
    <2>4. KnownTo(schema', DOMAIN View)
        BY <2>2, <2>3, KvKnown
    <2> DEFINE l == PutWrites(View, schema', {}, e, x)
    <2>5. KnownTo(schema', KeysOfLog(l)) /\ l \in Seq(Batches)
        BY <1>1, <1>5, <2>2, <2>4, WritesKnown, PutTypes
    <2> HIDE DEF l
    <2>6. KeysOfBatch(pending') = KeysOfBatch(pending) \cup KeysOfLog(l)
        BY <1>4, <1>5, <2>5 DEF l
    <2>7. KnownTo(schema', KeysOfBatch(pending'))
        BY <2>3, <2>5, <2>6 DEF KnownTo
    <2> QED  BY <1>5, <2>3, <2>7 DEF Known, InPut
<1>6. ASSUME NEW e \in Ids, NEW x \in Inputs, TxUpdate(e, x)  PROVE Known'
    BY <1>5, <1>6, InputNames DEF TxUpdate, InTransaction, engine
<1>7. ASSUME NEW e \in Ids, NEW u \in Updates, TxCasUpdate(e, u)  PROVE Known'
    <2> DEFINE p == AsInput(Patched(View, schema, e, u))
    <2>1. p \in Input
        BY <1>1, PatchedType, InputNames DEF SchemaType
    <2>2. pc = "tx" /\ schema' = Allot(schema, NamesOf(p))
          /\ pending' = Pended(PutWrites(View, schema', {}, e, p))
          /\ UNCHANGED <<base, log, saved, job, pc>>
        BY <1>7 DEF TxCasUpdate, InTransaction, engine
    <2> HIDE DEF p
    <2> QED  BY <1>5, <2>1, <2>2
<1>8. ASSUME NEW e \in Ids, TxDelete(e)  PROVE Known'
    <2>1. pc = "tx" /\ UNCHANGED <<base, log, schema, saved, job, pc>>
          /\ pending' = Pended(DeleteWrites(View, schema, e))
        BY <1>8 DEF TxDelete, InTransaction, engine
    <2>2. KnownTo(schema, DOMAIN View)
        BY <1>1, <2>1, KvKnown DEF Known, SchemaType
    <2> DEFINE l == DeleteWrites(View, schema, e)
    <2>3. KnownTo(schema, KeysOfLog(l)) /\ l \in Seq(Batches)
        BY <1>1, <2>2, WritesKnown, DeleteWritesFacts DEF SchemaType, DeletePhases
    <2> HIDE DEF l
    <2>4. KeysOfBatch(pending') = KeysOfBatch(pending) \cup KeysOfLog(l)
        BY <1>4, <2>1, <2>3 DEF l
    <2> QED  BY <2>1, <2>3, <2>4 DEF Known, KnownTo, InPut
<1>9. ASSUME Abort  PROVE Known'
    BY <1>2, <1>3, <1>9 DEF Abort, engine, Known, InPut
<1>10. ASSUME LogBlock  PROVE Known'
    <2>1. pc = "block" /\ pc' = "sync" /\ log' = Append(log, pending)
          /\ UNCHANGED <<base, schema, saved, pending, job>>
        BY <1>10 DEF LogBlock
    <2>2. KeysOfLog(log') = KeysOfLog(log) \cup KeysOfBatch(pending)
        BY <1>1, <2>1, MapsAreMaps, ReplayAppend DEF EngineType
    <2>3. saved = schema
        BY <2>1 DEF Control, Commits
    <2> QED  BY <2>1, <2>2, <2>3 DEF Known, KnownTo, InPut
<1>11. ASSUME Sync  PROVE Known'
    <2>1. /\ pc = "sync" /\ pc' \in {"save", "idle"} /\ pending' = {} /\ job.op = "commit"
          /\ UNCHANGED <<base, log, schema, saved, job>>
        BY <1>11 DEF Sync, Control, Course
    <2> QED  BY <1>2, <1>3, <2>1 DEF Known, InPut
<1> QED  BY <1>6, <1>7, <1>8, <1>9, <1>10, <1>11

\* So do crashes and opening, unless a put is cut short.
LEMMA RestartKnown ==
    ASSUME SchemaFirst, TInv, Control, Known
    PROVE  Crash \/ Open \/ Recovered => Known'
<1>1. EngineType /\ SchemaType /\ log \in Seq(Batches)
    BY DEF TInv, EngineType
<1>2. KeysOfLog(<<>>) = {} /\ KeysOfBatch({}) = {}
    BY DEF KeysOfLog, KeysOfBatch
<1>3. \A K : K = {} => \A s : KnownTo(s, K)
    BY DEF KnownTo
<1>4. ASSUME Crash  PROVE Known'
    <2>1. PICK n \in synced .. Len(log) : log' = SubSeq(log, 1, n)
        BY <1>4 DEF Crash
    <2>2. KeysOfLog(log') \subseteq KeysOfLog(log)
        <3>1. n \in Nat /\ n <= Len(log) /\ Len(log) \in Nat
            BY <1>1, <2>1, LogTypes
        <3>2. \A i \in DOMAIN log' : i \in DOMAIN log /\ log'[i] = log[i]
            BY <1>1, <2>1, <3>1
        <3> QED  BY <3>2 DEF KeysOfLog
    <2>3. /\ MayCrash /\ pc' = "down" /\ UNCHANGED <<base, schema, saved, job>>
        BY <1>4 DEF Crash
    <2>4. ~InPut
        BY <2>3 DEF MayCrash, SchemaFirst, Known, InPut
    <2> QED  BY <2>2, <2>3, <2>4 DEF Known, KnownTo, InPut
<1>5. ASSUME Open  PROVE Known'
    <2>1. /\ pc = "down" /\ pc' = "recover" /\ schema' = saved /\ UNCHANGED <<base, log, saved, pending>>
        BY <1>5 DEF Open, engine
    <2>2. job'.op = "none" /\ job'.todo = <<>>
        BY <1>5 DEF Open, NoJob
    <2>3. pending = {}
        BY <2>1 DEF Control, WorkLeft
    <2>4. ~InPut
        BY <2>1 DEF InPut
    <2> QED  BY <1>2, <1>3, <2>1, <2>2, <2>3, <2>4 DEF Known, InPut
<1>6. ASSUME Recovered  PROVE Known'
    <2>1. job'.op = "none" /\ job'.todo = <<>>
        BY <1>6 DEF Recovered, NoJob
    <2> QED  BY <1>2, <1>3, <1>6, <2>1 DEF Recovered, engine, Known, InPut
<1> QED  BY <1>4, <1>5, <1>6

\* Every step keeps keys known.
LEMMA NextKnown == SchemaFirst /\ TInv /\ Control /\ Known /\ [Next]_vars => Known'
<1> SUFFICES ASSUME SchemaFirst, TInv, Control, Known, [Next]_vars  PROVE Known'
    OBVIOUS
<1>1. CASE UNCHANGED vars
    BY <1>1 DEF vars, engine, Known, InPut
<1>2. ASSUME Next  PROVE Known'
    BY <1>2, StartKnown, WorkKnown, TransactionKnown, RestartKnown DEF Next, WriteFails
<1> QED  BY <1>1, <1>2

\* Whatever a crash leaves, every stored field has a name in SCHEMA: an id is
\* on disk before a record that uses it, unless a put is cut short.
THEOREM IdsKnown == SchemaFirst => (Spec => []StoredIdsKnown)
<1>1. TInv /\ Known /\ SchemaFirst => StoredIdsKnown
    <2> SUFFICES ASSUME TInv, Known, SchemaFirst, MayCrash,
                        NEW i \in synced .. Len(log), NEW e \in Ids
                 PROVE  StoredFields(Replayed(base, SubSeq(log, 1, i)), e) \subseteq FieldIds(saved, Names)
        BY DEF StoredIdsKnown, AfterCrash, Survivors
    <2> DEFINE l == SubSeq(log, 1, i)
    <2>1. /\ l \in Seq(Batches) /\ base \in Maps /\ saved \in Schemas /\ log \in Seq(Batches)
          /\ i \in Nat /\ i <= Len(log) /\ Len(log) \in Nat
        BY LogTypes DEF TInv, EngineType, SchemaType
    <2>2. \A j \in DOMAIN l : j \in DOMAIN log /\ l[j] = log[j]
        BY <2>1
    <2> HIDE DEF l
    <2>3. KeysOfLog(l) \subseteq KeysOfLog(log)
        BY <2>2 DEF KeysOfLog
    <2>4. ~InPut
        BY DEF MayCrash, SchemaFirst, Known, InPut
    <2>5. KnownTo(saved, DOMAIN base) /\ KnownTo(saved, KeysOfLog(log))
        BY <2>4 DEF Known
    <2>6. KnownTo(saved, DOMAIN Replayed(base, l))
        BY <2>1, <2>3, <2>5, ReplayDomain DEF KnownTo
    <2>7. Replayed(base, l) \in Maps
        BY <2>1, ReplayType
    <2> QED  BY <2>1, <2>6, <2>7, StoredKnown DEF l
<1>2. SchemaFirst => (Spec => [](TInv /\ Control /\ Known))
    <2>1. Init => TInv /\ Control /\ Known
        BY InitTypes, InitControl, InitKnown
    <2>2. SchemaFirst /\ TInv /\ Control /\ Known /\ [Next]_vars => (TInv /\ Control /\ Known)'
        BY NextTypes, NextControl, NextKnown
    <2> SUFFICES ASSUME SchemaFirst  PROVE Spec => [](TInv /\ Control /\ Known)
        OBVIOUS
    <2>3. TInv /\ Control /\ Known /\ [Next]_vars => (TInv /\ Control /\ Known)'
        BY <2>2
    <2> QED  BY <2>1, <2>3, PTL DEF Spec
<1>3. SUFFICES ASSUME SchemaFirst  PROVE Spec => []StoredIdsKnown
    OBVIOUS
<1>4. TInv /\ Control /\ Known => StoredIdsKnown
    BY <1>1, <1>3
<1>5. Spec => [](TInv /\ Control /\ Known)
    BY <1>2, <1>3
<1> QED  BY <1>4, <1>5, PTL

-----------------------------------------------------------------------------
(* What the steps of a call do to the map.                                 *)

\* The map once the writes left are made.
Final == Replayed(View, job.todo)

\* Applying nothing, and applying a batch twice.
LEMMA ApplyTwice ==
    ASSUME NEW m, IsMap(m)
    PROVE  /\ Apply(m, {}) = m
           /\ \A b \in Batches : Apply(Apply(m, b), b) = Apply(m, b)
<1>1. Apply(m, {}) = m
    <2>1. Distinct({}) /\ KeysOfBatch({}) = {}
        BY DEF Distinct, KeysOfBatch
    <2> QED  BY <2>1, ApplyValues, SameValues
<1>2. ASSUME NEW b \in Batches  PROVE Apply(Apply(m, b), b) = Apply(m, b)
    <2>1. Distinct(b)
        BY DEF Batches
    <2>2. IsMap(Apply(m, b)) /\ IsMap(Apply(Apply(m, b), b))
        BY <2>1, ApplyValues
    <2>3. ASSUME NEW k  PROVE Val(Apply(Apply(m, b), b), k) = Val(Apply(m, b), k)
        <3>1. CASE k \in KeysOfBatch(b)
            <4>1. PICK w \in b : w.key = k
                BY <3>1 DEF KeysOfBatch
            <4> QED  BY <2>1, <2>2, <4>1, ApplyValues
        <3>2. CASE k \notin KeysOfBatch(b)
            BY <2>1, <2>2, <3>2, ApplyValues
        <3> QED  BY <3>1, <3>2
    <2> QED  BY <2>2, <2>3, SameValues
<1> QED  BY <1>1, <1>2

\* Between calls nothing is to come; outside transactions nothing is pending.
LEMMA Settled ==
    ASSUME TInv, Control
    PROVE  /\ Kv \in Maps /\ View \in Maps /\ Final \in Maps
           /\ pending = {} => View = Kv
           /\ job.todo = <<>> => Final = View
           /\ pc \in {"idle", "recover"} => Final = Kv /\ View = Kv /\ pending = {}
           /\ pc = "tx" => Final = View /\ job.todo = <<>>
<1>1. Kv \in Maps /\ View \in Maps /\ job.todo \in Seq(Batches)
    BY ViewType DEF TInv, StateType, JobType, Jobs
<1>2. IsMap(Kv) /\ IsMap(View)
    BY <1>1, MapsAreMaps
<1>3. pending = {} => View = Kv
    BY <1>2, ApplyTwice DEF View
<1>4. job.todo = <<>> => Final = View
    BY <1>2, EmptyLog DEF Final
<1>5. Final \in Maps
    BY <1>1, ReplayType DEF Final
<1>6. pc \in {"idle", "recover"} => pending = {} /\ job.todo = <<>>
    BY DEF Control, WorkLeft, Busy
<1>7. pc = "tx" => job.todo = <<>>
    BY DEF Control, WorkLeft, Busy
<1> QED  BY <1>1, <1>3, <1>4, <1>5, <1>6, <1>7

\* The steps that only move what is there: nothing that is read changes.
LEMMA MovesKeepMap ==
    ASSUME TInv, Control, TInv', Control'
    PROVE  /\ SaveTables \/ Truncate \/ Persist => Kv' = Kv /\ View' = View /\ Final' = Final
           /\ UNCHANGED <<base, log>> => Kv' = Kv
           /\ UNCHANGED <<base, log, pending>> => View' = View
           /\ UNCHANGED <<base, log, pending, job>> => Final' = Final
<1>1. UNCHANGED <<base, log>> => Kv' = Kv
    BY DEF Kv
<1>2. UNCHANGED <<base, log, pending>> => View' = View
    BY <1>1 DEF View
<1>3. UNCHANGED <<base, log, pending, job>> => Final' = Final
    BY <1>2 DEF Final
<1>4. ASSUME SaveTables  PROVE Kv' = Kv
    <2>1. IsMap(base) /\ log \in Seq(Batches)
        BY MapsAreMaps DEF TInv, EngineType
    <2> QED  BY <1>4, <2>1, ReplayAgain DEF SaveTables, Kv
<1>5. ASSUME Truncate  PROVE Kv' = Kv
    <2>1. base = Kv /\ base' = base /\ log' = <<>>
        BY <1>5 DEF Truncate, Control, Commits
    <2>2. IsMap(base)
        BY MapsAreMaps DEF TInv, EngineType
    <2> QED  BY <2>1, <2>2, EmptyLog DEF Kv
<1>6. SaveTables \/ Truncate => UNCHANGED <<pending, job>>
    BY DEF SaveTables, Truncate
<1>7. Persist => UNCHANGED <<base, log, pending, job>>
    BY DEF Persist, engine
<1>8. Kv' = Kv /\ UNCHANGED <<pending, job>> => View' = View /\ Final' = Final
    BY DEF View, Final
<1> QED  BY <1>1, <1>2, <1>3, <1>4, <1>5, <1>6, <1>7, <1>8

\* The next write goes into the map and out of what is to come.
LEMMA WriteKeepsFinal ==
    ASSUME TInv, Control, WriteOne
    PROVE  \E i \in DOMAIN job.todo : \E w \in job.todo[i] :
             /\ Current(job.todo, i)
             /\ job' = [job EXCEPT !.todo = Without(job.todo, i, w)]
             /\ job'.todo = Without(job.todo, i, w)
             /\ job'.op = job.op /\ job'.ent = job.ent /\ job'.ids = job.ids /\ job'.ix = job.ix
             /\ w \in Writes /\ {w} \in Batches /\ w.key \in KeysOfLog(job.todo)
             /\ KeysOfLog(job'.todo) \subseteq KeysOfLog(job.todo)
             /\ log' = Append(log, {w})
             /\ Kv' = Apply(Kv, {w}) /\ View' = Kv' /\ View = Kv
             /\ Final' = Final
<1>1. PICK i \in DOMAIN job.todo :
        /\ Current(job.todo, i)
        /\ \E w \in job.todo[i] : /\ log' = Append(log, {w})
                                  /\ job' = [job EXCEPT !.todo = Without(job.todo, i, w)]
    BY DEF WriteOne
<1>2. PICK w \in job.todo[i] : /\ log' = Append(log, {w})
                               /\ job' = [job EXCEPT !.todo = Without(job.todo, i, w)]
    BY <1>1
<1>3. /\ job \in Jobs /\ job.todo \in Seq(Batches) /\ log \in Seq(Batches)
      /\ base \in Maps /\ IsMap(base) /\ Kv \in Maps /\ IsMap(Kv)
    BY ViewType, MapsAreMaps DEF TInv, JobType, Jobs, EngineType
<1>4. /\ {w} \in Batches /\ w.key \in KeysOfLog(job.todo)
      /\ KeysOfLog(Without(job.todo, i, w)) \subseteq KeysOfLog(job.todo)
      /\ Replayed(Apply(Kv, {w}), Without(job.todo, i, w)) = Replayed(Kv, job.todo)
    BY <1>1, <1>3, NextWrite
<1>5. /\ job'.todo = Without(job.todo, i, w)
      /\ job'.op = job.op /\ job'.ent = job.ent /\ job'.ids = job.ids /\ job'.ix = job.ix
    BY <1>2, <1>3 DEF Jobs
<1>6. pc = "write" /\ UNCHANGED <<base, pending>>
    BY DEF WriteOne
<1>7. pending = {}
    BY <1>6 DEF Control, WorkLeft
<1>8. Replayed(base, Append(log, {w})) = Apply(Replayed(base, log), {w})
    BY <1>3, <1>4, ReplayAppend
<1>9. Kv' = Apply(Kv, {w})
    BY <1>2, <1>6, <1>8 DEF Kv
<1>10. IsMap(Kv')
    BY <1>3, <1>4, <1>9, ApplyType, MapsAreMaps
<1>11. View = Kv /\ View' = Kv'
    BY <1>3, <1>6, <1>7, <1>10, ApplyTwice DEF View
<1>12. Final' = Final
    BY <1>4, <1>5, <1>9, <1>11 DEF Final
<1>13. w \in Writes
    BY <1>3 DEF Batches
<1> QED  BY <1>1, <1>2, <1>4, <1>5, <1>9, <1>11, <1>12, <1>13

\* Once nothing is left, the call ends with the map it was to make.
LEMMA FinishKeepsFinal ==
    ASSUME TInv, Control, NEW next, NEW after, Finish(next, after), UNCHANGED <<base, log, pending>>
    PROVE  /\ Kv' = Kv /\ View' = Kv /\ Final = Kv /\ Final' = Kv
           /\ job'.todo = <<>> /\ job'.op = job.op /\ job'.ent = job.ent /\ job'.ix = job.ix
           /\ pc = "write" /\ pc' = next /\ pending = {}
<1>1. job \in Jobs /\ job.todo \in Seq(Batches) /\ Kv \in Maps /\ IsMap(Kv)
    BY ViewType, MapsAreMaps DEF TInv, JobType, Jobs
<1>2. /\ job'.todo = <<>> /\ job'.op = job.op /\ job'.ent = job.ent /\ job'.ix = job.ix
      /\ pc = "write" /\ pc' = next /\ NoneLeft(job.todo)
    BY <1>1 DEF Finish, Jobs
<1>3. pending = {}
    BY <1>2 DEF Control, WorkLeft
<1>4. View = Kv /\ Kv' = Kv /\ View' = Kv
    BY <1>1, <1>3, ApplyTwice DEF View, Kv
<1>5. Final = Kv
    BY <1>1, <1>2, <1>4, ReplayNothing DEF Final
<1>6. Final' = Kv
    BY <1>1, <1>2, <1>4, EmptyLog DEF Final
<1> QED  BY <1>2, <1>3, <1>4, <1>5, <1>6

\* What a transaction sees after more writes.
LEMMA PendedKeepsFinal ==
    ASSUME TInv, NEW l \in Seq(Batches), pending' = Pended(l), UNCHANGED <<base, log, job>>,
           job.todo = <<>>
    PROVE  View' = Replayed(View, l) /\ Final' = Replayed(View, l) /\ Kv' = Kv
<1>1. Kv \in Maps /\ View \in Maps /\ IsMap(Kv) /\ pending \in Batches
    BY ViewType, MapsAreMaps DEF TInv, StateType
<1>2. Kv' = Kv
    BY DEF Kv
<1>3. View' = Replayed(View, l)
    BY <1>1, <1>2, PendedWrites DEF View, Pended
<1>4. IsMap(View')
    BY <1>1, <1>3, ReplayType, MapsAreMaps
<1> QED  BY <1>2, <1>3, <1>4, EmptyLog DEF Final

\* The block of a commit.
LEMMA BlockKeepsView ==
    ASSUME TInv, Control, LogBlock
    PROVE  Kv' = View /\ View' = View /\ Final' = Final /\ Final = View
<1>1. /\ Kv \in Maps /\ IsMap(Kv) /\ pending \in Batches /\ log \in Seq(Batches)
      /\ base \in Maps /\ IsMap(base) /\ View \in Maps /\ IsMap(View)
    BY ViewType, MapsAreMaps DEF TInv, StateType, EngineType
<1>2. pc = "block" /\ log' = Append(log, pending) /\ UNCHANGED <<base, pending, job>>
    BY DEF LogBlock
<1>3. job.todo = <<>>
    BY <1>2 DEF Control, WorkLeft, Busy
<1>4. Replayed(base, Append(log, pending)) = Apply(Replayed(base, log), pending)
    BY <1>1, ReplayAppend
<1>5. Kv' = View
    BY <1>2, <1>4 DEF Kv, View
<1>6. View' = View
    BY <1>1, <1>2, <1>5, ApplyTwice DEF View
<1>7. Final = View /\ Final' = View'
    BY <1>1, <1>2, <1>3, <1>6, EmptyLog DEF Final
<1> QED  BY <1>5, <1>6, <1>7

-----------------------------------------------------------------------------
(* Whose writes a call has left.                                           *)

\* A put or cas_update has writes of its entity; other calls delete, or write
\* index entries.
Own ==
    /\ job.op \in {"put", "cas"} =>
        /\ \E e \in Ids : job.ent = {e}
        /\ \A k \in KeysOfLog(job.todo) : k.ent \in job.ent
    /\ job.op \notin {"put", "cas"} =>
        \A i \in DOMAIN job.todo : \A w \in job.todo[i] : w.val = None \/ w.key \in IndexKeys

\* An empty store has no writes to make.
LEMMA InitOwn == Init => Own
BY DEF Init, NoJob, Own

\* The start of a call.
LEMMA StartOwn ==
    ASSUME TInv
    PROVE  /\ \A e \in Ids, x \in Inputs : PutEntity(e, x) => Own'
           /\ \A e \in Ids, u \in Updates : CasUpdate(e, u) => Own'
           /\ \A e \in Ids : DeleteEntity(e) => Own'
           /\ \A ix \in Indexes : CreateIndex(ix) \/ RecoverIndex(ix) \/ DropIndex(ix) => Own'
           /\ \A ix \in Indexes : NarrowCreateIndex(ix) \/ NarrowDropIndex(ix) => Own'
           /\ Flush \/ Close \/ Begin \/ StartCommit => Own'
<1>1. SchemaType /\ Kv \in Maps
    BY ViewType DEF TInv
<1>2. ASSUME NEW e \in Ids, NEW x \in Input, schema' = Allot(schema, NamesOf(x)),
             job'.op \in {"put", "cas"}, job'.ent = {e},
             job'.todo = PutWrites(Kv, schema', hint[e], e, x)
      PROVE  Own'
    <2>1. NamesOf(x) \in Seq(Names)
        BY InputFacts
    <2>2. schema' \in Schemas /\ AllNumbered(schema') /\ Numbered(schema', NamesOf(x))
        BY <1>1, <1>2, <2>1, NewSchema
    <2>3. \A j \in DOMAIN job'.todo : \A k \in KeysOfBatch(job'.todo[j]) : k.ent = e
        BY <1>1, <1>2, <2>2, PutKeys
    <2> QED  BY <1>2, <2>3 DEF Own, KeysOfLog
<1>3. ASSUME NEW e \in Ids, NEW x \in Inputs, PutEntity(e, x)  PROVE Own'
    <2>1. job'.op = "put" /\ job'.ent = {e} /\ job'.todo = PutWrites(Kv, schema', hint[e], e, x)
        BY <1>3 DEF PutEntity, NoJob
    <2> QED  BY <1>2, <1>3, <2>1, InputNames DEF PutEntity
<1>4. ASSUME NEW e \in Ids, NEW u \in Updates, CasUpdate(e, u)  PROVE Own'
    <2> DEFINE p == AsInput(Patched(Kv, schema, e, u))
    <2>1. p \in Input
        BY <1>1, PatchedType, InputNames DEF SchemaType
    <2>2. schema' = Allot(schema, NamesOf(p))
        BY <1>4 DEF CasUpdate
    <2>3. job'.op = "cas" /\ job'.ent = {e} /\ job'.todo = PutWrites(Kv, schema', hint[e], e, p)
        BY <1>4 DEF CasUpdate, NoJob
    <2> HIDE DEF p
    <2> QED  BY <1>2, <2>1, <2>2, <2>3
<1>5. ASSUME NEW e \in Ids, DeleteEntity(e)  PROVE Own'
    <2>1. job'.op = "delete" /\ job'.todo = DeleteWrites(Kv, schema, e)
        BY <1>5 DEF DeleteEntity, NoJob
    <2>2. DeletePhases(job'.todo, Kv, schema, e)
        BY <1>1, <2>1, DeleteWritesFacts DEF SchemaType
    <2>3. \A i \in DOMAIN job'.todo : \A w \in job'.todo[i] : w.val = None
        BY <2>2, PutsAndDeletes DEF DeletePhases
    <2> QED  BY <2>1, <2>3 DEF Own
<1>6. ASSUME NEW ix \in Indexes, CreateIndex(ix) \/ RecoverIndex(ix)  PROVE Own'
    <2>1. PICK to : StartCreate(ix, to)
        BY <1>6 DEF CreateIndex, RecoverIndex
    <2>2. schema' = Registered(schema, ix) /\ job'.op = "create" /\ job'.todo = RebuildWrites(Kv, schema', ix)
        BY <2>1 DEF StartCreate, NoJob
    <2>3. schema' \in Schemas /\ Numbered(schema', ix)
        BY <1>1, <2>2, RegisteredType
    <2>4. KeysOfLog(job'.todo) \subseteq IndexKeys
        BY <1>1, <2>2, <2>3, IndexPhases
    <2> QED  BY <2>2, <2>4 DEF Own, KeysOfLog, KeysOfBatch
<1>7. ASSUME NEW ix \in Indexes, DropIndex(ix)  PROVE Own'
    <2>1. job'.op = "drop" /\ job'.todo = <<Deletes(EntriesOf(Kv, schema, ix))>>
        BY <1>7 DEF DropIndex, NoJob
    <2>2. KeysOfLog(job'.todo) \subseteq IndexKeys
        BY <1>1, <2>1, IndexPhases DEF SchemaType
    <2> QED  BY <2>1, <2>2 DEF Own, KeysOfLog, KeysOfBatch
<1>8. ASSUME Flush \/ Close \/ Begin \/ StartCommit  PROVE Own'
    <2>1. job'.op \in {"none", "flush", "close", "commit"} /\ job'.todo = <<>>
        BY <1>8, IdleJobs
    <2> QED  BY <2>1 DEF Own
<1>9. ASSUME NEW ix \in Indexes, NarrowCreateIndex(ix) \/ NarrowDropIndex(ix)  PROVE Own'
    <2>1. job'.op \in {"narrow_create", "narrow_drop"} /\ KeysOfLog(job'.todo) \subseteq IndexKeys
        BY <1>9, NarrowStarts DEF IsNarrow
    <2> QED  BY <2>1 DEF Own, KeysOfLog, KeysOfBatch
<1> QED  BY <1>3, <1>4, <1>5, <1>6, <1>7, <1>8, <1>9

\* Every step.
LEMMA NextOwn == TInv /\ Control /\ Own /\ [Next]_vars => Own'
<1> SUFFICES ASSUME TInv, Control, Own, [Next]_vars  PROVE Own'
    OBVIOUS
<1>1. UNCHANGED job => Own'
    BY DEF Own
<1>2. ASSUME WriteOne  PROVE Own'
    <2>1. PICK i \in DOMAIN job.todo : \E w \in job.todo[i] :
             /\ job'.todo = Without(job.todo, i, w)
             /\ job'.op = job.op /\ job'.ent = job.ent
             /\ KeysOfLog(job'.todo) \subseteq KeysOfLog(job.todo)
        BY <1>2, WriteKeepsFinal
    <2>2. DOMAIN job'.todo = DOMAIN job.todo /\ \A j \in DOMAIN job.todo : job'.todo[j] \subseteq job.todo[j]
        BY <2>1 DEF Without
    <2> QED  BY <2>1, <2>2 DEF Own
<1>3. ASSUME NEW next, NEW after, Finish(next, after)  PROVE Own'
    <2>1. job'.todo = <<>> /\ job'.op = job.op /\ job'.ent = job.ent
        BY <1>3 DEF TInv, JobType, Jobs, Finish
    <2>2. KeysOfLog(<<>>) = {}
        BY DEF KeysOfLog
    <2> QED  BY <2>1, <2>2 DEF Own
<1>4. ASSUME job' = NoJob  PROVE Own'
    BY <1>4 DEF NoJob, Own
<1>5. ASSUME Next  PROVE Own'
    <2>1. \A step : CallFails(step) => Own'
        BY <1>4 DEF CallFails
    <2>2. PutDone \/ DeleteDone \/ IndexDone => Own'
        BY <1>3 DEF PutDone, DeleteDone, IndexDone
    <2>3. CommitFails \/ Open \/ Recovered => Own'
        BY <1>4 DEF CommitFails, Open, Recovered
    <2>4. SaveTables \/ Truncate \/ Persist \/ Abort \/ LogBlock \/ Sync \/ Crash => Own'
        BY <1>1 DEF SaveTables, Truncate, Persist, Abort, LogBlock, Sync, Crash
    <2>5. /\ \A e \in Ids, x \in Inputs : TxUpdate(e, x) => Own'
          /\ \A e \in Ids, u \in Updates : TxCasUpdate(e, u) => Own'
          /\ \A e \in Ids : TxDelete(e) => Own'
        BY <1>1 DEF TxUpdate, TxCasUpdate, TxDelete
    <2> QED  BY <1>2, <1>5, <2>1, <2>2, <2>3, <2>4, <2>5, StartOwn DEF Next, WriteFails
<1> QED  BY <1>1, <1>5 DEF vars

-----------------------------------------------------------------------------
(* Entities read as they were last written.                                *)

\* A put or cas_update is writing.
InWrite == pc \in {"write", "save", "truncate"} /\ job.op \in {"put", "cas"}

\* What will have been written is what should be read.
Reads ==
    pc # "down" => /\ Read(Final, schema) = want
                   /\ pc = "sync" => View = Kv

\* A hint leaves out no field that is stored: but for the entity that is being
\* put, whose hint is replaced at the end, and for those of a commit that is
\* not over, whose hints are dropped.
Hints ==
    pc # "down" =>
        /\ \A e \in Ids : \/ hint[e] = {} \/ StoredFields(Kv, e) \subseteq UNION hint[e]
                          \/ pc = "sync" /\ e \in Touched
                          \/ InWrite /\ e \in job.ent
        /\ InWrite => \A e \in job.ent : StoredFields(Final, e) \subseteq job.ids

\* What is read depends on the ids of names only.
LEMMA ReadIds ==
    ASSUME NEW m, NEW s, NEW t, s.idOf = t.idOf
    PROVE  Read(m, s) = Read(m, t)
BY DEF Read, ReadEntity

\* Only the write of a value adds a field.
LEMMA StoredApply ==
    ASSUME NEW m \in Maps, NEW b \in Batches, NEW e \in Ids,
           \A w \in b : w.key \in FieldKeys /\ w.key.ent = e => w.val = None
    PROVE  StoredFields(Apply(m, b), e) \subseteq StoredFields(m, e)
<1> DEFINE r == Apply(m, b)
<1>1. r \in Maps /\ IsMap(m) /\ Distinct(b)
    BY ApplyType, MapsAreMaps DEF Batches
<1> SUFFICES ASSUME NEW f \in StoredFields(r, e)  PROVE f \in StoredFields(m, e)
    OBVIOUS
<1>2. f \in Nat /\ FieldKey(e, f) \in DOMAIN r
    BY <1>1, StoredFacts
<1>3. Val(r, FieldKey(e, f)) # None
    BY <1>1, <1>2, MapFacts
<1>4. FieldKey(e, f) \in FieldKeys /\ FieldKey(e, f).ent = e
    BY <1>2, KeyFacts DEF FieldKey
<1>5. FieldKey(e, f) \notin KeysOfBatch(b)
    <2> SUFFICES ASSUME NEW w \in b, w.key = FieldKey(e, f)  PROVE FALSE
        BY DEF KeysOfBatch
    <2>1. w.val = None
        BY <1>4
    <2>2. Val(r, w.key) = w.val
        BY <1>1, ApplyValues
    <2> QED  BY <1>3, <2>1, <2>2
<1>6. Val(m, FieldKey(e, f)) # None
    BY <1>1, <1>3, <1>5, ApplyValues
<1>7. FieldKey(e, f) \in DOMAIN m
    BY <1>6 DEF Val
<1> QED  BY <1>7, StoredFacts

\* The put of x over the entity e of the map m, in the schema s.
PutRight(m, s, h, e, x) ==
    /\ Read(Replayed(m, PutWrites(m, s, h, e, x)), s) = [Read(m, schema) EXCEPT ![e] = AsEntity(x)]
    /\ StoredFields(Replayed(m, PutWrites(m, s, h, e, x)), e) \subseteq FieldIds(s, ToSet(NamesOf(x)))
    /\ PutWrites(m, s, h, e, x) \in Seq(Batches)

\* A put, of the store on its map or of a transaction on what it sees.
LEMMA PutReads ==
    ASSUME TInv, NEW m \in Maps, KnownTo(schema, DOMAIN m),
           NEW h, NEW e \in Ids, h = {} \/ StoredFields(m, e) \subseteq UNION h,
           NEW x \in Input, NEW s, s = Allot(schema, NamesOf(x))
    PROVE  PutRight(m, s, h, e, x)
<1> DEFINE l == PutWrites(m, s, h, e, x)
           r == Replayed(m, l)
<1>1. SchemaType
    BY DEF TInv
<1>2. NamesOf(x) \in Seq(Names)
    BY InputFacts
<1>3. /\ s \in Schemas /\ AllNumbered(s) /\ GoodIds(s)
      /\ Extends(s, schema) /\ Numbered(s, NamesOf(x))
      /\ \A n \in Names : schema.idOf[n] = None /\ s.idOf[n] # None => s.idOf[n] >= schema.next
    BY <1>1, <1>2, NewSchema
<1>4. schema \in Schemas /\ GoodIds(schema)
    BY <1>1 DEF SchemaType
<1>5. Read(m, s) = Read(m, schema)
    BY <1>3, <1>4, ReadExtends
<1>6. l \in Seq(Batches)
    BY <1>3, PutWritesFacts, PutTypes DEF PutPhases
<1>7. /\ r \in Maps
      /\ ReadEntity(r, s, e) = AsEntity(x)
      /\ StoredFields(r, e) \subseteq FieldIds(s, ToSet(NamesOf(x)))
      /\ \A d \in Ids \ {e} : SameFields(r, m, d)
    BY <1>3, PutRead
<1> HIDE DEF l, r
<1>8. Read(r, s) = [Read(m, s) EXCEPT ![e] = ReadEntity(r, s, e)]
    BY <1>3, <1>7, OthersRead
<1> QED  BY <1>5, <1>6, <1>7, <1>8 DEF PutRight, l, r

\* A deletion.
LEMMA DeleteReads ==
    ASSUME TInv, NEW m \in Maps, Read(m, schema) = want, NEW e \in Ids,
           want' = [want EXCEPT ![e] = NoEntity]
    PROVE  /\ Read(Replayed(m, DeleteWrites(m, schema, e)), schema) = want'
           /\ DeleteWrites(m, schema, e) \in Seq(Batches)
<1>1. schema \in Schemas /\ AllNumbered(schema)
    BY DEF TInv, SchemaType
<1> DEFINE l == DeleteWrites(m, schema, e)
           r == Replayed(m, l)
<1>2. l \in Seq(Batches)
    BY <1>1, DeleteWritesFacts DEF DeletePhases
<1>3. r \in Maps /\ ReadEntity(r, schema, e) = NoEntity /\ \A d \in Ids \ {e} : SameFields(r, m, d)
    BY <1>1, DeleteRead
<1> HIDE DEF l, r
<1>4. Read(r, schema) = [Read(m, schema) EXCEPT ![e] = ReadEntity(r, schema, e)]
    BY <1>1, <1>3, OthersRead
<1> QED  BY <1>2, <1>3, <1>4 DEF l, r

\* Calls that start with writes to come: they see the map as it is.
LEMMA StartingFinal ==
    ASSUME TInv, Control, pc \in {"idle", "recover"}, UNCHANGED <<base, log, pending>>
    PROVE  Kv' = Kv /\ View' = Kv /\ Final' = Replayed(Kv, job'.todo)
BY Settled DEF Kv, View, Final

\* What is read and what the hints say: everything the proofs below need.
Truthful == Known /\ Own /\ Reads /\ Hints

\* The start of a call.
LEMMA StartReads ==
    ASSUME TInv, Control, Truthful
    PROVE  /\ \A e \in Ids, x \in Inputs : PutEntity(e, x) => (Reads /\ Hints)'
           /\ \A e \in Ids, u \in Updates : CasUpdate(e, u) => (Reads /\ Hints)'
           /\ \A e \in Ids : DeleteEntity(e) => (Reads /\ Hints)'
           /\ \A ix \in Indexes : CreateIndex(ix) \/ RecoverIndex(ix) \/ DropIndex(ix) => (Reads /\ Hints)'
           /\ \A ix \in Indexes : NarrowCreateIndex(ix) \/ NarrowDropIndex(ix) => (Reads /\ Hints)'
           /\ Flush \/ Close \/ Begin \/ StartCommit => (Reads /\ Hints)'
<1>1. /\ EngineType /\ SchemaType /\ JobType /\ Kv \in Maps /\ View \in Maps
      /\ schema \in Schemas
    BY Settled DEF TInv, SchemaType
<1>2. Known /\ Reads /\ Hints
    BY DEF Truthful
<1>3. ASSUME pc = "idle"  PROVE Read(Kv, schema) = want /\ KnownTo(schema, DOMAIN Kv)
    <2>1. Read(Kv, schema) = want
        BY <1>2, <1>3, Settled DEF Reads
    <2> QED  BY <1>1, <1>2, <1>3, <2>1, KvKnown DEF Known
<1>4. ASSUME pc \in {"idle", "recover"}
      PROVE  \A e \in Ids : hint[e] = {} \/ StoredFields(Kv, e) \subseteq UNION hint[e]
    BY <1>2, <1>4 DEF Hints, InWrite
<1>5. ASSUME NEW e \in Ids, NEW x \in Input, schema' = Allot(schema, NamesOf(x)),
             job'.todo = PutWrites(Kv, schema', hint[e], e, x), job'.ent = {e},
             job'.ids = FieldIds(schema', ToSet(NamesOf(x))), job'.op \in {"put", "cas"},
             want' = [want EXCEPT ![e] = AsEntity(x)],
             pc = "idle", pc' = "write", UNCHANGED <<base, log, pending, hint>>
      PROVE  (Reads /\ Hints)'
    <2> DEFINE h == hint[e]
               l == PutWrites(Kv, schema', h, e, x)
    <2>1. h = {} \/ StoredFields(Kv, e) \subseteq UNION h
        BY <1>4, <1>5
    <2> HIDE DEF h
    <2>2. /\ Read(Replayed(Kv, l), schema') = want'
          /\ StoredFields(Replayed(Kv, l), e) \subseteq FieldIds(schema', ToSet(NamesOf(x)))
        <3>1. Kv \in Maps /\ KnownTo(schema, DOMAIN Kv) /\ Read(Kv, schema) = want
            BY <1>1, <1>3, <1>5
        <3>2. schema' = Allot(schema, NamesOf(x)) /\ want' = [want EXCEPT ![e] = AsEntity(x)]
            BY <1>5
        <3>3. PutRight(Kv, schema', h, e, x)
            BY <2>1, <3>1, <3>2, PutReads
        <3> QED  BY <3>1, <3>2, <3>3 DEF PutRight
    <2>3. Kv' = Kv /\ Final' = Replayed(Kv, job'.todo)
        BY <1>5, StartingFinal
    <2>4. job'.todo = l
        BY <1>5 DEF h
    <2> HIDE DEF l
    <2>5. Reads'
        BY <1>5, <2>2, <2>3, <2>4 DEF Reads
    <2>6. Hints'
        BY <1>4, <1>5, <2>2, <2>3, <2>4 DEF Hints, InWrite
    <2> QED  BY <2>5, <2>6
<1>6. ASSUME NEW e \in Ids, NEW x \in Inputs, PutEntity(e, x)  PROVE (Reads /\ Hints)'
    <2>1. /\ job'.op = "put" /\ job'.ent = {e} /\ job'.ids = FieldIds(schema', ToSet(NamesOf(x)))
          /\ job'.todo = PutWrites(Kv, schema', hint[e], e, x)
        BY <1>6 DEF PutEntity, NoJob
    <2>2. /\ pc = "idle" /\ pc' = "write" /\ UNCHANGED <<base, log, pending, hint>>
          /\ schema' = Allot(schema, NamesOf(x)) /\ want' = [want EXCEPT ![e] = AsEntity(x)]
        BY <1>6 DEF PutEntity, Called, engine
    <2>3. x \in Input
        BY InputNames
    <2> QED  BY <1>5, <2>1, <2>2, <2>3
<1>7. ASSUME NEW e \in Ids, NEW u \in Updates, CasUpdate(e, u)  PROVE (Reads /\ Hints)'
    <2> DEFINE q == Patched(Kv, schema, e, u)
               p == AsInput(q)
    <2>1. q \in Entity
        BY <1>1, PatchedType
    <2> HIDE DEF q
    <2>2. p \in Input /\ AsEntity(p) = q
        BY <2>1, InputNames
    <2>3. /\ job'.op = "cas" /\ job'.ent = {e} /\ job'.ids = FieldIds(schema', ToSet(NamesOf(p)))
          /\ job'.todo = PutWrites(Kv, schema', hint[e], e, p)
        BY <1>7 DEF CasUpdate, NoJob, q
    <2>4. /\ pc = "idle" /\ pc' = "write" /\ UNCHANGED <<base, log, pending, hint>>
          /\ schema' = Allot(schema, NamesOf(p)) /\ want' = [want EXCEPT ![e] = q]
        BY <1>7 DEF CasUpdate, Called, engine, q
    <2> HIDE DEF p
    <2> QED  BY <1>5, <2>2, <2>3, <2>4
<1>8. ASSUME pc \in {"idle", "recover"}, UNCHANGED <<base, log, pending, hint>>,
             job'.op \notin {"put", "cas"}, pc' \in {"write", "persist"}
      PROVE  Hints' /\ Kv' = Kv /\ Final' = Replayed(Kv, job'.todo)
    <2>1. Kv' = Kv /\ Final' = Replayed(Kv, job'.todo)
        BY <1>8, StartingFinal
    <2> QED  BY <1>4, <1>8, <2>1 DEF Hints, InWrite
<1>9. ASSUME NEW e \in Ids, DeleteEntity(e)  PROVE (Reads /\ Hints)'
    <2>1. job'.op = "delete" /\ job'.todo = DeleteWrites(Kv, schema, e)
        BY <1>9 DEF DeleteEntity, NoJob
    <2>2. /\ pc = "idle" /\ pc' = "write" /\ UNCHANGED <<base, log, pending, hint, schema>>
          /\ want' = [want EXCEPT ![e] = NoEntity]
        BY <1>9 DEF DeleteEntity, Called, engine
    <2>3. Hints' /\ Final' = Replayed(Kv, DeleteWrites(Kv, schema, e))
        BY <1>8, <2>1, <2>2
    <2>4. Read(Replayed(Kv, DeleteWrites(Kv, schema, e)), schema) = want'
        BY <1>1, <1>3, <2>2, DeleteReads
    <2> QED  BY <2>2, <2>3, <2>4 DEF Reads
<1>13. ASSUME NEW ix \in Indexes, pc \in {"idle", "recover"}, schema' = Registered(schema, ix)
      PROVE  /\ Read(Kv, schema) = want /\ Read(Kv, schema') = want /\ schema' \in Schemas
    <2> DEFINE s == Allot(schema, ix)
    <2>1. ix \in Seq(Names)
        BY NamesAssumption
    <2>2. /\ s \in Schemas /\ Extends(s, schema)
          /\ \A n \in Names : schema.idOf[n] = None /\ s.idOf[n] # None => s.idOf[n] >= schema.next
        BY <1>1, <2>1, NewSchema
    <2>3. Read(Kv, schema) = want
        BY <1>2, <1>13, Settled DEF Reads
    <2>4. GoodIds(schema) /\ KnownTo(schema, DOMAIN Kv)
        BY <1>1, <1>2, <1>13, KvKnown DEF SchemaType, Known
    <2>5. schema'.idOf = s.idOf /\ schema' \in Schemas
        <3> HIDE DEF s
        <3>1. schema' = IF s.status[ix] = "none" THEN WithStatus(s, ix, "building") ELSE s
            BY <1>13 DEF Registered, s
        <3>2. schema' \in Schemas
            BY <1>1, <1>13, RegisteredType
        <3> QED  BY <2>2, <3>1, <3>2 DEF WithStatus, Schemas
    <2> HIDE DEF s
    <2>6. Read(Kv, s) = Read(Kv, schema)
        BY <1>1, <2>2, <2>4, ReadExtends
    <2>7. Read(Kv, schema') = Read(Kv, s)
        BY <2>5, ReadIds
    <2> QED  BY <2>3, <2>5, <2>6, <2>7
<1>10. ASSUME NEW ix \in Indexes, CreateIndex(ix) \/ RecoverIndex(ix)  PROVE (Reads /\ Hints)'
    <2>1. PICK to : StartCreate(ix, to)
        BY <1>10 DEF CreateIndex, RecoverIndex
    <2>2. schema' = Registered(schema, ix) /\ pc' = "persist" /\ job'.op = "create"
          /\ job'.todo = RebuildWrites(Kv, schema', ix)
        BY <2>1 DEF StartCreate, NoJob
    <2>3. pc \in {"idle", "recover"} /\ UNCHANGED <<base, log, pending, hint, want>>
        BY <1>10 DEF CreateIndex, RecoverIndex, Called, engine, history
    <2>4. Hints' /\ Final' = Replayed(Kv, job'.todo)
        BY <1>8, <2>2, <2>3
    <2>5. schema' \in Schemas /\ Numbered(schema', ix)
        BY <1>1, <2>2, RegisteredType
    <2>6. KeysOfLog(job'.todo) \subseteq IndexKeys /\ job'.todo \in Seq(Batches)
        <3>1. KeysOfLog(RebuildWrites(Kv, schema', ix)) \subseteq IndexKeys
            BY <1>1, <2>5, IndexPhases
        <3>2. RebuildWrites(Kv, schema', ix) \in Seq(Batches)
            BY <1>1, <2>5, RebuildWritesFacts
        <3> QED  BY <2>2, <3>1, <3>2
    <2>7. Read(Final', schema') = Read(Kv, schema')
        BY <1>1, <2>4, <2>5, <2>6, IndexOnlyRead
    <2>8. Read(Kv, schema') = want
        BY <1>13, <2>2, <2>3
    <2> QED  BY <2>2, <2>3, <2>4, <2>7, <2>8 DEF Reads
<1>11. ASSUME NEW ix \in Indexes, DropIndex(ix)  PROVE (Reads /\ Hints)'
    <2>1. job'.op = "drop" /\ job'.todo = <<Deletes(EntriesOf(Kv, schema, ix))>>
        BY <1>11 DEF DropIndex, NoJob
    <2>2. /\ pc = "idle" /\ pc' = "write" /\ UNCHANGED <<base, log, pending, hint, schema, want>>
        BY <1>11 DEF DropIndex, Called, engine, history
    <2>3. Hints' /\ Final' = Replayed(Kv, job'.todo)
        BY <1>8, <2>1, <2>2
    <2>4. KeysOfLog(job'.todo) \subseteq IndexKeys /\ job'.todo \in Seq(Batches)
        BY <1>1, <2>1, IndexPhases, RebuildWritesFacts
    <2>5. Read(Final', schema) = Read(Kv, schema)
        BY <1>1, <2>3, <2>4, IndexOnlyRead
    <2> QED  BY <1>3, <2>2, <2>3, <2>5 DEF Reads
<1>12. ASSUME Flush \/ Close \/ Begin \/ StartCommit  PROVE (Reads /\ Hints)'
    <2>1. /\ pc \in {"idle", "tx"} /\ UNCHANGED <<base, log, schema, pending, hint, want>>
          /\ pc' \notin {"sync"}
        BY <1>12 DEF Flush, Close, Begin, StartCommit, Called, engine, history
    <2>2. job'.op \in {"none", "flush", "close", "commit"} /\ job'.todo = <<>>
        BY <1>12, IdleJobs
    <2>3. job.todo = <<>>
        BY <2>1 DEF Control, WorkLeft, Busy
    <2>4. Kv' = Kv /\ View' = View
        BY <2>1 DEF Kv, View
    <2>5. Final' = Final
        BY <2>2, <2>3, <2>4 DEF Final
    <2> QED  BY <1>2, <2>1, <2>2, <2>4, <2>5 DEF Reads, Hints, InWrite
<1>14. ASSUME NEW ix \in Indexes, NarrowCreateIndex(ix) \/ NarrowDropIndex(ix)  PROVE (Reads /\ Hints)'
    <2>1. /\ pc = "idle" /\ pc' \in {"write", "persist"} /\ UNCHANGED <<base, log, pending, hint, want>>
          /\ job'.op \in {"narrow_create", "narrow_drop"} /\ job'.todo \in Seq(Batches)
          /\ schema' = schema \/ schema' = Registered(schema, ix)
        BY <1>14, NarrowStarts
    <2>2. KeysOfLog(job'.todo) \subseteq IndexKeys
        BY <1>14, NarrowStarts DEF IsNarrow
    <2>3. Hints' /\ Final' = Replayed(Kv, job'.todo)
        BY <1>8, <2>1
    <2>4. Read(Kv, schema') = want /\ schema' \in Schemas
        BY <1>1, <1>3, <1>13, <2>1
    <2>5. Read(Final', schema') = Read(Kv, schema')
        BY <1>1, <2>1, <2>2, <2>3, <2>4, IndexOnlyRead
    <2> QED  BY <2>1, <2>3, <2>4, <2>5 DEF Reads
<1> QED  BY <1>6, <1>7, <1>9, <1>10, <1>11, <1>12, <1>14
\* Steps that leave nothing to come and nothing pending.
LEMMA Emptied ==
    ASSUME TInv, UNCHANGED <<base, log>>, pending' = {}, job'.todo = <<>>
    PROVE  Kv' = Kv /\ View' = Kv /\ Final' = Kv
<1>1. IsMap(Kv) /\ Kv' = Kv
    BY ViewType, MapsAreMaps DEF TInv, Kv
<1>2. View' = Kv
    BY <1>1, ApplyTwice DEF View
<1> QED  BY <1>1, <1>2, EmptyLog DEF Final

\* The writes of a call: they make the map that was to be made, and touch no
\* fields but those of the entity that is put.
LEMMA WorkReads ==
    ASSUME SchemaFirst, TInv, Control, Truthful, TInv', Control'
    PROVE  /\ WriteOne \/ SaveTables \/ Truncate \/ Persist => (Reads /\ Hints)'
           /\ PutDone \/ DeleteDone \/ IndexDone => (Reads /\ Hints)'
           /\ \A step \in {"write", "save", "truncate", "persist"} : CallFails(step) => (Reads /\ Hints)'
           /\ CommitFails => (Reads /\ Hints)'
<1>1. /\ EngineType /\ SchemaType /\ JobType /\ Kv \in Maps /\ View \in Maps
      /\ schema \in Schemas /\ Known /\ Own /\ Reads /\ Hints
    BY Settled DEF TInv, SchemaType, Truthful
<1>2. ASSUME WriteOne  PROVE (Reads /\ Hints)'
    <2>1. PICK i \in DOMAIN job.todo : \E w \in job.todo[i] :
            /\ job'.op = job.op /\ job'.ent = job.ent /\ job'.ids = job.ids
            /\ {w} \in Batches /\ w.key \in KeysOfLog(job.todo)
            /\ Kv' = Apply(Kv, {w}) /\ View' = Kv' /\ Final' = Final
        BY <1>2, WriteKeepsFinal
    <2>2. PICK w \in job.todo[i] :
            /\ job'.op = job.op /\ job'.ent = job.ent /\ job'.ids = job.ids
            /\ {w} \in Batches /\ w.key \in KeysOfLog(job.todo)
            /\ Kv' = Apply(Kv, {w}) /\ View' = Kv' /\ Final' = Final
        BY <2>1
    <2>3. pc = "write" /\ pc' \in {"write", "save"} /\ UNCHANGED <<schema, want, hint>>
        BY <1>2 DEF WriteOne, history
    <2>4. Reads'
        BY <1>1, <2>2, <2>3 DEF Reads
    <2>5. ASSUME NEW e \in Ids, ~(InWrite /\ e \in job.ent)
          PROVE  StoredFields(Kv', e) \subseteq StoredFields(Kv, e)
        <3>1. ASSUME NEW v \in {w}, v.key \in FieldKeys, v.key.ent = e  PROVE v.val = None
            <4>1. job.op \notin {"put", "cas"}
                BY <1>1, <2>2, <2>3, <2>5, <3>1 DEF InWrite, Own
            <4> QED  BY <1>1, <2>2, <3>1, <4>1, KeyFacts DEF Own
        <3>2. StoredFields(Apply(Kv, {w}), e) \subseteq StoredFields(Kv, e)
            BY <1>1, <2>2, <3>1, StoredApply
        <3> QED  BY <2>2, <3>2
    <2>6. Hints'
        BY <1>1, <2>2, <2>3, <2>5 DEF Hints, InWrite
    <2> QED  BY <2>4, <2>6
<1>3. ASSUME SaveTables \/ Truncate \/ Persist  PROVE (Reads /\ Hints)'
    <2>1. Kv' = Kv /\ View' = View /\ Final' = Final
        BY <1>3, MovesKeepMap
    <2>2. pc \in {"save", "truncate", "persist"} /\ UNCHANGED <<schema, want, hint, job>>
        BY <1>3 DEF SaveTables, Truncate, Persist, history
    <2>3. InWrite' => InWrite
        <3>1. Persist => pc' = job.after /\ pc = "persist"
            BY DEF Persist
        <3>2. SaveTables => pc = "save"
            BY DEF SaveTables
        <3>3. Truncate => pc = "truncate"
            BY DEF Truncate
        <3> QED  BY <1>1, <1>3, <2>2, <3>1, <3>2, <3>3 DEF InWrite, Control, Course
    <2>4. pc' # "sync"
        <3>1. Persist => pc' = job.after /\ pc = "persist"
            BY DEF Persist
        <3>2. SaveTables => pc' = "truncate"
            BY DEF SaveTables
        <3>3. Truncate => pc' = "write" \/ pc' = job.back
            BY DEF Truncate
        <3> QED  BY <1>3, <3>1, <3>2, <3>3 DEF Control, Course
    <2>5. InWrite => InWrite' \/ pc' = "down"
        <3>1. SaveTables => pc' = "truncate"
            BY DEF SaveTables
        <3>2. Truncate => (job.op \in {"put", "cas"} => pc' = "write")
            BY DEF Truncate, Writers
        <3>3. Persist => pc = "persist"
            BY DEF Persist
        <3> QED  BY <1>3, <2>2, <3>1, <3>2, <3>3 DEF InWrite
    <2>6. Reads'
        BY <1>1, <2>1, <2>2, <2>4 DEF Reads
    <2>7. Hints'
        BY <1>1, <2>1, <2>2, <2>3, <2>5 DEF Hints
    <2> QED  BY <2>6, <2>7
<1>4. ASSUME PutDone  PROVE (Reads /\ Hints)'
    <2>1. /\ UNCHANGED <<base, log, schema, pending, want>> /\ job.op \in {"put", "cas"}
          /\ Finish(IF schema # saved THEN "persist" ELSE "idle", "idle")
        BY <1>4 DEF PutDone, engine, history
    <2>2. /\ Kv' = Kv /\ View' = Kv /\ Final = Kv /\ Final' = Kv
          /\ job'.op = job.op /\ pc = "write" /\ pc' \in {"persist", "idle"}
        BY <2>1, FinishKeepsFinal
    <2>3. PICK e \in Ids : job.ent = {e}
        BY <1>1, <2>1 DEF Own
    <2>4. hint' = [hint EXCEPT ![e] = {job.ids}]
        BY <1>4, <2>3 DEF PutDone
    <2>5. InWrite /\ ~InWrite'
        BY <2>1, <2>2 DEF InWrite
    <2>6. StoredFields(Kv, e) \subseteq job.ids
        BY <1>1, <2>2, <2>3, <2>5 DEF Hints
    <2>7. Reads'
        BY <1>1, <2>1, <2>2 DEF Reads
    <2>8. hint \in [Ids -> SUBSET SUBSET Nat]
        BY DEF TInv, StateType
    <2>9. Hints'
        <3> SUFFICES ASSUME NEW d \in Ids
                     PROVE  hint'[d] = {} \/ StoredFields(Kv', d) \subseteq UNION hint'[d]
            BY <2>5 DEF Hints
        <3>1. CASE d = e
            BY <2>2, <2>4, <2>6, <2>8, <3>1
        <3>2. CASE d # e
            BY <1>1, <2>2, <2>3, <2>4, <2>8, <3>2 DEF Hints
        <3> QED  BY <3>1, <3>2
    <2> QED  BY <2>7, <2>9
<1>5. ASSUME DeleteDone  PROVE (Reads /\ Hints)'
    <2>1. /\ UNCHANGED <<base, log, schema, pending, want>> /\ job.op = "delete"
          /\ Finish("idle", "idle")
        BY <1>5 DEF DeleteDone, engine, history
    <2>2. /\ Kv' = Kv /\ View' = Kv /\ Final = Kv /\ Final' = Kv
          /\ job'.op = job.op /\ pc = "write" /\ pc' = "idle"
        BY <2>1, FinishKeepsFinal
    <2>3. PICK e \in job.ent : hint' = [hint EXCEPT ![e] = {}]
        BY <1>5 DEF DeleteDone
    <2>4. ~InWrite /\ ~InWrite'
        BY <2>1, <2>2 DEF InWrite
    <2>5. hint \in [Ids -> SUBSET SUBSET Nat]
        BY DEF TInv, StateType
    <2>6. \A d \in Ids : hint'[d] = hint[d] \/ hint'[d] = {}
        BY <2>3, <2>5
    <2>7. Hints'
        BY <1>1, <2>2, <2>4, <2>6 DEF Hints
    <2> QED  BY <1>1, <2>1, <2>2, <2>7 DEF Reads
<1>6. ASSUME IndexDone  PROVE (Reads /\ Hints)'
    <2>1. /\ UNCHANGED <<base, log, hint, pending, want>> /\ job.op \notin {"put", "cas"}
          /\ Finish("persist", job.back)
        BY <1>6 DEF IndexDone, engine, history
    <2>2. /\ Kv' = Kv /\ View' = Kv /\ Final = Kv /\ Final' = Kv
          /\ job'.op = job.op /\ pc = "write" /\ pc' = "persist"
        BY <2>1, FinishKeepsFinal
    <2>3. ~InWrite /\ ~InWrite'
        BY <2>1, <2>2 DEF InWrite
    <2>4. schema'.idOf = schema.idOf
        BY <1>1, <1>6 DEF IndexDone, WithStatus, Schemas
    <2>5. Read(Final', schema') = Read(Final, schema)
        BY <2>2, <2>4, ReadIds
    <2>6. Hints'
        BY <1>1, <2>1, <2>2, <2>3 DEF Hints
    <2> QED  BY <1>1, <2>1, <2>2, <2>5, <2>6 DEF Reads
<1>7. ASSUME NEW step \in {"write", "save", "truncate", "persist"}, CallFails(step)
      PROVE  (Reads /\ Hints)'
    <2>1. /\ UNCHANGED <<base, log, schema, hint>> /\ pending' = {} /\ want' = Read(Kv, schema)
          /\ pc = step /\ job.op \in Faults /\ pc' \in {"idle", "down"}
        BY <1>7 DEF CallFails, engine
    <2>2. job'.op = "none" /\ job'.todo = <<>>
        BY <1>7 DEF CallFails, NoJob
    <2>3. ~InWrite /\ ~InWrite'
        <3>1. job.op \in {"put", "cas"} => Calls \cap {"put", "cas"} # {}
            BY <1>1 DEF Known
        <3> QED  BY <2>1, <2>2, <3>1 DEF SchemaFirst, InWrite
    <2>4. Kv' = Kv /\ View' = Kv /\ Final' = Kv
        BY <2>1, <2>2, Emptied
    <2>5. Reads'
        BY <2>1, <2>4 DEF Reads
    <2>6. Hints'
        BY <1>1, <2>1, <2>3, <2>4 DEF Hints
    <2> QED  BY <2>5, <2>6
<1>8. ASSUME CommitFails  PROVE (Reads /\ Hints)'
    <2>1. /\ UNCHANGED <<base, log, schema, hint, pending, want>>
          /\ pc = "persist" /\ pc' = "tx" /\ job.op = "commit"
        BY <1>8 DEF CommitFails, engine, history
    <2>2. job'.todo = <<>>
        BY <1>8 DEF CommitFails, NoJob
    <2>3. job.todo = <<>>
        BY <2>1 DEF Control, WorkLeft, Writers
    <2>4. Kv' = Kv /\ View' = View
        BY <2>1 DEF Kv, View
    <2>5. Final' = Final
        BY <2>2, <2>3, <2>4 DEF Final
    <2> QED  BY <1>1, <2>1, <2>4, <2>5 DEF Reads, Hints, InWrite
<1> QED  BY <1>2, <1>3, <1>4, <1>5, <1>6, <1>7, <1>8
\* The calls of a transaction read what it has written.
LEMMA TransactionReads ==
    ASSUME TInv, Control, Truthful
    PROVE  /\ \A e \in Ids, x \in Inputs : TxUpdate(e, x) => (Reads /\ Hints)'
           /\ \A e \in Ids, u \in Updates : TxCasUpdate(e, u) => (Reads /\ Hints)'
           /\ \A e \in Ids : TxDelete(e) => (Reads /\ Hints)'
           /\ Abort \/ LogBlock \/ Sync => (Reads /\ Hints)'
<1>1. /\ EngineType /\ SchemaType /\ JobType /\ Kv \in Maps /\ View \in Maps
      /\ schema \in Schemas /\ Known /\ Own /\ Reads /\ Hints
    BY Settled DEF TInv, SchemaType, Truthful
<1>2. ASSUME pc = "tx"
      PROVE  Read(View, schema) = want /\ KnownTo(schema, DOMAIN View) /\ job.todo = <<>>
    <2>1. Read(View, schema) = want /\ job.todo = <<>>
        BY <1>1, <1>2, Settled DEF Reads
    <2> QED  BY <1>1, <1>2, <2>1, KvKnown DEF Known
<1>3. ASSUME pc = "tx", pc' = "tx", UNCHANGED <<base, log, hint>>  PROVE Hints'
    BY <1>1, <1>3 DEF Hints, InWrite, Kv
<1>4. ASSUME NEW e \in Ids, NEW x \in Input, schema' = Allot(schema, NamesOf(x)),
             pending' = Pended(PutWrites(View, schema', {}, e, x)),
             want' = [want EXCEPT ![e] = AsEntity(x)],
             pc = "tx", pc' = "tx", UNCHANGED <<base, log, hint, job>>
      PROVE  (Reads /\ Hints)'
    <2> DEFINE l == PutWrites(View, schema', {}, e, x)
    <2>1. /\ Read(Replayed(View, l), schema') = want' /\ l \in Seq(Batches)
        <3>1. View \in Maps /\ KnownTo(schema, DOMAIN View) /\ Read(View, schema) = want
            BY <1>1, <1>2, <1>4
        <3>2. schema' = Allot(schema, NamesOf(x)) /\ want' = [want EXCEPT ![e] = AsEntity(x)]
            BY <1>4
        <3>3. PutRight(View, schema', {}, e, x)
            BY <3>1, <3>2, PutReads
        <3> QED  BY <3>1, <3>2, <3>3 DEF PutRight
    <2> HIDE DEF l
    <2>2. Final' = Replayed(View, l)
        BY <1>2, <1>4, <2>1, PendedKeepsFinal DEF l
    <2>3. Reads'
        BY <1>4, <2>1, <2>2 DEF Reads
    <2> QED  BY <1>3, <1>4, <2>3
<1>5. ASSUME NEW e \in Ids, NEW x \in Inputs, TxUpdate(e, x)  PROVE (Reads /\ Hints)'
    <2>1. /\ pc = "tx" /\ pc' = "tx" /\ UNCHANGED <<base, log, hint, job>>
          /\ pending' = Pended(PutWrites(View, schema', {}, e, x))
          /\ schema' = Allot(schema, NamesOf(x)) /\ want' = [want EXCEPT ![e] = AsEntity(x)]
        BY <1>5 DEF TxUpdate, InTransaction, engine
    <2> QED  BY <1>4, <2>1, InputNames
<1>6. ASSUME NEW e \in Ids, NEW u \in Updates, TxCasUpdate(e, u)  PROVE (Reads /\ Hints)'
    <2> DEFINE q == Patched(View, schema, e, u)
               p == AsInput(q)
    <2>1. q \in Entity
        BY <1>1, PatchedType
    <2> HIDE DEF q
    <2>2. p \in Input /\ AsEntity(p) = q
        BY <2>1, InputNames
    <2>3. /\ pc = "tx" /\ pc' = "tx" /\ UNCHANGED <<base, log, hint, job>>
          /\ pending' = Pended(PutWrites(View, schema', {}, e, p))
          /\ schema' = Allot(schema, NamesOf(p)) /\ want' = [want EXCEPT ![e] = q]
        BY <1>6 DEF TxCasUpdate, InTransaction, engine, q
    <2> HIDE DEF p
    <2> QED  BY <1>4, <2>2, <2>3
<1>7. ASSUME NEW e \in Ids, TxDelete(e)  PROVE (Reads /\ Hints)'
    <2>1. /\ pc = "tx" /\ pc' = "tx" /\ UNCHANGED <<base, log, schema, hint, job>>
          /\ pending' = Pended(DeleteWrites(View, schema, e))
          /\ want' = [want EXCEPT ![e] = NoEntity]
        BY <1>7 DEF TxDelete, InTransaction, engine
    <2>2. /\ Read(Replayed(View, DeleteWrites(View, schema, e)), schema) = want'
          /\ DeleteWrites(View, schema, e) \in Seq(Batches)
        BY <1>1, <1>2, <2>1, DeleteReads
    <2>3. Final' = Replayed(View, DeleteWrites(View, schema, e))
        BY <1>2, <2>1, <2>2, PendedKeepsFinal
    <2>4. Reads'
        BY <2>1, <2>2, <2>3 DEF Reads
    <2> QED  BY <1>3, <2>1, <2>4
<1>8. ASSUME Abort  PROVE (Reads /\ Hints)'
    <2>1. /\ UNCHANGED <<base, log, schema, hint, job>> /\ pending' = {} /\ want' = Read(Kv, schema)
          /\ pc = "tx" /\ pc' = "idle"
        BY <1>8 DEF Abort, engine
    <2>2. Kv' = Kv /\ View' = Kv /\ Final' = Kv
        BY <1>2, <2>1, Emptied
    <2> QED  BY <1>1, <2>1, <2>2 DEF Reads, Hints, InWrite
<1>9. ASSUME LogBlock  PROVE (Reads /\ Hints)'
    <2>1. /\ UNCHANGED <<schema, hint, pending, job, want>> /\ pc = "block" /\ pc' = "sync"
        BY <1>9 DEF LogBlock, history
    <2>2. Kv' = View /\ View' = View /\ Final' = Final /\ Final = View
        BY <1>9, BlockKeepsView
    <2>3. ASSUME NEW e \in Ids, e \notin Touched
          PROVE  StoredFields(Kv', e) \subseteq StoredFields(Kv, e)
        <3>1. pending \in Batches
            BY DEF TInv, StateType
        <3>2. \A w \in pending : w.key \in FieldKeys /\ w.key.ent = e => w.val = None
            BY <2>3, KeyFacts DEF Touched
        <3> QED  BY <1>1, <2>2, <3>1, <3>2, StoredApply DEF View
    <2>4. Touched' = Touched
        BY <2>1 DEF Touched
    <2>5. Hints'
        <3>1. \A e \in Ids : hint[e] = {} \/ StoredFields(Kv, e) \subseteq UNION hint[e]
            BY <1>1, <2>1 DEF Hints, InWrite
        <3>2. ~InWrite'
            BY <2>1 DEF InWrite
        <3>3. \A e \in Ids : \/ hint'[e] = {} \/ StoredFields(Kv', e) \subseteq UNION hint'[e]
                             \/ pc' = "sync" /\ e \in Touched'
            BY <2>1, <2>3, <2>4, <3>1
        <3> QED  BY <3>2, <3>3 DEF Hints
    <2>6. Reads'
        BY <1>1, <2>1, <2>2 DEF Reads
    <2> QED  BY <2>5, <2>6
<1>10. ASSUME Sync  PROVE (Reads /\ Hints)'
    <2>1. /\ UNCHANGED <<base, log, schema, job, want>> /\ pc = "sync" /\ pc' \in {"save", "idle"}
          /\ pending' = {} /\ hint' = [e \in Ids |-> IF e \in Touched THEN {} ELSE hint[e]]
        BY <1>10 DEF Sync, history
    <2>2. job.todo = <<>> /\ job.op = "commit"
        BY <2>1 DEF Control, WorkLeft, Busy, Course
    <2>3. Kv' = Kv /\ View' = Kv /\ Final' = Kv
        BY <2>1, <2>2, Emptied
    <2>4. Read(Kv, schema) = want
        BY <1>1, <2>1, <2>2, Settled DEF Reads
    <2>5. Reads'
        BY <2>1, <2>3, <2>4 DEF Reads
    <2>6. ~InWrite' /\ ~InWrite
        BY <2>1, <2>2 DEF InWrite
    <2>7. \A e \in Ids : hint'[e] = {} \/ StoredFields(Kv', e) \subseteq UNION hint'[e]
        <3> SUFFICES ASSUME NEW e \in Ids
                     PROVE  hint'[e] = {} \/ StoredFields(Kv', e) \subseteq UNION hint'[e]
            OBVIOUS
        <3>1. CASE e \in Touched
            BY <2>1, <3>1
        <3>2. CASE e \notin Touched
            <4>1. hint'[e] = hint[e]
                BY <2>1, <3>2
            <4> QED  BY <1>1, <2>1, <2>3, <2>6, <3>2, <4>1 DEF Hints
        <3> QED  BY <3>1, <3>2
    <2> QED  BY <2>5, <2>6, <2>7 DEF Hints
<1> QED  BY <1>5, <1>6, <1>7, <1>8, <1>9, <1>10

\* An opened store wants what it finds; it has no hints.
LEMMA RestartReads ==
    ASSUME TInv, Control, Truthful
    PROVE  Crash \/ Open \/ Recovered => (Reads /\ Hints)'
<1>1. Reads /\ Hints
    BY DEF Truthful
<1>2. ASSUME Crash  PROVE (Reads /\ Hints)'
    BY <1>2 DEF Crash, Reads, Hints
<1>3. ASSUME Open  PROVE (Reads /\ Hints)'
    <2>1. /\ UNCHANGED <<base, log, pending>> /\ pc = "down" /\ pc' = "recover"
          /\ schema' = saved /\ want' = Read(Kv, saved) /\ hint' = [e \in Ids |-> {}]
        BY <1>3 DEF Open, engine
    <2>2. job'.todo = <<>>
        BY <1>3 DEF Open, NoJob
    <2>3. pending' = {}
        BY <2>1 DEF Control, WorkLeft
    <2>4. Kv' = Kv /\ View' = Kv /\ Final' = Kv
        BY <2>1, <2>2, <2>3, Emptied
    <2>5. Reads'
        BY <2>1, <2>4 DEF Reads
    <2> QED  BY <2>1, <2>5 DEF Hints, InWrite
<1>4. ASSUME Recovered  PROVE (Reads /\ Hints)'
    <2>1. UNCHANGED <<base, log, schema, hint, pending, want>> /\ pc = "recover" /\ pc' = "idle"
        BY <1>4 DEF Recovered, engine, history
    <2>2. job'.todo = <<>>
        BY <1>4 DEF Recovered, NoJob
    <2>3. pending' = {} /\ Final = Kv
        BY <2>1, Settled
    <2>4. Kv' = Kv /\ View' = Kv /\ Final' = Kv
        BY <2>1, <2>2, <2>3, Emptied
    <2> QED  BY <1>1, <2>1, <2>3, <2>4 DEF Reads, Hints, InWrite
<1> QED  BY <1>2, <1>3, <1>4

\* An empty store.
LEMMA InitReads == Init => Reads /\ Hints
<1> SUFFICES ASSUME Init  PROVE Reads /\ Hints
    OBVIOUS
<1>1. base = <<>> /\ log = <<>> /\ pending = {} /\ pc = "idle" /\ job.todo = <<>>
      /\ hint = [e \in Ids |-> {}] /\ want = [e \in Ids |-> NoEntity]
    BY DEF Init, NoJob
<1>2. TInv /\ Control
    BY InitTypes, InitControl
<1>3. IsMap(base)
    BY <1>2, MapsAreMaps DEF TInv, EngineType
<1>4. Kv = <<>>
    BY <1>1, <1>3, EmptyLog DEF Kv
<1>5. Final = Kv
    BY <1>1, <1>2, Settled
<1>6. Read(Kv, schema) = want
    BY <1>1, <1>4 DEF Read, ReadEntity, NoEntity
<1> QED  BY <1>1, <1>5, <1>6 DEF Reads, Hints, InWrite

\* Every step.
LEMMA NextReads ==
    SchemaFirst /\ TInv /\ Control /\ Truthful /\ [Next]_vars => (Reads /\ Hints)'
<1> SUFFICES ASSUME SchemaFirst, TInv, Control, Truthful, [Next]_vars  PROVE (Reads /\ Hints)'
    OBVIOUS
<1>1. Known /\ Own /\ Reads /\ Hints
    BY DEF Truthful
<1>2. CASE UNCHANGED vars
    <2>1. UNCHANGED <<base, log, schema, hint, pending, job, pc, want>>
        BY <1>2 DEF vars, engine, history
    <2>2. Kv' = Kv /\ View' = View /\ Final' = Final
        BY <2>1 DEF Kv, View, Final
    <2> QED  BY <1>1, <2>1, <2>2 DEF Reads, Hints, InWrite, Touched
<1>3. ASSUME Next  PROVE (Reads /\ Hints)'
    <2>1. TInv' /\ Control'
        BY NextTypes, NextControl
    <2> QED  BY <1>3, <2>1, StartReads, WorkReads, TransactionReads, RestartReads DEF Next, WriteFails
<1> QED  BY <1>2, <1>3

\* An entity reads back as it was last written, whatever the hint says and
\* whatever was committed, aborted, dropped or reopened in between.
THEOREM EntitiesReadBack == SchemaFirst => (Spec => []ReadsBack)
<1> SUFFICES ASSUME SchemaFirst  PROVE Spec => []ReadsBack
    OBVIOUS
<1>1. Init => TInv /\ Control /\ Truthful
    BY InitTypes, InitControl, InitKnown, InitOwn, InitReads DEF Truthful
<1>2. TInv /\ Control /\ Truthful /\ [Next]_vars => (TInv /\ Control /\ Truthful)'
    BY NextTypes, NextControl, NextKnown, NextOwn, NextReads DEF Truthful
<1>3. TInv /\ Control /\ Truthful => ReadsBack
    BY Settled DEF Truthful, Reads, ReadsBack
<1> QED  BY <1>1, <1>2, <1>3, PTL DEF Spec
-----------------------------------------------------------------------------
(* What a crash in a commit leaves.                                        *)

\* The entities after the first i batches of the log.
AtCut(i) == Read(Replayed(base, SubSeq(log, 1, i)), schema)

\* Until its block is logged, a crash in a commit leaves what it could have
\* left before; once the block is synced, all of it.
Committing ==
    /\ job.op = "commit" => pc \notin {"tx", "recover", "write"}
    /\ pc = "idle" /\ job.op = "commit" => synced = Len(log)
    /\ pc \in {"persist", "block"} /\ job.op = "commit" =>
        \A i \in synced .. Len(log) : AtCut(i) \in was
    /\ pc = "sync" => \A i \in synced .. Len(log) - 1 : AtCut(i) \in was

\* No call but a commit is under way in an empty store.
LEMMA InitCommitting == Init => Committing
BY DEF Init, NoJob, Committing

\* The steps of a commit.
LEMMA CommitSteps ==
    ASSUME TInv, Control, Committing
    PROVE  /\ StartCommit \/ LogBlock \/ Sync => Committing'
           /\ SaveTables \/ Truncate \/ Persist \/ CommitFails => Committing'
<1>1. log \in Seq(Batches) /\ Len(log) \in Nat /\ synced \in Nat /\ synced <= Len(log)
    BY LogTypes DEF TInv, EngineType
<1>2. ASSUME StartCommit  PROVE Committing'
    <2>1. /\ UNCHANGED <<base, log, synced, schema>> /\ pc' \in {"persist", "block"}
          /\ was' = {Read(m, schema) : m \in Survivors(base, log, synced)}
        BY <1>2 DEF StartCommit, engine, Before
    <2>2. \A i \in synced .. Len(log) : AtCut(i) \in was'
        BY <2>1 DEF AtCut, Survivors
    <2> QED  BY <2>1, <2>2 DEF Committing, AtCut
<1>3. ASSUME LogBlock  PROVE Committing'
    <2>1. /\ UNCHANGED <<base, synced, schema, job, was>> /\ pc = "block" /\ pc' = "sync"
          /\ log' = Append(log, pending) /\ job.op = "commit"
        BY <1>3 DEF LogBlock, history, Control, Course
    <2>2. Len(log') = Len(log) + 1
        BY <1>1, <2>1
    <2>3. ASSUME NEW i \in synced .. Len(log') - 1  PROVE AtCut(i)' \in was'
        <3>1. i \in Nat /\ i \in synced .. Len(log)
            BY <1>1, <2>1, <2>2, <2>3
        <3>2. SubSeq(log', 1, i) = SubSeq(log, 1, i)
            BY <1>1, <2>1, <3>1
        <3>3. AtCut(i) \in was
            BY <2>1, <3>1 DEF Committing
        <3> QED  BY <2>1, <3>2, <3>3 DEF AtCut
    <2> QED  BY <2>1, <2>3 DEF Committing
<1>4. ASSUME Sync  PROVE Committing'
    BY <1>1, <1>4 DEF Sync, Committing
<1>5. ASSUME SaveTables  PROVE Committing'
    BY <1>5 DEF SaveTables, Committing
<1>6. ASSUME Truncate  PROVE Committing'
    <2>1. log' = <<>> /\ synced' = 0 /\ pc' \in {"write", job.back} /\ UNCHANGED job
          /\ (job.op = "commit" => pc' = job.back)
        BY <1>6 DEF Truncate, Writers
    <2>2. job.op = "commit" => job.back = "idle"
        BY DEF Control, Course
    <2>3. job.back \in {"idle", "down", "recover"}
        BY DEF Control, Course
    <2> QED  BY <2>1, <2>2, <2>3 DEF Committing
<1>7. ASSUME Persist  PROVE Committing'
    <2>1. /\ UNCHANGED <<base, log, synced, schema, job, was>> /\ pc = "persist" /\ pc' = job.after
        BY <1>7 DEF Persist, engine, history
    <2> QED  BY <2>1 DEF Control, Course, Committing, AtCut
<1>8. ASSUME CommitFails  PROVE Committing'
    <2>1. job'.op = "none" /\ pc' = "tx"
        BY <1>8 DEF CommitFails, NoJob
    <2> QED  BY <2>1 DEF Committing
<1> QED  BY <1>2, <1>3, <1>4, <1>5, <1>6, <1>7, <1>8

\* Every step.
LEMMA NextCommitting == TInv /\ Control /\ Committing /\ [Next]_vars => Committing'
<1> SUFFICES ASSUME TInv, Control, Committing, [Next]_vars  PROVE Committing'
    OBVIOUS
<1>1. CASE UNCHANGED vars
    <2>1. UNCHANGED <<base, log, synced, schema, job, pc, was>>
        BY <1>1 DEF vars, engine, history
    <2> QED  BY <2>1 DEF Committing, AtCut
<1>2. ASSUME job'.op # "commit", pc' # "sync"  PROVE Committing'
    BY <1>2 DEF Committing
<1>3. ASSUME pc' = "down"  PROVE Committing'
    BY <1>3 DEF Committing
<1>4. ASSUME NEW e \in Ids, NEW x \in Inputs, PutEntity(e, x)  PROVE Committing'
    <2>1. job'.op = "put" /\ pc' = "write"
        BY <1>4 DEF PutEntity, NoJob
    <2> QED  BY <1>2, <2>1
<1>5. ASSUME NEW e \in Ids, NEW u \in Updates, CasUpdate(e, u)  PROVE Committing'
    <2>1. job'.op = "cas" /\ pc' = "write"
        BY <1>5 DEF CasUpdate, NoJob
    <2> QED  BY <1>2, <2>1
<1>6. ASSUME NEW e \in Ids, DeleteEntity(e)  PROVE Committing'
    <2>1. job'.op = "delete" /\ pc' = "write"
        BY <1>6 DEF DeleteEntity, NoJob
    <2> QED  BY <1>2, <2>1
<1>7. ASSUME NEW ix \in Indexes, CreateIndex(ix) \/ RecoverIndex(ix)  PROVE Committing'
    <2>1. PICK to : StartCreate(ix, to)
        BY <1>7 DEF CreateIndex, RecoverIndex
    <2>2. job'.op = "create" /\ pc' = "persist"
        BY <2>1 DEF StartCreate, NoJob
    <2> QED  BY <1>2, <2>2
<1>8. ASSUME NEW ix \in Indexes, DropIndex(ix)  PROVE Committing'
    <2>1. job'.op = "drop" /\ pc' = "write"
        BY <1>8 DEF DropIndex, NoJob
    <2> QED  BY <1>2, <2>1
<1>9. ASSUME Flush  PROVE Committing'
    <2>1. job'.op = "flush" /\ pc' = "save"
        BY <1>9 DEF Flush, NoJob
    <2> QED  BY <1>2, <2>1
<1>10. ASSUME Close \/ Begin  PROVE Committing'
    <2>1. Close => job'.op = "close" /\ pc' \in {"persist", "save"}
        BY DEF Close, NoJob
    <2>2. Begin => job'.op = "none" /\ pc' = "tx"
        BY DEF Begin, NoJob
    <2> QED  BY <1>2, <1>10, <2>1, <2>2
<1>11. ASSUME WriteOne  PROVE Committing'
    <2>1. pc = "write" /\ pc' \in {"write", "save"} /\ job'.op = job.op
        BY <1>11, WriteKeepsFinal DEF WriteOne
    <2> QED  BY <1>2, <2>1 DEF Control, Course, Writers
<1>12. ASSUME NEW step \in {"write", "save", "truncate", "persist"}, CallFails(step)  PROVE Committing'
    <2>1. job'.op = "none" /\ pc' \in {"idle", "down"}
        BY <1>12 DEF CallFails, NoJob
    <2> QED  BY <1>2, <2>1
<1>13. ASSUME PutDone \/ DeleteDone \/ IndexDone  PROVE Committing'
    <2>1. PICK next, after : Finish(next, after) /\ next \in {"idle", "persist"}
        BY <1>13 DEF PutDone, DeleteDone, IndexDone
    <2>2. job'.op = job.op /\ pc = "write" /\ pc' \in {"idle", "persist"}
        BY <2>1 DEF TInv, JobType, Jobs, Finish
    <2> QED  BY <1>2, <2>2 DEF Control, Course, Writers
<1>14. ASSUME NEW e \in Ids, \/ \E x \in Inputs : TxUpdate(e, x)
                             \/ \E u \in Updates : TxCasUpdate(e, u)
                             \/ TxDelete(e)
       PROVE  Committing'
    <2>1. pc = "tx" /\ pc' = "tx" /\ UNCHANGED job
        BY <1>14 DEF TxUpdate, TxCasUpdate, TxDelete, InTransaction
    <2> QED  BY <1>2, <2>1 DEF Committing
<1>15. ASSUME Abort  PROVE Committing'
    <2>1. pc = "tx" /\ pc' = "idle" /\ UNCHANGED job
        BY <1>15 DEF Abort
    <2> QED  BY <1>2, <2>1 DEF Committing
<1>16. ASSUME Crash  PROVE Committing'
    BY <1>3, <1>16 DEF Crash
<1>17. ASSUME Open \/ Recovered  PROVE Committing'
    <2>1. job'.op = "none" /\ pc' \in {"recover", "idle"}
        BY <1>17 DEF Open, Recovered, NoJob
    <2> QED  BY <1>2, <2>1
<1>19. ASSUME NEW ix \in Indexes, NarrowCreateIndex(ix) \/ NarrowDropIndex(ix)  PROVE Committing'
    <2>1. job'.op \in {"narrow_create", "narrow_drop"} /\ pc' \in {"persist", "write"}
        BY <1>19, NarrowStarts
    <2> QED  BY <1>2, <2>1
<1>18. ASSUME Next  PROVE Committing'
    BY <1>4, <1>5, <1>6, <1>7, <1>8, <1>9, <1>10, <1>11, <1>12, <1>13, <1>14, <1>15, <1>16, <1>17,
       <1>18, <1>19, CommitSteps DEF Next, WriteFails
<1> QED  BY <1>1, <1>18

\* Only a crash takes a store down in the middle of a commit.
LEMMA CommitCut ==
    ASSUME TInv, Control, Committing, Next, job.op = "commit", pc # "down", pc' = "down"
    PROVE  Crash
<1>1. /\ \A e \in Ids, x \in Inputs : ~PutEntity(e, x) /\ ~TxUpdate(e, x)
      /\ \A e \in Ids, u \in Updates : ~CasUpdate(e, u) /\ ~TxCasUpdate(e, u)
      /\ \A e \in Ids : ~DeleteEntity(e) /\ ~TxDelete(e)
    BY DEF PutEntity, TxUpdate, CasUpdate, TxCasUpdate, DeleteEntity, TxDelete, InTransaction
<1>2. \A ix \in Indexes : /\ ~CreateIndex(ix) /\ ~DropIndex(ix) /\ ~RecoverIndex(ix)
                         /\ ~NarrowCreateIndex(ix) /\ ~NarrowDropIndex(ix)
    BY DEF CreateIndex, DropIndex, RecoverIndex, StartCreate, NarrowCreateIndex, NarrowDropIndex
<1>3. ~Flush /\ ~Close /\ ~Begin /\ ~Abort /\ ~StartCommit /\ ~LogBlock /\ ~Sync /\ ~CommitFails
    BY DEF Flush, Close, Begin, Abort, StartCommit, LogBlock, Sync, CommitFails
<1>4. ~WriteOne /\ ~SaveTables /\ ~Open /\ ~Recovered
    BY DEF WriteOne, SaveTables, Open, Recovered
<1>5. job.back = "idle"
    BY DEF Control, Course
<1>6. ~Truncate /\ \A step : ~CallFails(step)
    BY <1>5 DEF Truncate, CallFails
<1>7. ~Persist
    BY DEF Persist, Control, Course
<1>8. ~PutDone /\ ~DeleteDone /\ ~IndexDone
    BY DEF PutDone, DeleteDone, IndexDone
<1> QED  BY <1>1, <1>2, <1>3, <1>4, <1>6, <1>7, <1>8 DEF Next, WriteFails

\* A crash in a commit leaves the entities as it could have left them before
\* the commit, or as the transaction wrote them; and so once its block is synced.
THEOREM CommitsWhole == SchemaFirst => (Spec => CommitAtomic)
<1> SUFFICES ASSUME SchemaFirst  PROVE Spec => CommitAtomic
    OBVIOUS
<1> DEFINE Inv == TInv /\ Control /\ Truthful /\ Committing
           Whole == /\ Atomic("commit")
                    /\ pc \in {"save", "truncate"} /\ pc' = "down" /\ job.op = "commit"
                       => Read(Kv', schema) = want
<1>1. Init => Inv
    BY InitTypes, InitControl, InitKnown, InitOwn, InitReads, InitCommitting DEF Truthful
<1>2. Inv /\ [Next]_vars => Inv'
    BY NextTypes, NextControl, NextKnown, NextOwn, NextReads, NextCommitting DEF Truthful
<1>3. Inv /\ [Next]_vars => [Whole]_vars
    <2> SUFFICES ASSUME Inv, Next, job.op = "commit", pc # "down", pc' = "down"
                 PROVE  /\ Read(Kv', schema) \in was \cup {want}
                        /\ pc \in {"save", "truncate"} => Read(Kv', schema) = want
        BY DEF Atomic
    <2>1. Crash
        BY CommitCut
    <2>2. PICK n \in synced .. Len(log) : log' = SubSeq(log, 1, n)
        BY <2>1 DEF Crash
    <2>3. base' = base
        BY <2>1 DEF Crash
    <2>4. Read(Kv', schema) = AtCut(n)
        BY <2>2, <2>3 DEF Kv, AtCut
    <2>5. log \in Seq(Batches) /\ Len(log) \in Nat /\ synced \in Nat /\ synced <= Len(log) /\ n \in Nat
        BY <2>2, LogTypes DEF TInv, EngineType
    <2>6. n = Len(log) => Read(Kv', schema) = Read(Kv, schema)
        <3>1. n = Len(log) => log' = log
            BY <2>2, <2>5
        <3> QED  BY <2>3, <3>1 DEF Kv
    <2>7. job.todo = <<>> /\ (pending # {} => pc \in {"tx", "persist", "block", "sync"})
        BY DEF Control, WorkLeft, Writers
    <2>8. Read(View, schema) = want /\ (pending = {} => View = Kv) /\ (pc = "sync" => View = Kv)
        BY <2>7, Settled DEF Truthful, Reads
    <2>9. pc \in {"idle", "save", "truncate", "persist", "block", "sync"}
        BY DEF TInv, StateType, Steps, Committing
    <2>10. CASE pc \in {"idle", "save", "truncate"}
        <3>1. n = Len(log)
            BY <2>2, <2>5, <2>10 DEF Committing, Control, Commits
        <3> QED  BY <2>6, <2>7, <2>8, <2>10, <3>1
    <2>11. CASE pc \in {"persist", "block"}
        BY <2>2, <2>4, <2>11 DEF Committing
    <2>12. CASE pc = "sync"
        <3>1. n = Len(log) \/ n \in synced .. Len(log) - 1
            BY <2>2, <2>5
        <3> QED  BY <2>4, <2>6, <2>8, <2>12, <3>1 DEF Committing
    <2> QED  BY <2>9, <2>10, <2>11, <2>12
<1> QED  BY <1>1, <1>2, <1>3, PTL DEF Spec, CommitAtomic

-----------------------------------------------------------------------------
(* Indexes list what they should.                                          *)

\* The ids of the fields of an index.
Flds(s, ix) == [i \in DOMAIN ix |-> s.idOf[ix[i]]]

\* m has all fields of index ix of e; the entry for their values; it is there.
HasAll(m, s, ix, e) == \A i \in DOMAIN ix : Val(m, FieldKey(e, s.idOf[ix[i]])) # None
Entry(m, s, ix, e) == IndexKey(s, ix, [i \in DOMAIN ix |-> Val(m, FieldKey(e, s.idOf[ix[i]]))], e)
Lists(m, s, ix, e) == HasAll(m, s, ix, e) => Val(m, Entry(m, s, ix, e)) # None

\* A complete index lists every entity.
LEMMA CompleteLists ==
    ASSUME NEW m \in Maps, NEW s \in Schemas, NEW ix \in Indexes, Numbered(s, ix)
    PROVE  /\ Complete(m, s, ix) <=> \A e \in Ids : Lists(m, s, ix, e)
           /\ \A e \in Ids : OldEntries(s, ix, Stored(m, e, StoredFields(m, e)), e)
                              = IF HasAll(m, s, ix, e) THEN {Entry(m, s, ix, e)} ELSE {}
<1>1. ASSUME NEW e \in Ids
      PROVE  OldEntries(s, ix, Stored(m, e, StoredFields(m, e)), e)
               = IF HasAll(m, s, ix, e) THEN {Entry(m, s, ix, e)} ELSE {}
    <2> DEFINE fv == Stored(m, e, StoredFields(m, e))
    <2>1. /\ IsFields(fv) /\ DOMAIN fv = StoredFields(m, e)
          /\ \A f \in StoredFields(m, e) : fv[f] = Val(m, FieldKey(e, f))
        BY <1>1, StoredIsFields
    <2>2. \A i \in DOMAIN ix : s.idOf[ix[i]] \in StoredFields(m, e)
                                <=> Val(m, FieldKey(e, s.idOf[ix[i]])) # None
        BY <1>1, StoredFacts, MapFacts
    <2> HIDE DEF fv
    <2>3. OldEntries(s, ix, fv, e) =
            IF \A i \in DOMAIN ix : s.idOf[ix[i]] \in DOMAIN fv THEN {EntryOf(s, ix, fv, e)} ELSE {}
        BY <1>1, <2>1, OldEntriesFacts
    <2>4. (\A i \in DOMAIN ix : s.idOf[ix[i]] \in DOMAIN fv) <=> HasAll(m, s, ix, e)
        BY <2>1, <2>2 DEF HasAll
    <2>5. ASSUME HasAll(m, s, ix, e)  PROVE EntryOf(s, ix, fv, e) = Entry(m, s, ix, e)
        <3>1. \A i \in DOMAIN ix : fv[s.idOf[ix[i]]] = Val(m, FieldKey(e, s.idOf[ix[i]]))
            BY <2>1, <2>2, <2>5 DEF HasAll
        <3>2. [i \in DOMAIN ix |-> fv[s.idOf[ix[i]]]]
                = [i \in DOMAIN ix |-> Val(m, FieldKey(e, s.idOf[ix[i]]))]
            BY <3>1
        <3> QED  BY <3>2 DEF EntryOf, Entry
    <2> QED  BY <2>3, <2>4, <2>5 DEF fv
<1>2. ASSUME NEW e \in Ids
      PROVE  OldEntries(s, ix, Stored(m, e, StoredFields(m, e)), e) \subseteq DOMAIN m <=> Lists(m, s, ix, e)
    <2>1. Entry(m, s, ix, e) \in DOMAIN m <=> Val(m, Entry(m, s, ix, e)) # None
        BY MapFacts
    <2> QED  BY <1>1, <1>2, <2>1 DEF Lists
<1>3. Complete(m, s, ix) <=>
        \A e \in Ids : OldEntries(s, ix, Stored(m, e, StoredFields(m, e)), e) \subseteq DOMAIN m
    BY DEF Complete, RightEntries
<1> QED  BY <1>1, <1>2, <1>3

\* So does one of the same ids: new names change nothing.
LEMMA SameIdsComplete ==
    ASSUME NEW m, NEW s, NEW t, NEW ix \in Indexes,
           \A i \in DOMAIN ix : s.idOf[ix[i]] = t.idOf[ix[i]]
    PROVE  Complete(m, s, ix) = Complete(m, t, ix)
<1>1. FieldIds(s, ToSet(ix)) = FieldIds(t, ToSet(ix))
    <2>1. ix \in Seq(Names)
        BY NamesAssumption
    <2>2. \A n \in ToSet(ix) : s.idOf[n] = t.idOf[n]
        BY <2>1 DEF ToSet
    <2> QED  BY <2>2 DEF FieldIds
<1>2. \A e, fv : OldEntries(s, ix, fv, e) = OldEntries(t, ix, fv, e)
    <2> TAKE e, fv
    <2>1. [i \in DOMAIN ix |-> s.idOf[ix[i]]] = [i \in DOMAIN ix |-> t.idOf[ix[i]]]
        OBVIOUS
    <2>2. [i \in DOMAIN ix |-> fv[s.idOf[ix[i]]]] = [i \in DOMAIN ix |-> fv[t.idOf[ix[i]]]]
        OBVIOUS
    <2> QED  BY <1>1, <2>1, <2>2 DEF OldEntries, IndexKey
<1>3. RightEntries(m, s, ix) = RightEntries(m, t, ix)
    BY <1>2 DEF RightEntries
<1> QED  BY <1>3 DEF Complete

\* An index whose fields have ids keeps them.
LEMMA ExtendsComplete ==
    ASSUME NEW m, NEW s, NEW t, NEW ix \in Indexes, Numbered(s, ix), Extends(t, s)
    PROVE  Complete(m, s, ix) = Complete(m, t, ix)
<1>1. ix \in Seq(Names)
    BY NamesAssumption
<1>2. \A i \in DOMAIN ix : s.idOf[ix[i]] = t.idOf[ix[i]]
    BY <1>1 DEF Numbered, Extends, ToSet
<1> QED  BY <1>2, SameIdsComplete

\* The entries of different indexes are different.
LEMMA OwnEntries ==
    ASSUME NEW s \in Schemas, GoodIds(s), NEW ix1 \in Indexes, NEW ix2 \in Indexes,
           Numbered(s, ix1), Numbered(s, ix2), Flds(s, ix1) = Flds(s, ix2)
    PROVE  ix1 = ix2
<1>1. /\ ix1 \in Seq(Names) /\ \A i \in DOMAIN ix1 : ix1[i] \in Names /\ s.idOf[ix1[i]] \in Nat
      /\ ix2 \in Seq(Names) /\ \A i \in DOMAIN ix2 : ix2[i] \in Names /\ s.idOf[ix2[i]] \in Nat
    BY NumberedIds
<1>2. DOMAIN ix1 = DOMAIN ix2
    BY DEF Flds
<1>3. \A i \in DOMAIN ix1 : s.idOf[ix1[i]] = s.idOf[ix2[i]]
    BY <1>2 DEF Flds
<1>4. \A i \in DOMAIN ix1 : ix1[i] = ix2[i]
    BY <1>1, <1>2, <1>3, NoneIsNoId DEF GoodIds
<1> QED  BY <1>1, <1>2, <1>4

\* A map that has the same fields of e, and all entries of the index that
\* another has, lists e if that one does.
LEMMA SameLists ==
    ASSUME NEW m, NEW r, NEW s, NEW ix, NEW e,
           \A i \in DOMAIN ix : Val(r, FieldKey(e, s.idOf[ix[i]])) = Val(m, FieldKey(e, s.idOf[ix[i]])),
           Val(m, Entry(m, s, ix, e)) # None => Val(r, Entry(m, s, ix, e)) # None,
           Lists(m, s, ix, e)
    PROVE  Lists(r, s, ix, e)
<1>1. HasAll(r, s, ix, e) = HasAll(m, s, ix, e)
    BY DEF HasAll
<1>2. [i \in DOMAIN ix |-> Val(r, FieldKey(e, s.idOf[ix[i]]))]
        = [i \in DOMAIN ix |-> Val(m, FieldKey(e, s.idOf[ix[i]]))]
    OBVIOUS
<1>3. Entry(r, s, ix, e) = Entry(m, s, ix, e)
    BY <1>2 DEF Entry
<1> QED  BY <1>1, <1>3 DEF Lists

-----------------------------------------------------------------------------
(* A call cut short.                                                       *)

\* c are the writes that a call has made when it stops, of those in l.
CutOf(c, l) ==
    /\ DOMAIN c = DOMAIN l
    /\ \A i \in DOMAIN l : c[i] \subseteq l[i]
    /\ \A i, j \in DOMAIN l : i < j /\ c[j] # {} => c[i] = l[i]

\* Wherever the writes l stop, the index is complete.
Safe(m, l, s, ix) == \A c \in Seq(Batches) : CutOf(c, l) => Complete(Replayed(m, c), s, ix)

\* At the start, at the end, and if there is nothing to write.
LEMMA SafeEnds ==
    ASSUME NEW m \in Maps, NEW l \in Seq(Batches), NEW s, NEW ix, Safe(m, l, s, ix)
    PROVE  Complete(m, s, ix) /\ Complete(Replayed(m, l), s, ix)
<1>1. CutOf(l, l)
    BY DEF CutOf
<1> DEFINE c == [i \in 1 .. Len(l) |-> {}]
<1>2. {} \in Batches
    BY DEF Batches, Distinct
<1>3. c \in Seq(Batches) /\ DOMAIN c = DOMAIN l /\ \A i \in DOMAIN l : c[i] = {}
    <2>1. Len(l) \in Nat /\ DOMAIN l = 1 .. Len(l)
        OBVIOUS
    <2> QED  BY <1>2, <2>1
<1> HIDE DEF c
<1>4. CutOf(c, l) /\ NoneLeft(c)
    BY <1>3 DEF CutOf, NoneLeft
<1>5. Replayed(m, c) = m
    BY <1>3, <1>4, MapsAreMaps, ReplayNothing
<1> QED  BY <1>1, <1>3, <1>4, <1>5 DEF Safe

LEMMA SafeNothing ==
    ASSUME NEW m \in Maps, NEW s, NEW ix, Complete(m, s, ix)
    PROVE  Safe(m, <<>>, s, ix)
<1> SUFFICES ASSUME NEW c \in Seq(Batches), CutOf(c, <<>>)  PROVE Complete(Replayed(m, c), s, ix)
    BY DEF Safe
<1>1. c = <<>>
    BY DEF CutOf
<1>2. Replayed(m, <<>>) = m
    BY MapsAreMaps, EmptyLog
<1> QED  BY <1>1, <1>2

\* After each write.
LEMMA SafeWrite ==
    ASSUME NEW m \in Maps, NEW l \in Seq(Batches), NEW s, NEW ix, Safe(m, l, s, ix),
           NEW i \in DOMAIN l, Current(l, i), NEW w \in l[i]
    PROVE  Safe(Apply(m, {w}), Without(l, i, w), s, ix)
<1> SUFFICES ASSUME NEW d \in Seq(Batches), CutOf(d, Without(l, i, w))
             PROVE  Complete(Replayed(Apply(m, {w}), d), s, ix)
    BY DEF Safe
<1> DEFINE r == Without(l, i, w)
           c == [d EXCEPT ![i] = d[i] \cup {w}]
<1>1. DOMAIN r = DOMAIN l /\ \A j \in DOMAIN l : r[j] = IF j = i THEN l[i] \ {w} ELSE l[j]
    BY DEF Without
<1>2. /\ DOMAIN d = DOMAIN l /\ \A j \in DOMAIN l : d[j] \subseteq r[j]
      /\ \A j, k \in DOMAIN l : j < k /\ d[k] # {} => d[j] = r[j]
    BY <1>1 DEF CutOf
<1>3. DOMAIN c = DOMAIN l /\ \A j \in DOMAIN l : c[j] = IF j = i THEN d[i] \cup {w} ELSE d[j]
    BY <1>2
<1>4. DOMAIN l = 1 .. Len(l) /\ Len(l) \in Nat /\ Len(d) = Len(l) /\ \A j \in DOMAIN l : l[j] \in Batches
    BY <1>2
<1>5. \A j \in DOMAIN l : c[j] \subseteq l[j]
    BY <1>1, <1>2, <1>3
<1>6. \A j \in DOMAIN l : c[j] \in Batches
    BY <1>4, <1>5 DEF Batches, Distinct
<1>7. c \in Seq(Batches)
    <2>1. c = [j \in 1 .. Len(l) |-> c[j]]
        BY <1>2, <1>4
    <2> HIDE DEF c
    <2> QED  BY <1>3, <1>4, <1>6, <2>1
<1>8. Without(c, i, w) = d
    <2>1. w \notin d[i]
        BY <1>1, <1>2
    <2>2. (d[i] \cup {w}) \ {w} = d[i]
        BY <2>1
    <2>3. DOMAIN Without(c, i, w) = DOMAIN l
        BY <1>3 DEF Without
    <2>4. \A j \in DOMAIN l : Without(c, i, w)[j] = d[j]
        BY <1>3, <2>2 DEF Without
    <2>5. Without(c, i, w) = [j \in DOMAIN l |-> Without(c, i, w)[j]]
        BY <1>3 DEF Without
    <2>6. d = [j \in DOMAIN l |-> d[j]]
        BY <1>2, <1>4
    <2> QED  BY <2>4, <2>5, <2>6
<1> HIDE DEF c, r
<1>9. Current(c, i) /\ w \in c[i] /\ i \in DOMAIN c
    BY <1>3, <1>5 DEF Current
<1>10. CutOf(c, l)
    <2>1. ASSUME NEW j \in DOMAIN l, NEW k \in DOMAIN l, j < k, c[k] # {}  PROVE c[j] = l[j]
        <3>0. i <= k /\ i \in Int /\ j \in Int /\ k \in Int
            BY <1>4, <1>5, <2>1 DEF Current
        <3>1. CASE j < i
            <4>1. l[j] = {}
                BY <1>4, <2>1, <3>0, <3>1 DEF Current
            <4> QED  BY <1>5, <4>1
        <3>2. CASE j = i
            <4>1. k # i /\ d[k] # {}
                BY <1>3, <2>1, <3>2
            <4>2. d[i] = l[i] \ {w}
                BY <1>1, <1>2, <2>1, <3>2, <4>1
            <4> QED  BY <1>3, <3>2, <4>2
        <3>3. CASE i < j
            <4>1. k # i /\ j # i
                BY <2>1, <3>0, <3>3
            <4>2. d[k] # {} /\ d[j] = r[j]
                BY <1>2, <1>3, <2>1, <4>1
            <4> QED  BY <1>1, <1>3, <4>1, <4>2
        <3> QED  BY <3>0, <3>1, <3>2, <3>3
    <2> QED  BY <1>3, <1>5, <2>1 DEF CutOf
<1>11. Replayed(Apply(m, {w}), d) = Replayed(m, c)
    BY <1>7, <1>8, <1>9, MapsAreMaps, NextWrite
<1> QED  BY <1>7, <1>10, <1>11 DEF Safe

-----------------------------------------------------------------------------
(* What the writes of a call leave in the indexes.                         *)

\* An old entry that is an index's is the one for what is stored.
LEMMA OldEntryOf ==
    ASSUME NEW m \in Maps, NEW s \in Schemas, AllNumbered(s), GoodIds(s), NEW e \in Ids,
           NEW ix \in Indexes, Numbered(s, ix), NEW F,
           NEW k \in EntriesFor(s, Stored(m, e, F), e), k.flds = Flds(s, ix)
    PROVE  /\ k = Entry(m, s, ix, e) /\ HasAll(m, s, ix, e)
           /\ \A i \in DOMAIN ix : s.idOf[ix[i]] \in StoredFields(m, e) \cap F
<1> DEFINE fv == Stored(m, e, F)
<1>1. /\ IsFields(fv) /\ DOMAIN fv = StoredFields(m, e) \cap F
      /\ \A f \in StoredFields(m, e) \cap F : fv[f] = Val(m, FieldKey(e, f))
    BY StoredIsFields
<1>2. \A f \in StoredFields(m, e) : Val(m, FieldKey(e, f)) # None
    BY StoredFacts, MapFacts
<1>3. k \in EntriesFor(s, fv, e)
    OBVIOUS
<1> HIDE DEF fv
<1>4. PICK jx \in IndexesWith(s, "ready") : k \in OldEntries(s, jx, fv, e)
    BY <1>3 DEF EntriesFor
<1>5. jx \in Indexes /\ Numbered(s, jx)
    BY <1>4 DEF IndexesWith, AllNumbered
<1>6. /\ \A i \in DOMAIN jx : s.idOf[jx[i]] \in DOMAIN fv
      /\ k = EntryOf(s, jx, fv, e)
    BY <1>1, <1>4, <1>5, OldEntriesFacts
<1>7. k.flds = Flds(s, jx)
    BY <1>6 DEF EntryOf, IndexKey, Flds
<1>8. jx = ix
    BY <1>5, <1>7, OwnEntries
<1>9. [i \in DOMAIN ix |-> fv[s.idOf[ix[i]]]] = [i \in DOMAIN ix |-> Val(m, FieldKey(e, s.idOf[ix[i]]))]
    BY <1>1, <1>6, <1>8
<1>10. k = Entry(m, s, ix, e)
    BY <1>6, <1>8, <1>9 DEF EntryOf, Entry
<1>11. HasAll(m, s, ix, e)
    BY <1>1, <1>2, <1>6, <1>8 DEF HasAll
<1> QED  BY <1>1, <1>6, <1>8, <1>10, <1>11

\* Writes of one entity leave the others as they are.
LEMMA OthersListed ==
    ASSUME NEW m \in Maps, NEW c \in Seq(Batches), NEW e \in Ids,
           \A k \in KeysOfLog(c) : k.ent = e,
           NEW s, NEW ix, NEW d \in Ids \ {e}, Lists(m, s, ix, d)
    PROVE  Lists(Replayed(m, c), s, ix, d)
<1>1. \A k : k.ent # e => Val(Replayed(m, c), k) = Val(m, k)
    BY MapsAreMaps, ReplayValues
<1>2. \A f : FieldKey(d, f).ent = d
    BY DEF FieldKey
<1>3. Entry(m, s, ix, d).ent = d
    BY DEF Entry, IndexKey
<1>4. \A f : Val(Replayed(m, c), FieldKey(d, f)) = Val(m, FieldKey(d, f))
    BY <1>1, <1>2
<1>5. Val(Replayed(m, c), Entry(m, s, ix, d)) = Val(m, Entry(m, s, ix, d))
    BY <1>1, <1>3
<1> QED  BY <1>4, <1>5, SameLists

\* Writes of index entries leave the other indexes as they are.
LEMMA OtherIndexes ==
    ASSUME NEW m \in Maps, NEW l \in Seq(Batches), KeysOfLog(l) \subseteq IndexKeys,
           NEW s \in Schemas, NEW ix \in Indexes, Numbered(s, ix), Complete(m, s, ix),
           \A k \in KeysOfLog(l) : k.flds # Flds(s, ix) \/ IsNarrow(k)
    PROVE  Complete(Replayed(m, l), s, ix)
<1>1. \A k : k \notin KeysOfLog(l) => Val(Replayed(m, l), k) = Val(m, k)
    BY MapsAreMaps, ReplayValues
<1>2. ASSUME NEW e \in Ids  PROVE Lists(Replayed(m, l), s, ix, e)
    <2>1. \A i \in DOMAIN ix : FieldKey(e, s.idOf[ix[i]]) \notin KeysOfLog(l)
        BY NumberedIds, KeyFacts
    <2>2. Entry(m, s, ix, e).flds = Flds(s, ix) /\ ~IsNarrow(Entry(m, s, ix, e))
        BY DEF Entry, IndexKey, Flds, IsNarrow
    <2>3. Entry(m, s, ix, e) \notin KeysOfLog(l)
        BY <2>2
    <2>4. Lists(m, s, ix, e)
        BY CompleteLists
    <2>5. Val(Replayed(m, l), Entry(m, s, ix, e)) = Val(m, Entry(m, s, ix, e))
        BY <1>1, <2>3
    <2>6. \A i \in DOMAIN ix : Val(Replayed(m, l), FieldKey(e, s.idOf[ix[i]])) = Val(m, FieldKey(e, s.idOf[ix[i]]))
        BY <1>1, <2>1
    <2> QED  BY <2>4, <2>5, <2>6, SameLists
<1>3. Replayed(m, l) \in Maps
    BY ReplayType
<1> QED  BY <1>2, <1>3, CompleteLists

\* What goes under the composite prefix of one-field indexes leaves every index as
\* it is, wherever it stops.
LEMMA NarrowSafe ==
    ASSUME NEW m \in Maps, NEW l \in Seq(Batches), \A k \in KeysOfLog(l) : IsNarrow(k),
           NEW s \in Schemas, NEW ix \in Indexes, Numbered(s, ix), Complete(m, s, ix)
    PROVE  Safe(m, l, s, ix) /\ Complete(Replayed(m, l), s, ix)
<1>1. ASSUME NEW c \in Seq(Batches), CutOf(c, l)  PROVE Complete(Replayed(m, c), s, ix)
    <2>1. KeysOfLog(c) \subseteq KeysOfLog(l)
        BY <1>1 DEF CutOf, KeysOfLog, KeysOfBatch
    <2>2. KeysOfLog(c) \subseteq IndexKeys /\ \A k \in KeysOfLog(c) : IsNarrow(k)
        BY <2>1 DEF IsNarrow
    <2> QED  BY <2>2, OtherIndexes
<1>2. Safe(m, l, s, ix)
    BY <1>1 DEF Safe
<1> QED  BY <1>2, SafeEnds

\* A cut of a put: its phases, and the keys that they write.
PutCutOf(c, m, s, h, e, x) ==
    /\ c \in Seq(Batches) /\ DOMAIN c = 1 .. Len(x) + 3 /\ Len(x) \in Nat /\ DOMAIN x = 1 .. Len(x)
    /\ CutOf(c, PutWrites(m, s, h, e, x))
    /\ \A j \in DOMAIN c : \A k \in KeysOfBatch(c[j]) :
         /\ k.ent = e
         /\ \/ k \in IndexKeys /\ j = 1 /\ k \in EntriesPut(s, x, e)
               /\ k \notin EntriesFor(s, OldValues(m, s, h, x, e), e)
            \/ k \in IndexKeys /\ j = Len(x) + 3 /\ k \notin EntriesPut(s, x, e)
               /\ k \in EntriesFor(s, OldValues(m, s, h, x, e), e)
            \/ k \in FieldKeys /\ j = 2
            \/ k \in FieldKeys /\ j - 2 \in DOMAIN x

LEMMA PutCuts ==
    ASSUME NEW m \in Maps, NEW s \in Schemas, AllNumbered(s), NEW h, NEW e \in Ids,
           NEW x \in Input, Numbered(s, NamesOf(x)),
           NEW c \in Seq(Batches), CutOf(c, PutWrites(m, s, h, e, x))
    PROVE  PutCutOf(c, m, s, h, e, x)
<1> DEFINE p == PutWrites(m, s, h, e, x)
           old == EntriesFor(s, OldValues(m, s, h, x, e), e)
           new == EntriesPut(s, x, e)
<1>1. PutPhases(p, s, e, x, old, new, Gone(m, s, h, e, x))
    BY PutWritesFacts
<1>2. \A j \in DOMAIN p : \A k \in KeysOfBatch(p[j]) :
        /\ k.ent = e
        /\ \/ k \in IndexKeys /\ j \in {1, Len(x) + 3}
           \/ k \in FieldKeys /\ j = 2
           \/ k \in FieldKeys /\ j - 2 \in DOMAIN x
    BY PutKeys
<1>3. Len(x) \in Nat /\ DOMAIN x = 1 .. Len(x)
    BY InputFacts
<1> HIDE DEF p, old, new
<1>4. p \in Seq(Batches) /\ Len(p) = Len(x) + 3 /\ p[1] = Puts(new \ old) /\ p[Len(x) + 3] = Deletes(old \ new)
    BY <1>1 DEF PutPhases
<1>5. DOMAIN p = 1 .. Len(x) + 3 /\ CutOf(c, p)
    BY <1>3, <1>4 DEF p
<1>6. DOMAIN c = DOMAIN p /\ \A j \in DOMAIN c : \A k \in KeysOfBatch(c[j]) : k \in KeysOfBatch(p[j])
    BY <1>5 DEF CutOf, KeysOfBatch
<1>7. KeysOfBatch(p[1]) = new \ old /\ KeysOfBatch(p[Len(x) + 3]) = old \ new
    BY <1>4, PutsAndDeletes
<1>8. ASSUME NEW j \in DOMAIN c, NEW k \in KeysOfBatch(c[j])
      PROVE  /\ k.ent = e
             /\ \/ k \in IndexKeys /\ j = 1 /\ k \in new /\ k \notin old
                \/ k \in IndexKeys /\ j = Len(x) + 3 /\ k \notin new /\ k \in old
                \/ k \in FieldKeys /\ j = 2
                \/ k \in FieldKeys /\ j - 2 \in DOMAIN x
    BY <1>2, <1>6, <1>7
<1> QED  BY <1>3, <1>5, <1>6, <1>8 DEF PutCutOf, p, old, new

\* The entries for what is put are there once the first phase is done.
LEMMA NewEntryThere ==
    ASSUME NEW m \in Maps, NEW s \in Schemas, AllNumbered(s), GoodIds(s), NEW h, NEW e \in Ids,
           NEW x \in Input, Numbered(s, NamesOf(x)), NEW ix \in Indexes, Numbered(s, ix),
           Lists(m, s, ix, e),
           NEW c, PutCutOf(c, m, s, h, e, x), c[1] = PutWrites(m, s, h, e, x)[1],
           NEW k \in EntriesPut(s, x, e), k.flds = Flds(s, ix)
    PROVE  Val(Replayed(m, c), k) # None
<1> DEFINE old == EntriesFor(s, OldValues(m, s, h, x, e), e)
           new == EntriesPut(s, x, e)
           p == PutWrites(m, s, h, e, x)
<1>1. PICK F : OldValues(m, s, h, x, e) = Stored(m, e, F)
    BY DEF OldValues
<1>2. k \in IndexKeys /\ k \notin FieldKeys
    <2>1. IsFields(Stored(m, e, F))
        BY StoredIsFields
    <2> QED  BY <2>1, EntriesType, KeyFacts
<1>3. p[1] = Puts(new \ old)
    <2>1. PutPhases(p, s, e, x, old, new, Gone(m, s, h, e, x))
        BY PutWritesFacts
    <2> HIDE DEF p, old, new
    <2> QED  BY <2>1 DEF PutPhases
<1>4. k \in new /\ c[1] = Puts(new \ old)
    BY <1>3
<1>5. \A j \in DOMAIN c : k \in KeysOfBatch(c[j]) => j = 1 /\ k \notin old
    BY <1>2 DEF PutCutOf
<1>6. c \in Seq(Batches) /\ 1 \in DOMAIN c /\ IsMap(m)
    BY MapsAreMaps DEF PutCutOf
<1>7. CASE k \in old
    <2>1. k = Entry(m, s, ix, e) /\ HasAll(m, s, ix, e)
        BY <1>1, <1>7, OldEntryOf
    <2>2. Val(m, k) # None
        BY <2>1 DEF Lists
    <2>3. k \notin KeysOfLog(c)
        BY <1>5, <1>7 DEF KeysOfLog
    <2> QED  BY <1>6, <2>2, <2>3, ReplayValues
<1>8. CASE k \notin old
    <2> DEFINE w == Write(k, Listed)
    <2>1. w \in c[1] /\ w.key = k /\ w.val = Listed
        BY <1>4, <1>8 DEF Puts, Write
    <2> HIDE DEF w
    <2>2. IsLast(c, 1, w)
        BY <1>5, <2>1 DEF IsLast
    <2>3. Val(Replayed(m, c), w.key) = w.val
        BY <1>6, <2>1, <2>2, ReplayValues
    <2> QED  BY <2>1, <2>3, ValuesAssumption
<1> QED  BY <1>7, <1>8

\* The fields that x writes.
LEMMA FieldOfInput ==
    ASSUME NEW s \in Schemas, GoodIds(s), NEW x \in Input, Numbered(s, NamesOf(x)),
           NEW n \in Names, s.idOf[n] # None
    PROVE  /\ \A q \in DOMAIN x : s.idOf[x[q].name] = s.idOf[n] => x[q].name = n
           /\ s.idOf[n] \in FieldIds(s, ToSet(NamesOf(x))) =>
                Places(x, n) # {} /\ \E q \in DOMAIN x : x[q].name = n
<1>1. /\ \A j \in DOMAIN x : x[j].name \in Names
      /\ \A k : k \in ToSet(NamesOf(x)) <=> Places(x, k) # {}
    BY InputFacts
<1>2. \A q \in DOMAIN x : s.idOf[x[q].name] = s.idOf[n] => x[q].name = n
    BY <1>1 DEF GoodIds
<1>3. ASSUME s.idOf[n] \in FieldIds(s, ToSet(NamesOf(x)))
      PROVE  Places(x, n) # {} /\ \E q \in DOMAIN x : x[q].name = n
    <2>1. PICK k \in ToSet(NamesOf(x)) : s.idOf[k] = s.idOf[n]
        BY <1>3 DEF FieldIds
    <2>2. PICK q \in DOMAIN x : x[q].name = k
        BY <1>1, <2>1 DEF Places
    <2>3. x[q].name = n
        BY <1>2, <2>1, <2>2
    <2> QED  BY <2>3 DEF Places
<1> QED  BY <1>2, <1>3

\* A put cut short keeps a single-field index complete.
LEMMA PutSafe ==
    ASSUME NEW m \in Maps, NEW s \in Schemas, AllNumbered(s), GoodIds(s), NEW h, NEW e \in Ids,
           NEW x \in Input, Numbered(s, NamesOf(x)), NEW ix \in Indexes, Len(ix) = 1,
           s.status[ix] = "ready", Complete(m, s, ix)
    PROVE  Safe(m, PutWrites(m, s, h, e, x), s, ix)
<1> DEFINE p == PutWrites(m, s, h, e, x)
           f == s.idOf[ix[1]]
           fk == FieldKey(e, f)
<1> SUFFICES ASSUME NEW c \in Seq(Batches), CutOf(c, p)  PROVE Complete(Replayed(m, c), s, ix)
    BY DEF Safe
<1> DEFINE r == Replayed(m, c)
<1>1. Numbered(s, ix) /\ ix \in IndexesWith(s, "ready")
    BY DEF AllNumbered, IndexesWith
<1>2. ix \in Seq(Names) /\ ix[1] \in Names /\ f \in Nat /\ DOMAIN ix = {1}
    <2>1. ix \in Seq(Names) /\ \A i \in DOMAIN ix : ix[i] \in Names /\ s.idOf[ix[i]] \in Nat
        BY <1>1, NumberedIds
    <2>2. DOMAIN ix = {1}
        BY <2>1
    <2> QED  BY <2>1, <2>2
<1>3. PutCutOf(c, m, s, h, e, x)
    BY PutCuts
<1>4. PutPhases(p, s, e, x, EntriesFor(s, OldValues(m, s, h, x, e), e), EntriesPut(s, x, e), Gone(m, s, h, e, x))
    BY PutWritesFacts
<1>5. \A d \in Ids : Lists(m, s, ix, d)
    BY <1>1, CompleteLists
<1>6. r \in Maps /\ IsMap(m)
    BY ReplayType, MapsAreMaps
<1> HIDE DEF p
<1>7. \A d \in Ids \ {e} : Lists(r, s, ix, d)
    <2>1. \A k \in KeysOfLog(c) : k.ent = e
        BY <1>3 DEF PutCutOf, KeysOfLog
    <2> QED  BY <1>5, <2>1, OthersListed
<1>8. fk \in FieldKeys /\ fk \notin IndexKeys
    BY <1>2, KeyFacts
<1>9. /\ DOMAIN p = DOMAIN c /\ \A j \in DOMAIN c : c[j] \subseteq p[j]
      /\ \A i, j \in DOMAIN c : i < j /\ c[j] # {} => c[i] = p[i]
      /\ DOMAIN c = 1 .. Len(x) + 3 /\ Len(x) \in Nat /\ DOMAIN x = 1 .. Len(x)
    BY <1>3 DEF PutCutOf, CutOf, p
<1> HIDE DEF r
<1>10. ASSUME HasAll(r, s, ix, e), fk \in KeysOfLog(c)
       PROVE  Val(r, Entry(r, s, ix, e)) # None
    <2>1. PICK j \in DOMAIN c : \E y \in c[j] : y.key = fk /\ IsLast(c, j, y)
        BY <1>10, LastExists
    <2>2. PICK w \in c[j] : w.key = fk /\ IsLast(c, j, w)
        BY <2>1
    <2>3. Val(r, fk) = w.val
        BY <1>6, <2>2, ReplayValues DEF r
    <2>4. w.val # None
        BY <1>2, <1>10, <2>3 DEF HasAll
    <2>5. fk \in KeysOfBatch(c[j]) /\ w \in p[j]
        BY <1>9, <2>2 DEF KeysOfBatch
    <2>6. j = 2 \/ j - 2 \in DOMAIN x
        BY <1>3, <1>8, <2>5 DEF PutCutOf
    <2>7. j # 2
        <3>1. p[2] = Deletes(KeysOfFields(e, Gone(m, s, h, e, x)))
            BY <1>4 DEF PutPhases
        <3> QED  BY <2>4, <2>5, <3>1, PutsAndDeletes
    <2> DEFINE q == j - 2
    <2>8. q \in DOMAIN x /\ q + 2 = j
        BY <1>9, <2>6, <2>7
    <2>9. w = Write(FieldKey(e, s.idOf[x[q].name]), x[q].val)
        <3> HIDE DEF q
        <3>1. p[q + 2] = {Write(FieldKey(e, s.idOf[x[q].name]), x[q].val)}
            BY <1>4, <2>8 DEF PutPhases
        <3> QED  BY <2>5, <2>8, <3>1
    <2> HIDE DEF q
    <2>10. s.idOf[x[q].name] = f /\ w.val = x[q].val
        BY <2>2, <2>9 DEF Write, FieldKey
    <2>11. x[q].name = ix[1]
        <3>1. s.idOf[ix[1]] # None
            BY <1>2, NoneIsNoId
        <3> QED  BY <1>2, <2>8, <2>10, <3>1, FieldOfInput
    <2> DEFINE k == IndexKey(s, ix, <<x[q].val>>, e)
    <2>12. k \in NewEntries(s, ix, x, e)
        BY <2>8, <2>11 DEF NewEntries, Places
    <2>13. k \in EntriesPut(s, x, e) /\ k.flds = Flds(s, ix)
        BY <1>1, <2>12 DEF EntriesPut, IndexKey, Flds
    <2>14. c[1] = p[1]
        BY <1>9, <2>2, <2>6
    <2>15. [i \in DOMAIN ix |-> Val(r, FieldKey(e, s.idOf[ix[i]]))] = <<x[q].val>>
        <3>1. \A i \in DOMAIN ix : Val(r, FieldKey(e, s.idOf[ix[i]])) = x[q].val
            BY <1>2, <2>3, <2>10
        <3>2. DOMAIN ix = 1 .. 1
            BY <1>2
        <3> QED  BY <3>1, <3>2
    <2>16. Entry(r, s, ix, e) = k
        BY <2>15 DEF Entry
    <2> HIDE DEF k
    <2>17. Val(r, k) # None
        BY <1>1, <1>3, <1>5, <2>13, <2>14, NewEntryThere DEF p, r
    <2> QED  BY <2>16, <2>17
<1>11. ASSUME HasAll(r, s, ix, e), fk \notin KeysOfLog(c)
       PROVE  Val(r, Entry(r, s, ix, e)) # None
    <2> DEFINE k == Entry(r, s, ix, e)
    <2>1. Val(r, fk) = Val(m, fk)
        BY <1>6, <1>11, ReplayValues DEF r
    <2>2. [i \in DOMAIN ix |-> Val(r, FieldKey(e, s.idOf[ix[i]]))]
            = [i \in DOMAIN ix |-> Val(m, FieldKey(e, s.idOf[ix[i]]))]
        BY <1>2, <2>1
    <2>3. k = Entry(m, s, ix, e) /\ HasAll(m, s, ix, e)
        BY <1>2, <1>11, <2>1, <2>2 DEF HasAll, Entry
    <2>4. Val(m, k) # None /\ k.flds = Flds(s, ix) /\ k.tag = "I"
        BY <1>5, <2>3 DEF Lists, Entry, IndexKey, Flds
    <2> HIDE DEF k
    <2>5. CASE k \notin KeysOfLog(c)
        BY <1>6, <2>4, <2>5, ReplayValues DEF r, k
    <2>6. CASE k \in KeysOfLog(c)
        <3>1. PICK j \in DOMAIN c : \E y \in c[j] : y.key = k /\ IsLast(c, j, y)
            BY <2>6, LastExists
        <3>2. PICK w \in c[j] : w.key = k /\ IsLast(c, j, w)
            BY <3>1
        <3>3. Val(r, k) = w.val /\ k \in KeysOfBatch(c[j]) /\ w \in p[j]
            BY <1>6, <1>9, <3>2, ReplayValues DEF r, KeysOfBatch
        <3>4. \/ j = 1
              \/ /\ j = Len(x) + 3
                 /\ k \in EntriesFor(s, OldValues(m, s, h, x, e), e)
            BY <1>3, <2>4, <3>3, KeyFacts DEF PutCutOf
        <3>5. CASE j = 1
            <4>1. p[1] = Puts(EntriesPut(s, x, e) \ EntriesFor(s, OldValues(m, s, h, x, e), e))
                BY <1>4 DEF PutPhases
            <4>2. w.val = Listed
                BY <3>3, <3>5, <4>1, PutsAndDeletes
            <4> QED  BY <3>3, <4>2, ValuesAssumption DEF k
        <3>6. CASE /\ j = Len(x) + 3
                   /\ k \in EntriesFor(s, OldValues(m, s, h, x, e), e)
            <4>1. PICK F : OldValues(m, s, h, x, e) = Stored(m, e, F)
                BY DEF OldValues
            <4>2. f \in StoredFields(m, e) \cap F
                BY <1>1, <1>2, <2>4, <3>6, <4>1, OldEntryOf
            <4>3. \A i \in 1 .. Len(x) + 2 : c[i] = p[i]
                BY <1>9, <3>2, <3>6
            <4>4. CASE f \in FieldIds(s, ToSet(NamesOf(x)))
                <5>1. PICK q \in DOMAIN x : x[q].name = ix[1]
                    BY <1>2, <4>4, FieldOfInput, NoneIsNoId
                <5>2. p[q + 2] = {Write(fk, x[q].val)}
                    BY <1>4, <5>1 DEF PutPhases
                <5>3. q + 2 \in DOMAIN c /\ c[q + 2] = p[q + 2]
                    BY <1>9, <4>3
                <5>4. fk \in KeysOfBatch(c[q + 2])
                    BY <5>2, <5>3 DEF KeysOfBatch, Write
                <5> QED  BY <1>11, <5>3, <5>4 DEF KeysOfLog
            <4>5. CASE f \notin FieldIds(s, ToSet(NamesOf(x)))
                <5>0. DOMAIN Stored(m, e, F) = StoredFields(m, e) \cap F
                    BY StoredIsFields
                <5>1. f \in Gone(m, s, h, e, x)
                    BY <4>1, <4>2, <4>5, <5>0 DEF Gone
                <5>2. fk \in KeysOfFields(e, Gone(m, s, h, e, x))
                    BY <5>1 DEF KeysOfFields
                <5>3. p[2] = Deletes(KeysOfFields(e, Gone(m, s, h, e, x)))
                    BY <1>4 DEF PutPhases
                <5>4. fk \in KeysOfBatch(p[2])
                    BY <5>2, <5>3, PutsAndDeletes
                <5>5. 2 \in DOMAIN c /\ c[2] = p[2]
                    BY <1>9, <4>3
                <5> QED  BY <1>11, <5>4, <5>5 DEF KeysOfLog
            <4> QED  BY <4>4, <4>5
        <3> QED  BY <3>4, <3>5, <3>6
    <2> QED  BY <2>5, <2>6 DEF k
<1>12. Lists(r, s, ix, e)
    BY <1>10, <1>11 DEF Lists
<1>13. Complete(r, s, ix)
    BY <1>1, <1>6, <1>7, <1>12, CompleteLists
<1> QED  BY <1>13 DEF r

\* A whole put of distinct names keeps every index complete, if the hint does
\* not leave out a field that is stored.
LEMMA PutWhole ==
    ASSUME NEW m \in Maps, NEW s \in Schemas, AllNumbered(s), GoodIds(s), NEW h, NEW e \in Ids,
           NEW x \in Input, Numbered(s, NamesOf(x)), NoRepeats(x),
           h = {} \/ StoredFields(m, e) \subseteq UNION h,
           NEW ix \in Indexes, s.status[ix] = "ready", Complete(m, s, ix)
    PROVE  Complete(Replayed(m, PutWrites(m, s, h, e, x)), s, ix)
<1> DEFINE p == PutWrites(m, s, h, e, x)
           r == Replayed(m, p)
<1>1. Numbered(s, ix) /\ ix \in IndexesWith(s, "ready")
    BY DEF AllNumbered, IndexesWith
<1>2. ix \in Seq(Names) /\ \A i \in DOMAIN ix : ix[i] \in Names /\ s.idOf[ix[i]] \in Nat
    BY <1>1, NumberedIds
<1>3. p \in Seq(Batches)
    BY PutWritesFacts DEF PutPhases
<1>4. CutOf(p, p)
    BY <1>3 DEF CutOf
<1>5. PutCutOf(p, m, s, h, e, x)
    BY <1>3, <1>4, PutCuts
<1>6. \A d \in Ids : Lists(m, s, ix, d)
    BY <1>1, CompleteLists
<1>7. /\ r \in Maps /\ ReadEntity(r, s, e) = AsEntity(x)
      /\ StoredFields(r, e) \subseteq FieldIds(s, ToSet(NamesOf(x)))
    BY PutRead
<1>8. \A d \in Ids \ {e} : Lists(r, s, ix, d)
    <2>1. \A k \in KeysOfLog(p) : k.ent = e
        BY <1>5 DEF PutCutOf, KeysOfLog
    <2> HIDE DEF p
    <2> QED  BY <1>3, <1>6, <2>1, OthersListed
<1> HIDE DEF r, p
<1>9. ASSUME HasAll(r, s, ix, e)  PROVE Val(r, Entry(r, s, ix, e)) # None
    <2> DEFINE k == Entry(r, s, ix, e)
    <2>1. ASSUME NEW i \in DOMAIN ix
          PROVE  /\ Places(x, ix[i]) # {}
                 /\ Val(r, FieldKey(e, s.idOf[ix[i]])) = x[Max(Places(x, ix[i]))].val
                 /\ Min(Places(x, ix[i])) = Max(Places(x, ix[i]))
        <3>1. s.idOf[ix[i]] \in StoredFields(r, e)
            BY <1>7, <1>9, <2>1, StoredFacts, MapFacts DEF HasAll
        <3>2. Places(x, ix[i]) # {}
            <4>1. s.idOf[ix[i]] \in FieldIds(s, ToSet(NamesOf(x))) /\ ix[i] \in Names /\ s.idOf[ix[i]] # None
                BY <1>2, <1>7, <2>1, <3>1, NoneIsNoId
            <4> QED  BY <4>1, FieldOfInput
        <3>3. ReadEntity(r, s, e)[ix[i]] = Val(r, FieldKey(e, s.idOf[ix[i]]))
            BY <1>2, <1>7, <2>1, ReadFacts
        <3>4. AsEntity(x)[ix[i]] = x[Max(Places(x, ix[i]))].val
            BY <1>2, <2>1, <3>2 DEF AsEntity
        <3> QED  BY <1>7, <3>2, <3>3, <3>4, LastPlace
    <2>2. k \in NewEntries(s, ix, x, e)
        <3>1. CASE Len(ix) = 1
            <4> DEFINE j == Max(Places(x, ix[1]))
            <4>1. DOMAIN ix = 1 .. 1
                BY <1>2, <3>1
            <4>2. Places(x, ix[1]) # {} /\ Val(r, FieldKey(e, s.idOf[ix[1]])) = x[j].val
                BY <2>1, <4>1
            <4>3. j \in Places(x, ix[1])
                BY <4>2, LastPlace DEF Places
            <4> HIDE DEF j
            <4>4. [i \in DOMAIN ix |-> Val(r, FieldKey(e, s.idOf[ix[i]]))] = <<x[j].val>>
                BY <4>1, <4>2
            <4>5. k = IndexKey(s, ix, <<x[j].val>>, e)
                BY <4>4 DEF Entry
            <4> QED  BY <3>1, <4>3, <4>5 DEF NewEntries
        <3>2. CASE Len(ix) # 1
            <4>1. [i \in DOMAIN ix |-> Val(r, FieldKey(e, s.idOf[ix[i]]))]
                    = [i \in DOMAIN ix |-> x[Min(Places(x, ix[i]))].val]
                BY <2>1
            <4>2. k = IndexKey(s, ix, [i \in DOMAIN ix |-> x[Min(Places(x, ix[i]))].val], e)
                BY <4>1 DEF Entry
            <4>3. \A i \in DOMAIN ix : Places(x, ix[i]) # {}
                BY <2>1
            <4> QED  BY <3>2, <4>2, <4>3 DEF NewEntries
        <3> QED  BY <3>1, <3>2
    <2>3. k.flds = Flds(s, ix)
        BY DEF Entry, IndexKey, Flds
    <2> HIDE DEF k
    <2>4. k \in EntriesPut(s, x, e)
        BY <1>1, <2>2 DEF EntriesPut
    <2>5. Val(r, k) # None
        BY <1>1, <1>5, <1>6, <2>3, <2>4, NewEntryThere DEF r, p
    <2> QED  BY <2>5 DEF k
<1>10. Complete(r, s, ix)
    BY <1>1, <1>7, <1>8, <1>9, CompleteLists DEF Lists
<1> QED  BY <1>10 DEF r, p

\* A deletion cut short keeps every index complete: the entries go last.
LEMMA DeleteSafe ==
    ASSUME NEW m \in Maps, NEW s \in Schemas, AllNumbered(s), NEW e \in Ids,
           NEW ix \in Indexes, Numbered(s, ix), Complete(m, s, ix)
    PROVE  Safe(m, DeleteWrites(m, s, e), s, ix)
<1> DEFINE p == DeleteWrites(m, s, e)
<1> SUFFICES ASSUME NEW c \in Seq(Batches), CutOf(c, p)  PROVE Complete(Replayed(m, c), s, ix)
    BY DEF Safe
<1> DEFINE r == Replayed(m, c)
           fk(i) == FieldKey(e, s.idOf[ix[i]])
<1>1. /\ p \in Seq(Batches) /\ DOMAIN p = {1, 2}
      /\ p[1] = Deletes(KeysOfFields(e, StoredFields(m, e)))
      /\ \A j \in DOMAIN p : \A w \in p[j] : w.val = None
    <2>1. DeletePhases(p, m, s, e)
        BY DeleteWritesFacts
    <2> HIDE DEF p
    <2>2. p \in Seq(Batches) /\ Len(p) = 2
        BY <2>1 DEF DeletePhases
    <2>3. DOMAIN p = {1, 2}
        BY <2>2
    <2> QED  BY <2>1, <2>2, <2>3, PutsAndDeletes DEF DeletePhases
<1>2. \A j \in DOMAIN p : \A k \in KeysOfBatch(p[j]) :
        k.ent = e /\ ((k \in IndexKeys /\ j = 2) \/ (k \in FieldKeys /\ j = 1))
    BY DeleteKeys
<1> HIDE DEF p
<1>3. /\ DOMAIN c = {1, 2} /\ c[1] \subseteq p[1] /\ c[2] \subseteq p[2]
      /\ c[2] # {} => c[1] = p[1]
    BY <1>1 DEF CutOf
<1>4. \A j \in DOMAIN c : \A k \in KeysOfBatch(c[j]) :
        k.ent = e /\ ((k \in IndexKeys /\ j = 2) \/ (k \in FieldKeys /\ j = 1))
    BY <1>1, <1>2, <1>3 DEF KeysOfBatch
<1>5. r \in Maps /\ IsMap(m) /\ \A d \in Ids : Lists(m, s, ix, d)
    BY ReplayType, MapsAreMaps, CompleteLists
<1>6. \A d \in Ids \ {e} : Lists(r, s, ix, d)
    <2>1. \A k \in KeysOfLog(c) : k.ent = e
        BY <1>4 DEF KeysOfLog
    <2> QED  BY <1>5, <2>1, OthersListed
<1>7. \A k \in KeysOfLog(c) : Val(r, k) = None
    <2> SUFFICES ASSUME NEW k \in KeysOfLog(c)  PROVE Val(r, k) = None
        OBVIOUS
    <2>1. PICK j \in DOMAIN c : \E y \in c[j] : y.key = k /\ IsLast(c, j, y)
        BY LastExists
    <2>2. PICK w \in c[j] : w.key = k /\ IsLast(c, j, w)
        BY <2>1
    <2>3. w.val = None
        BY <1>1, <1>3
    <2> QED  BY <1>5, <2>2, <2>3, ReplayValues
<1>8. \A k : k \notin KeysOfLog(c) => Val(r, k) = Val(m, k)
    BY <1>5, ReplayValues
<1> HIDE DEF r
<1>9. ASSUME HasAll(r, s, ix, e)  PROVE Lists(r, s, ix, e)
    <2>1. \A i \in DOMAIN ix : Val(r, fk(i)) # None
        BY <1>9 DEF HasAll
    <2>2. \A i \in DOMAIN ix : fk(i) \notin KeysOfLog(c) /\ Val(r, fk(i)) = Val(m, fk(i))
        BY <1>7, <1>8, <2>1
    <2>3. c[2] = {}
        <3>1. 1 \in DOMAIN ix
            <4>1. ix \in Seq(Names) /\ ix # <<>>
                BY NumberedIds
            <4> QED  BY <4>1
        <3>2. s.idOf[ix[1]] \in StoredFields(m, e)
            BY <2>1, <2>2, <3>1, StoredFacts, MapFacts
        <3>3. fk(1) \in KeysOfFields(e, StoredFields(m, e))
            BY <3>2 DEF KeysOfFields
        <3>4. fk(1) \in KeysOfBatch(p[1])
            BY <1>1, <3>3, PutsAndDeletes
        <3>5. c[1] # p[1]
            BY <1>3, <2>2, <3>1, <3>4 DEF KeysOfLog
        <3> QED  BY <1>3, <3>5
    <2>4. Entry(m, s, ix, e) \notin KeysOfLog(c)
        <3>1. Entry(m, s, ix, e).tag = "I"
            BY DEF Entry, IndexKey
        <3>2. \A j \in DOMAIN c : Entry(m, s, ix, e) \notin KeysOfBatch(c[j])
            BY <1>3, <1>4, <2>3, <3>1, KeyFacts DEF KeysOfBatch
        <3> QED  BY <3>2 DEF KeysOfLog
    <2>5. Val(r, Entry(m, s, ix, e)) = Val(m, Entry(m, s, ix, e))
        BY <1>8, <2>4
    <2>6. Lists(m, s, ix, e)
        BY <1>5
    <2> QED  BY <2>2, <2>5, <2>6, SameLists
<1>10. Complete(r, s, ix)
    BY <1>5, <1>6, <1>9, CompleteLists DEF Lists
<1> QED  BY <1>10 DEF r

\* An index build leaves the index complete.
LEMMA RebuildWhole ==
    ASSUME NEW m \in Maps, NEW s \in Schemas, NEW ix \in Indexes, Numbered(s, ix)
    PROVE  Complete(Replayed(m, RebuildWrites(m, s, ix)), s, ix)
<1> DEFINE p == RebuildWrites(m, s, ix)
           r == Replayed(m, p)
<1>1. /\ p \in Seq(Batches) /\ KeysOfLog(p) \subseteq IndexKeys
      /\ DOMAIN p = 1 .. 2 /\ p[2] = Puts(RightEntries(m, s, ix))
    <2>1. p \in Seq(Batches) /\ KeysOfLog(p) \subseteq IndexKeys
        BY RebuildWritesFacts, IndexPhases
    <2> QED  BY <2>1 DEF RebuildWrites
<1> HIDE DEF p
<1>2. r \in Maps /\ IsMap(m)
    BY <1>1, ReplayType, MapsAreMaps
<1>3. ASSUME NEW e \in Ids, HasAll(r, s, ix, e)  PROVE Val(r, Entry(r, s, ix, e)) # None
    <2>1. \A i \in DOMAIN ix : Val(r, FieldKey(e, s.idOf[ix[i]])) = Val(m, FieldKey(e, s.idOf[ix[i]]))
        <3>1. \A i \in DOMAIN ix : FieldKey(e, s.idOf[ix[i]]) \notin KeysOfLog(p)
            BY <1>1, NumberedIds, KeyFacts
        <3> QED  BY <1>1, <1>2, <3>1, ReplayValues
    <2>2. HasAll(m, s, ix, e)
        BY <1>3, <2>1 DEF HasAll
    <2>3. [i \in DOMAIN ix |-> Val(r, FieldKey(e, s.idOf[ix[i]]))]
            = [i \in DOMAIN ix |-> Val(m, FieldKey(e, s.idOf[ix[i]]))]
        BY <2>1
    <2> DEFINE k == Entry(m, s, ix, e)
    <2>4. Entry(r, s, ix, e) = k
        BY <2>3 DEF Entry
    <2>5. k \in RightEntries(m, s, ix)
        BY <2>2, CompleteLists DEF RightEntries
    <2> DEFINE w == Write(k, Listed)
    <2>6. w \in p[2] /\ w.key = k /\ w.val = Listed
        BY <1>1, <2>5 DEF Puts, Write
    <2> HIDE DEF w, k, r
    <2>7. 2 \in DOMAIN p /\ IsLast(p, 2, w)
        BY <1>1, <2>6 DEF IsLast
    <2>8. Val(r, w.key) = w.val
        BY <1>1, <1>2, <2>6, <2>7, ReplayValues DEF r
    <2> QED  BY <2>4, <2>6, <2>8, ValuesAssumption
<1> HIDE DEF r
<1>4. Complete(r, s, ix)
    BY <1>2, <1>3, CompleteLists DEF Lists
<1> QED  BY <1>4 DEF r, p

\* Building or removing an index leaves the others complete.
LEMMA OthersComplete ==
    ASSUME NEW m \in Maps, NEW s \in Schemas, GoodIds(s), NEW jx \in Indexes, Numbered(s, jx),
           NEW ix \in Indexes, ix # jx, Numbered(s, ix), Complete(m, s, ix)
    PROVE  /\ Complete(Replayed(m, RebuildWrites(m, s, jx)), s, ix)
           /\ Complete(Replayed(m, <<Deletes(EntriesOf(m, s, jx))>>), s, ix)
<1> DEFINE D == Deletes(EntriesOf(m, s, jx))
           P == Puts(RightEntries(m, s, jx))
<1>1. Flds(s, ix) # Flds(s, jx)
    BY OwnEntries
<1>2. /\ \A k \in KeysOfBatch(D) : k \in IndexKeys /\ k.flds = Flds(s, jx)
      /\ \A k \in KeysOfBatch(P) : k \in IndexKeys /\ k.flds = Flds(s, jx)
    <2>1. /\ \A k \in EntriesOf(m, s, jx) : k \in IndexKeys /\ k.flds = Flds(s, jx)
          /\ \A k \in RightEntries(m, s, jx) : k \in IndexKeys /\ k.flds = Flds(s, jx)
        <3>1. /\ EntriesOf(m, s, jx) \subseteq IndexKeys /\ RightEntries(m, s, jx) \subseteq IndexKeys
              /\ \A k \in RightEntries(m, s, jx) : k.flds = [i \in DOMAIN jx |-> s.idOf[jx[i]]]
            BY RebuildWritesFacts
        <3> QED  BY <3>1 DEF EntriesOf, Flds
    <2> QED  BY <2>1, PutsAndDeletes
<1>3. RebuildWrites(m, s, jx) = <<D, P>> /\ <<D, P>> \in Seq(Batches) /\ <<D>> \in Seq(Batches)
    BY RebuildWritesFacts DEF RebuildWrites
<1> HIDE DEF D, P
<1>4. KeysOfLog(<<D>>) = KeysOfBatch(D) /\ KeysOfLog(<<D, P>>) = KeysOfBatch(D) \cup KeysOfBatch(P)
    BY DEF KeysOfLog
<1>5. ASSUME NEW l, l \in {<<D>>, <<D, P>>}  PROVE Complete(Replayed(m, l), s, ix)
    <2>1. l \in Seq(Batches)
        BY <1>3, <1>5
    <2>2. KeysOfLog(l) \subseteq KeysOfBatch(D) \cup KeysOfBatch(P)
        BY <1>4, <1>5
    <2>3. KeysOfLog(l) \subseteq IndexKeys /\ \A k \in KeysOfLog(l) : k.flds # Flds(s, ix)
        BY <1>1, <1>2, <2>2
    <2> QED  BY <2>1, <2>3, OtherIndexes
<1>6. Complete(Replayed(m, <<D>>), s, ix) /\ Complete(Replayed(m, <<D, P>>), s, ix)
    BY <1>5
<1> QED  BY <1>3, <1>6 DEF D

-----------------------------------------------------------------------------
(* The indexes that find accepts list every entity.                        *)

SingleField == \A ix \in Indexes : Len(ix) = 1

\* No index is created or dropped, but for a READY one-field index that
\* create_composite_index is asked for again; no put leaves a composite index half
\* written, and no error or crash leaves new tables beside the log they were
\* made of.
Stable ==
    /\ Calls \cap {"create", "recreate", "drop", "narrow_create", "narrow_drop"} = {}
    /\ Faults = {}
    /\ "truncate" \notin CrashAt
    /\ SingleField \/ Calls \cap {"put", "cas"} = {}

\* No one-field index is first created by create_composite_index, which leaves out
\* the entities that are there.  A composite index needs entities without repeated
\* names, put without errors and from true hints; no creation or drop of an index
\* fails; and there is no crash, or only in the creation of the one index, or the
\* indexes are stable.
Findable ==
    /\ "narrow_create" \notin Calls
    /\ SingleField \/ (SchemaFirst /\ \A x \in Inputs : NoRepeats(x))
    /\ Faults \cap {"create", "drop", "narrow_drop"} = {}
    /\ \/ CrashAt = {}
       \/ /\ CrashAt \subseteq {"create"}
          /\ "recreate" \notin Calls
          /\ \A ix1, ix2 \in Indexes : ix1 = ix2
       \/ Stable

\* The store is making the writes of op.
Under(op) == Busy /\ job.op = op

\* An index that is to be complete once the writes left are made.
Held(ix) ==
    /\ schema.status[ix] = "ready" \/ (Under("create") /\ job.ix = ix)
    /\ ~(Under("drop") /\ job.ix = ix)

\* Calls whose writes may stop anywhere.
Cuttable(ix) ==
    \/ job.op \in {"delete", "narrow_create", "narrow_drop"}
    \/ job.op \in {"put", "cas"} /\ Len(ix) = 1

\* A transaction may be given up, and its writes with it.
InTx == pc = "tx" \/ (pc = "persist" /\ job.op = "commit")

\* It will be complete; it is wherever the writes stop; and without those pending.
Sound(ix) ==
    /\ Complete(Final, schema, ix)
    /\ Cuttable(ix) => Safe(View, job.todo, schema, ix)
    /\ InTx => Complete(Kv, schema, ix)
Found == pc # "down" => \A ix \in Indexes : Held(ix) => Sound(ix)

\* An index is being built only by its creation, or after a crash; the file
\* says the same but while it is saved.
Built ==
    /\ job.op = "create" => job.after \in {"write", job.back}
    /\ job.back = "recover" => pc \notin {"idle", "tx"}
    /\ pc \notin {"down", "recover"} /\ job.back # "recover" =>
          IndexesWith(schema, "building") \subseteq (IF Under("create") THEN {job.ix} ELSE {})
    /\ pc # "down" /\ ~(pc = "persist" /\ job.op \in {"create", "drop", "narrow_drop"})
          => saved.status = schema.status
    /\ Under("narrow_create") => schema.status[job.ix] = "ready"
    /\ "recreate" \notin Calls /\ Under("create") => schema.status[job.ix] = "building"

\* A closed store has its indexes complete.
Closed == pc = "down" => \A ix \in IndexesWith(saved, "ready") : Complete(Kv, saved, ix)

\* What is true of the entities, if every put keeps SCHEMA first.
Truth == SchemaFirst => Truthful

\* The fields of such an index have ids.
LEMMA HeldNumbered ==
    ASSUME TInv
    PROVE  /\ \A ix \in Indexes : Held(ix) => Numbered(schema, ix)
           /\ \A ix \in Indexes : schema.status[ix] # "none" => Numbered(schema, ix)
           /\ \A ix \in Indexes : saved.status[ix] # "none" => Numbered(saved, ix)
<1>1. AllNumbered(schema) /\ AllNumbered(saved) /\ (job.op = "create" => Numbered(schema, job.ix))
    BY DEF TInv, SchemaType, JobType
<1> QED  BY <1>1 DEF Held, Under, AllNumbered

\* Between calls and in transactions: the indexes are those that are READY.
LEMMA HeldReady ==
    ASSUME pc \in {"idle", "tx", "recover", "block", "sync"} \/ job.op \notin {"create", "drop"}
    PROVE  \A ix : Held(ix) <=> schema.status[ix] = "ready"
BY DEF Held, Under, Busy

\* A put's writes, in the map m, of an entity in an index that is complete.
LEMMA PutSound ==
    ASSUME Findable, TInv, NEW m \in Maps, NEW e \in Ids, NEW x \in Input,
           SingleField \/ NoRepeats(x),
           NEW s, s = Allot(schema, NamesOf(x)),
           NEW h, SchemaFirst => h = {} \/ StoredFields(m, e) \subseteq UNION h,
           NEW ix \in Indexes, schema.status[ix] = "ready", Complete(m, schema, ix)
    PROVE  /\ Complete(Replayed(m, PutWrites(m, s, h, e, x)), s, ix)
           /\ Len(ix) = 1 => Safe(m, PutWrites(m, s, h, e, x), s, ix)
           /\ PutWrites(m, s, h, e, x) \in Seq(Batches)
<1>1. SchemaType /\ NamesOf(x) \in Seq(Names)
    BY InputFacts DEF TInv
<1>2. /\ s \in Schemas /\ AllNumbered(s) /\ GoodIds(s) /\ Extends(s, schema)
      /\ Numbered(s, NamesOf(x)) /\ s.status = schema.status
    BY <1>1, NewSchema
<1>3. Numbered(schema, ix)
    BY HeldNumbered
<1>4. Complete(m, s, ix)
    BY <1>2, <1>3, ExtendsComplete
<1>5. PutWrites(m, s, h, e, x) \in Seq(Batches)
    BY <1>2, PutWritesFacts, PutTypes DEF PutPhases
<1>6. Len(ix) = 1 => Safe(m, PutWrites(m, s, h, e, x), s, ix)
    BY <1>2, <1>4, PutSafe
<1>7. CASE Len(ix) = 1
    BY <1>5, <1>6, <1>7, SafeEnds
<1>8. CASE Len(ix) # 1
    <2>1. SchemaFirst /\ NoRepeats(x)
        BY <1>8 DEF Findable, SingleField
    <2>2. h = {} \/ StoredFields(m, e) \subseteq UNION h
        BY <2>1
    <2>3. Complete(Replayed(m, PutWrites(m, s, h, e, x)), s, ix)
        BY <1>2, <1>4, <2>1, <2>2, PutWhole
    <2> QED  BY <1>5, <1>8, <2>3
<1> QED  BY <1>7, <1>8

\* New names change nothing in an index whose fields have ids.
LEMMA GrowComplete ==
    ASSUME TInv, NEW m, NEW ns \in Seq(Names), NEW ix \in Indexes, Numbered(schema, ix)
    PROVE  Complete(m, Allot(schema, ns), ix) = Complete(m, schema, ix)
<1>1. SchemaType
    BY DEF TInv
<1>2. Extends(Allot(schema, ns), schema)
    BY <1>1, NewSchema
<1> QED  BY <1>2, ExtendsComplete

\* The start of a call.
LEMMA StartFound ==
    ASSUME Findable, TInv, Control, Truth, Found
    PROVE  /\ \A e \in Ids, x \in Inputs : PutEntity(e, x) => Found'
           /\ \A e \in Ids, u \in Updates : CasUpdate(e, u) => Found'
           /\ \A e \in Ids : DeleteEntity(e) => Found'
           /\ \A ix \in Indexes : CreateIndex(ix) \/ RecoverIndex(ix) \/ DropIndex(ix) => Found'
           /\ \A ix \in Indexes : NarrowCreateIndex(ix) \/ NarrowDropIndex(ix) => Found'
           /\ Flush \/ Close \/ Begin \/ StartCommit => Found'
<1>1. /\ EngineType /\ SchemaType /\ JobType /\ Kv \in Maps /\ View \in Maps
      /\ schema \in Schemas /\ AllNumbered(schema) /\ GoodIds(schema)
    BY Settled DEF TInv, SchemaType
<1>2. ASSUME pc \in {"idle", "recover"}
      PROVE  \A ix \in Indexes : schema.status[ix] = "ready" => Complete(Kv, schema, ix)
    BY <1>2, HeldReady, Settled DEF Found, Sound
<1>3. ASSUME NEW e \in Ids, NEW x \in Input, SingleField \/ NoRepeats(x),
             schema' = Allot(schema, NamesOf(x)),
             job'.todo = PutWrites(Kv, schema', hint[e], e, x), job'.op \in {"put", "cas"},
             pc = "idle", pc' = "write", UNCHANGED <<base, log, pending>>
      PROVE  Found'
    <2>1. SchemaFirst => hint[e] = {} \/ StoredFields(Kv, e) \subseteq UNION hint[e]
        BY <1>3 DEF Truth, Truthful, Hints, InWrite
    <2> DEFINE h == hint[e]
               l == PutWrites(Kv, schema', h, e, x)
    <2>2. SchemaFirst => h = {} \/ StoredFields(Kv, e) \subseteq UNION h
        BY <2>1
    <2>3. job'.todo = l
        BY <1>3
    <2> HIDE DEF h
    <2>4. Kv' = Kv /\ View' = Kv /\ Final' = Replayed(Kv, job'.todo)
        BY <1>3, StartingFinal
    <2>5. NamesOf(x) \in Seq(Names)
        BY InputFacts
    <2>6. schema'.status = schema.status
        BY <1>1, <1>3, <2>5, NewSchema
    <2>7. ASSUME NEW ix \in Indexes, Held(ix)'  PROVE Sound(ix)'
        <3>1. schema'.status[ix] = "ready"
            BY <1>3, <2>7 DEF Held, Under
        <3>2. schema.status[ix] = "ready" /\ Complete(Kv, schema, ix)
            BY <1>2, <1>3, <2>6, <3>1
        <3>3. schema' = Allot(schema, NamesOf(x)) /\ (SingleField \/ NoRepeats(x))
            BY <1>3
        <3>4. Complete(Replayed(Kv, l), schema', ix) /\ (Len(ix) = 1 => Safe(Kv, l, schema', ix))
            BY <1>1, <2>2, <3>2, <3>3, PutSound
        <3>5. ~InTx' /\ (Cuttable(ix)' => Len(ix) = 1)
            BY <1>3 DEF InTx, Cuttable
        <3> HIDE DEF l
        <3>6. Complete(Final', schema', ix) /\ (Cuttable(ix)' => Safe(View', job'.todo, schema', ix))
            BY <2>3, <2>4, <3>4, <3>5
        <3> QED  BY <3>5, <3>6 DEF Sound
    <2> QED  BY <2>7 DEF Found
<1>4. ASSUME NEW e \in Ids, NEW x \in Inputs, PutEntity(e, x)  PROVE Found'
    <2>1. job'.op = "put" /\ job'.todo = PutWrites(Kv, schema', hint[e], e, x)
        BY <1>4 DEF PutEntity, NoJob
    <2>2. /\ pc = "idle" /\ pc' = "write" /\ UNCHANGED <<base, log, pending>>
          /\ schema' = Allot(schema, NamesOf(x))
        BY <1>4 DEF PutEntity, Called, engine
    <2>3. x \in Input /\ (SingleField \/ NoRepeats(x))
        BY InputNames DEF Findable
    <2> QED  BY <1>3, <2>1, <2>2, <2>3
<1>5. ASSUME NEW e \in Ids, NEW u \in Updates, CasUpdate(e, u)  PROVE Found'
    <2> DEFINE q == Patched(Kv, schema, e, u)
               p == AsInput(q)
    <2>1. q \in Entity
        BY <1>1, PatchedType
    <2>2. job'.op = "cas" /\ job'.todo = PutWrites(Kv, schema', hint[e], e, p)
        BY <1>5 DEF CasUpdate, NoJob
    <2>3. /\ pc = "idle" /\ pc' = "write" /\ UNCHANGED <<base, log, pending>>
          /\ schema' = Allot(schema, NamesOf(p))
        BY <1>5 DEF CasUpdate, Called, engine
    <2> HIDE DEF q
    <2>4. p \in Input /\ NoRepeats(p)
        BY <2>1, InputNames
    <2> HIDE DEF p
    <2> QED  BY <1>3, <2>2, <2>3, <2>4
<1>6. ASSUME pc \in {"idle", "recover"}, UNCHANGED <<base, log, pending>>,
             job'.op \in {"delete", "create", "drop", "narrow_create", "narrow_drop"},
             pc' \in {"write", "persist"},
             \A ix \in Indexes : Held(ix)' =>
                /\ Complete(Replayed(Kv, job'.todo), schema', ix)
                /\ job'.op \notin {"create", "drop"} => Safe(Kv, job'.todo, schema', ix)
      PROVE  Found'
    <2>1. View' = Kv /\ Final' = Replayed(Kv, job'.todo)
        BY <1>6, StartingFinal
    <2>2. ~InTx' /\ \A ix \in Indexes : Cuttable(ix)' => job'.op \notin {"create", "drop"}
        BY <1>6 DEF InTx, Cuttable
    <2> QED  BY <1>6, <2>1, <2>2 DEF Found, Sound
<1>7. ASSUME NEW e \in Ids, DeleteEntity(e)  PROVE Found'
    <2> DEFINE l == DeleteWrites(Kv, schema, e)
    <2>1. job'.op = "delete" /\ job'.todo = l
        BY <1>7 DEF DeleteEntity, NoJob
    <2>2. pc = "idle" /\ pc' = "write" /\ UNCHANGED <<base, log, pending, schema>>
        BY <1>7 DEF DeleteEntity, Called, engine
    <2>3. l \in Seq(Batches)
        BY <1>1, DeleteWritesFacts DEF DeletePhases
    <2>4. ASSUME NEW ix \in Indexes, Held(ix)'
          PROVE  Safe(Kv, l, schema, ix) /\ Complete(Replayed(Kv, l), schema, ix)
        <3>1. schema.status[ix] = "ready"
            BY <2>1, <2>2, <2>4 DEF Held, Under
        <3>2. Complete(Kv, schema, ix) /\ Numbered(schema, ix)
            BY <1>2, <2>2, <3>1, HeldNumbered
        <3>3. Safe(Kv, l, schema, ix)
            BY <1>1, <3>2, DeleteSafe
        <3> HIDE DEF l
        <3> QED  BY <1>1, <2>3, <3>3, SafeEnds
    <2> HIDE DEF l
    <2> QED  BY <1>6, <2>1, <2>2, <2>4
<1>8. ASSUME NEW jx \in Indexes, CreateIndex(jx) \/ RecoverIndex(jx)  PROVE Found'
    <2>1. PICK to : StartCreate(jx, to)
        BY <1>8 DEF CreateIndex, RecoverIndex
    <2>2. schema' = Registered(schema, jx) /\ pc' = "persist" /\ job'.op = "create"
          /\ job'.todo = RebuildWrites(Kv, schema', jx) /\ job'.ix = jx
        BY <2>1 DEF StartCreate, NoJob
    <2>3. pc \in {"idle", "recover"} /\ UNCHANGED <<base, log, pending>>
        BY <1>8 DEF CreateIndex, RecoverIndex, Called, engine
    <2>4. /\ schema' \in Schemas /\ GoodIds(schema') /\ Numbered(schema', jx) /\ Extends(schema', schema)
          /\ schema'.status = IF schema.status[jx] = "none"
                              THEN [schema.status EXCEPT ![jx] = "building"] ELSE schema.status
        BY <1>1, <2>2, RegisteredType
    <2>5. ASSUME NEW ix \in Indexes, Held(ix)'
          PROVE  Complete(Replayed(Kv, RebuildWrites(Kv, schema', jx)), schema', ix)
        <3>1. CASE ix = jx
            BY <1>1, <2>4, <3>1, RebuildWhole
        <3>2. CASE ix # jx
            <4>1. schema'.status[ix] = "ready"
                BY <2>2, <2>5, <3>2 DEF Held, Under
            <4>2. schema.status \in [Indexes -> Statuses]
                BY <1>1 DEF Schemas
            <4>3. schema.status[ix] = "ready"
                BY <2>4, <3>2, <4>1, <4>2
            <4>4. Complete(Kv, schema, ix) /\ Numbered(schema, ix)
                BY <1>2, <2>3, <4>3, HeldNumbered
            <4>5. Complete(Kv, schema', ix)
                BY <2>4, <4>4, ExtendsComplete
            <4>6. Numbered(schema', ix)
                <5>1. ToSet(ix) \subseteq Names
                    BY NamesAssumption DEF ToSet
                <5> QED  BY <2>4, <4>4, <5>1 DEF Numbered, Extends
            <4> QED  BY <1>1, <2>4, <3>2, <4>5, <4>6, OthersComplete
        <3> QED  BY <3>1, <3>2
    <2> QED  BY <1>6, <2>2, <2>3, <2>5
<1>9. ASSUME NEW jx \in Indexes, DropIndex(jx)  PROVE Found'
    <2>1. job'.op = "drop" /\ job'.ix = jx /\ job'.todo = <<Deletes(EntriesOf(Kv, schema, jx))>>
        BY <1>9 DEF DropIndex, NoJob
    <2>2. pc = "idle" /\ pc' = "write" /\ UNCHANGED <<base, log, pending, schema>> /\ schema.status[jx] # "none"
        BY <1>9 DEF DropIndex, Called, engine
    <2>3. ASSUME NEW ix \in Indexes, Held(ix)'
          PROVE  Complete(Replayed(Kv, <<Deletes(EntriesOf(Kv, schema, jx))>>), schema, ix)
        <3>1. ix # jx /\ schema.status[ix] = "ready"
            BY <2>1, <2>2, <2>3 DEF Held, Under, Busy
        <3>2. Complete(Kv, schema, ix) /\ Numbered(schema, ix) /\ Numbered(schema, jx)
            BY <1>2, <2>2, <3>1, HeldNumbered
        <3> QED  BY <1>1, <3>1, <3>2, OthersComplete
    <2> QED  BY <1>6, <2>1, <2>2, <2>3
<1>10. ASSUME Flush \/ Close \/ Begin \/ StartCommit  PROVE Found'
    <2>1. pc \in {"idle", "tx"} /\ UNCHANGED <<base, log, schema, pending>>
        BY <1>10 DEF Flush, Close, Begin, StartCommit, Called, engine
    <2>2. job'.op \in {"none", "flush", "close", "commit"} /\ job'.todo = <<>>
        BY <1>10, IdleJobs
    <2>3. Kv' = Kv /\ View' = View /\ job.todo = <<>>
        BY <2>1 DEF Kv, View, Control, WorkLeft, Busy
    <2>4. Final' = Final
        BY <2>2, <2>3 DEF Final
    <2>5. ASSUME NEW ix \in Indexes, Held(ix)'  PROVE Sound(ix)'
        <3>1. schema.status[ix] = "ready"
            BY <2>1, <2>2, <2>5 DEF Held, Under
        <3>2. Sound(ix)
            BY <2>1, <3>1, HeldReady DEF Found
        <3>3. Complete(Kv, schema, ix)
            <4>1. pc = "idle" => Final = Kv
                BY Settled
            <4> QED  BY <2>1, <3>2, <4>1 DEF Sound, InTx
        <3>4. ~Cuttable(ix)'
            BY <2>2 DEF Cuttable
        <3> QED  BY <2>1, <2>3, <2>4, <3>2, <3>3, <3>4 DEF Sound
    <2> QED  BY <2>5 DEF Found
<1>11. ASSUME NEW jx \in Indexes, NarrowCreateIndex(jx) \/ NarrowDropIndex(jx)  PROVE Found'
    <2>1. /\ pc = "idle" /\ pc' \in {"write", "persist"} /\ UNCHANGED <<base, log, pending>>
          /\ job'.op \in {"narrow_create", "narrow_drop"} /\ job'.todo \in Seq(Batches)
          /\ schema' = schema \/ (schema' = Registered(schema, jx) /\ schema.status[jx] # "none")
        BY <1>11, NarrowStarts DEF Findable
    <2>2. \A k \in KeysOfLog(job'.todo) : IsNarrow(k)
        BY <1>11, NarrowStarts
    <2>3. schema' \in Schemas /\ Extends(schema', schema) /\ schema'.status = schema.status
          /\ AllNumbered(schema')
        <3>1. CASE schema' = schema
            BY <1>1, <3>1 DEF Extends
        <3>2. CASE schema' = Registered(schema, jx) /\ schema.status[jx] # "none"
            BY <1>1, <3>2, RegisteredType
        <3> QED  BY <2>1, <3>1, <3>2
    <2>4. ASSUME NEW ix \in Indexes, Held(ix)'
          PROVE  Safe(Kv, job'.todo, schema', ix) /\ Complete(Replayed(Kv, job'.todo), schema', ix)
        <3>1. schema.status[ix] = "ready" /\ Numbered(schema', ix)
            BY <2>1, <2>3, <2>4 DEF Held, Under, AllNumbered
        <3>2. Complete(Kv, schema, ix) /\ Numbered(schema, ix)
            BY <1>2, <2>1, <3>1, HeldNumbered
        <3>3. Complete(Kv, schema', ix)
            BY <2>3, <3>2, ExtendsComplete
        <3> QED  BY <1>1, <2>1, <2>2, <2>3, <3>1, <3>3, NarrowSafe
    <2> QED  BY <1>6, <2>1, <2>4
<1> QED  BY <1>4, <1>5, <1>7, <1>8, <1>9, <1>10, <1>11

\* The writes of a call, its end, and its failure.
LEMMA WorkFound ==
    ASSUME Findable, TInv, Control, Truth, Found, Built, TInv', Control'
    PROVE  /\ WriteOne \/ SaveTables \/ Truncate \/ Persist => Found'
           /\ PutDone \/ DeleteDone \/ IndexDone => Found'
           /\ \A step \in {"write", "save", "truncate", "persist"} : CallFails(step) => Found'
           /\ CommitFails => Found'
<1>1. /\ EngineType /\ SchemaType /\ JobType /\ Kv \in Maps /\ View \in Maps
      /\ schema \in Schemas /\ job.todo \in Seq(Batches)
    BY Settled DEF TInv, SchemaType, JobType, Jobs
<1>2. ASSUME WriteOne  PROVE Found'
    <2>1. PICK i \in DOMAIN job.todo : \E w \in job.todo[i] :
            /\ Current(job.todo, i)
            /\ job'.todo = Without(job.todo, i, w) /\ job'.op = job.op /\ job'.ix = job.ix
            /\ Kv' = Apply(Kv, {w}) /\ View' = Kv' /\ View = Kv /\ Final' = Final
        BY <1>2, WriteKeepsFinal
    <2>2. PICK w \in job.todo[i] :
            /\ Current(job.todo, i)
            /\ job'.todo = Without(job.todo, i, w) /\ job'.op = job.op /\ job'.ix = job.ix
            /\ Kv' = Apply(Kv, {w}) /\ View' = Kv' /\ View = Kv /\ Final' = Final
        BY <2>1
    <2>3. pc = "write" /\ pc' \in {"write", "save"} /\ UNCHANGED schema
        BY <1>2 DEF WriteOne
    <2>4. ASSUME NEW ix \in Indexes, Held(ix)'  PROVE Sound(ix)'
        <3>1. Sound(ix)
            BY <2>2, <2>3, <2>4 DEF Held, Under, Busy, Found
        <3>2. ASSUME Cuttable(ix)  PROVE Safe(View', job'.todo, schema, ix)
            <4>1. Safe(Kv, job.todo, schema, ix)
                BY <2>2, <3>1, <3>2 DEF Sound
            <4>2. Safe(Apply(Kv, {w}), Without(job.todo, i, w), schema, ix)
                BY <1>1, <2>2, <4>1, SafeWrite
            <4> QED  BY <2>2, <4>2
        <3>3. Cuttable(ix)' = Cuttable(ix) /\ ~InTx'
            BY <2>2, <2>3 DEF Cuttable, InTx
        <3> QED  BY <2>2, <2>3, <3>1, <3>2, <3>3 DEF Sound
    <2> QED  BY <2>4 DEF Found
<1>3. ASSUME SaveTables \/ Truncate \/ Persist  PROVE Found'
    <2>1. Kv' = Kv /\ View' = View /\ Final' = Final
        BY <1>3, MovesKeepMap
    <2>2. UNCHANGED <<schema, job>> /\ pc # "down"
        BY <1>3 DEF SaveTables, Truncate, Persist
    <2>3. (\A ix \in Indexes : Held(ix)' => Held(ix)) /\ ~InTx'
        <3>1. SaveTables => pc = "save" /\ pc' = "truncate"
            BY DEF SaveTables
        <3>2. Truncate => /\ pc = "truncate" /\ pc' \in {"write", job.back}
                          /\ (job.op \in {"create", "drop"} => pc' = "write")
            BY DEF Truncate, Writers
        <3>3. Persist => pc = "persist" /\ pc' = job.after
            BY DEF Persist
        <3>4. job.back \in {"idle", "down", "recover"}
            BY DEF Control, Course
        <3>5. pc = "persist" => \/ job.op \in {"put", "cas", "drop", "narrow_drop"} /\ job.after = "idle"
                                \/ job.op = "narrow_create" /\ job.after \in {"write", "idle"}
                                \/ job.op = "create" /\ job.after \in {"write", "idle", "recover"}
                                \/ job.op = "commit" /\ job.after = "block"
                                \/ job.op = "close" /\ job.after = "save"
            BY DEF Control, Course
        <3>6. CASE SaveTables
            BY <2>2, <3>1, <3>6 DEF Held, Under, Busy, InTx
        <3>7. CASE Truncate
            BY <2>2, <3>2, <3>4, <3>7 DEF Held, Under, Busy, InTx
        <3>8. CASE Persist
            BY <2>2, <3>3, <3>5, <3>8 DEF Held, Under, Busy, InTx
        <3> QED  BY <1>3, <3>6, <3>7, <3>8
    <2>4. ASSUME NEW ix \in Indexes, Held(ix)'  PROVE Sound(ix)'
        <3>1. Sound(ix)
            BY <2>2, <2>3, <2>4 DEF Found
        <3>2. Cuttable(ix)' = Cuttable(ix)
            BY <2>2 DEF Cuttable
        <3> QED  BY <2>1, <2>2, <2>3, <3>1, <3>2 DEF Sound
    <2> QED  BY <2>4 DEF Found
<1>4. ASSUME UNCHANGED <<base, log, schema, pending>>, job.op \notin {"create", "drop"},
             NEW next \in {"idle", "persist"}, NEW after, Finish(next, after)
      PROVE  Found'
    <2>1. /\ Kv' = Kv /\ View' = Kv /\ Final = Kv /\ Final' = Kv
          /\ job'.todo = <<>> /\ job'.op = job.op /\ pc = "write" /\ pc' = next
        BY <1>4, FinishKeepsFinal
    <2>2. ASSUME NEW ix \in Indexes, Held(ix)'  PROVE Sound(ix)'
        <3>1. Held(ix)
            BY <1>4, <2>1, <2>2 DEF Held, Under
        <3>2. Complete(Kv, schema, ix)
            BY <2>1, <3>1 DEF Found, Sound
        <3>3. Safe(Kv, <<>>, schema, ix)
            BY <1>1, <3>2, SafeNothing
        <3> QED  BY <1>4, <2>1, <3>2, <3>3 DEF Sound
    <2> QED  BY <2>2 DEF Found
<1>5. ASSUME PutDone  PROVE Found'
    <2>1. /\ UNCHANGED <<base, log, schema, pending>> /\ job.op \in {"put", "cas"}
          /\ Finish(IF schema # saved THEN "persist" ELSE "idle", "idle")
        BY <1>5 DEF PutDone, engine
    <2>2. (IF schema # saved THEN "persist" ELSE "idle") \in {"idle", "persist"}
        OBVIOUS
    <2> QED  BY <1>4, <2>1, <2>2
<1>6. ASSUME DeleteDone  PROVE Found'
    <2>1. UNCHANGED <<base, log, schema, pending>> /\ job.op = "delete" /\ Finish("idle", "idle")
        BY <1>6 DEF DeleteDone, engine
    <2> QED  BY <1>4, <2>1
<1>7. ASSUME IndexDone  PROVE Found'
    <2>1. /\ UNCHANGED <<base, log, pending>> /\ job.op \in {"create", "drop", "narrow_create", "narrow_drop"}
          /\ Finish("persist", job.back)
          /\ schema' = WithStatus(schema, job.ix,
                                  IF job.op \in {"create", "narrow_create"} THEN "ready" ELSE "none")
        BY <1>7 DEF IndexDone, engine
    <2>2. /\ Kv' = Kv /\ View' = Kv /\ Final = Kv /\ Final' = Kv
          /\ job'.todo = <<>> /\ job'.op = job.op /\ job'.ix = job.ix /\ pc = "write" /\ pc' = "persist"
        BY <2>1, FinishKeepsFinal
    <2>3. job'.after = job.back /\ job.back # "write"
        <3>1. job'.after = job.back
            BY <1>1, <2>1 DEF Finish, JobType, Jobs
        <3> QED  BY <3>1 DEF Control, Course
    <2>4. schema'.idOf = schema.idOf
        BY <1>1, <2>1 DEF WithStatus, Schemas
    <2>5. schema.status \in [Indexes -> Statuses]
        BY <1>1 DEF Schemas
    <2>6. schema'.status = [schema.status EXCEPT ![job.ix] =
                                IF job.op \in {"create", "narrow_create"} THEN "ready" ELSE "none"]
        BY <1>1, <2>1 DEF WithStatus, Schemas
    <2>7. ASSUME NEW ix \in Indexes, Held(ix)'  PROVE Sound(ix)'
        <3>1. schema'.status[ix] = "ready"
            BY <2>2, <2>3, <2>7 DEF Held, Under, Busy
        <3>2. Held(ix)
            <4>1. CASE ix = job.ix
                <5>1. job.op = "narrow_create" => schema.status[ix] = "ready"
                    BY <2>2, <4>1 DEF Built, Under, Busy
                <5> QED  BY <5>1, <2>1, <2>2, <2>5, <2>6, <3>1, <4>1 DEF Held, Under, Busy
            <4>2. CASE ix # job.ix
                BY <2>5, <2>6, <3>1, <4>2 DEF Held
            <4> QED  BY <4>1, <4>2
        <3>3. Complete(Kv, schema, ix)
            BY <2>2, <3>2 DEF Found, Sound
        <3>4. Complete(Kv, schema', ix) = Complete(Kv, schema, ix)
            BY <2>4, SameIdsComplete
        <3>5. ~InTx' /\ Safe(Kv, <<>>, schema', ix)
            BY <1>1, <2>1, <2>2, <3>3, <3>4, SafeNothing DEF InTx
        <3> QED  BY <2>2, <3>3, <3>4, <3>5 DEF Sound
    <2> QED  BY <2>7 DEF Found
<1>8. ASSUME NEW step \in {"write", "save", "truncate", "persist"}, CallFails(step)
      PROVE  Found'
    <2>1. /\ UNCHANGED <<base, log, schema>> /\ pending' = {} /\ pc = step
          /\ job.op \in Faults /\ ~(job.op = "commit" /\ step = "persist")
        BY <1>8 DEF CallFails, engine
    <2>2. job'.op = "none" /\ job'.todo = <<>>
        BY <1>8 DEF CallFails, NoJob
    <2>3. Kv' = Kv /\ View' = Kv /\ Final' = Kv
        BY <2>1, <2>2, Emptied
    <2>4. job.op \notin {"create", "drop"}
        BY <2>1 DEF Findable
    <2>5. pending = {} /\ View = Kv
        <3>1. pending = {}
            BY <2>1 DEF Control, WorkLeft
        <3> QED  BY <3>1, Settled
    <2>6. ASSUME NEW ix \in Indexes, schema.status[ix] = "ready"  PROVE Complete(Kv, schema, ix)
        <3>1. Sound(ix)
            BY <2>1, <2>4, <2>6, HeldReady DEF Found
        <3>2. CASE Cuttable(ix)
            <4>1. Safe(Kv, job.todo, schema, ix)
                BY <2>5, <3>1, <3>2 DEF Sound
            <4> QED  BY <1>1, <4>1, SafeEnds
        <3>3. CASE job.op \in {"put", "cas"} /\ Len(ix) # 1
            <4>1. SchemaFirst /\ Calls \cap {"put", "cas"} # {}
                BY <3>3 DEF Findable, SingleField, Truth, Truthful, Known
            <4> QED  BY <2>1, <3>3, <4>1 DEF SchemaFirst
        <3>4. CASE job.op \notin {"put", "cas", "delete", "narrow_create", "narrow_drop"}
            <4>1. job.todo = <<>>
                BY <2>4, <3>4 DEF Control, WorkLeft, Writers
            <4>2. Final = Kv
                BY <2>5, <4>1, Settled
            <4> QED  BY <3>1, <4>2 DEF Sound
        <3> QED  BY <3>2, <3>3, <3>4 DEF Cuttable
    <2>7. ASSUME NEW ix \in Indexes, Held(ix)'  PROVE Sound(ix)'
        <3>1. Complete(Kv, schema, ix)
            BY <2>1, <2>2, <2>6, <2>7 DEF Held, Under
        <3>2. ~Cuttable(ix)'
            BY <2>2 DEF Cuttable
        <3> QED  BY <2>1, <2>3, <3>1, <3>2 DEF Sound
    <2> QED  BY <2>7 DEF Found
<1>9. ASSUME CommitFails  PROVE Found'
    <2>1. UNCHANGED <<base, log, schema, pending>> /\ pc = "persist" /\ pc' = "tx" /\ job.op = "commit"
        BY <1>9 DEF CommitFails, engine
    <2>2. job'.op = "none" /\ job'.todo = <<>>
        BY <1>9 DEF CommitFails, NoJob
    <2>3. job.todo = <<>>
        BY <2>1 DEF Control, WorkLeft, Writers
    <2>4. Kv' = Kv /\ View' = View
        BY <2>1 DEF Kv, View
    <2>5. Final' = Final
        BY <2>2, <2>3, <2>4 DEF Final
    <2>6. ASSUME NEW ix \in Indexes, Held(ix)'  PROVE Sound(ix)'
        <3>1. Held(ix)
            BY <2>1, <2>2, <2>6 DEF Held, Under
        <3>2. Sound(ix) /\ InTx
            BY <2>1, <3>1 DEF Found, InTx
        <3>3. ~Cuttable(ix)'
            BY <2>2 DEF Cuttable
        <3> QED  BY <2>1, <2>4, <2>5, <3>2, <3>3 DEF Sound
    <2> QED  BY <2>6 DEF Found
<1> QED  BY <1>2, <1>3, <1>5, <1>6, <1>7, <1>8, <1>9

\* The block of a commit, once it is logged, is what the transaction wrote.
LEMMA SyncedView ==
    ASSUME TInv, Control, pc = "sync"
    PROVE  View = Kv
<1>1. log \in Seq(Batches) /\ base \in Maps /\ pending \in Batches /\ log # <<>> /\ log[Len(log)] = pending
    BY DEF TInv, EngineType, StateType, Control, Commits
<1> DEFINE l == SubSeq(log, 1, Len(log) - 1)
<1>2. l \in Seq(Batches)
    BY <1>1
<1>3. log = Append(l, pending)
    BY <1>1
<1> HIDE DEF l
<1>4. IsMap(base) /\ Replayed(base, l) \in Maps
    BY <1>1, <1>2, MapsAreMaps, ReplayType
<1>5. Kv = Apply(Replayed(base, l), pending)
    BY <1>1, <1>2, <1>3, <1>4, ReplayAppend DEF Kv
<1> QED  BY <1>1, <1>4, <1>5, MapsAreMaps, ApplyTwice DEF View

\* The calls of a transaction.
LEMMA TransactionFound ==
    ASSUME Findable, TInv, Control, Truth, Found
    PROVE  /\ \A e \in Ids, x \in Inputs : TxUpdate(e, x) => Found'
           /\ \A e \in Ids, u \in Updates : TxCasUpdate(e, u) => Found'
           /\ \A e \in Ids : TxDelete(e) => Found'
           /\ Abort \/ LogBlock \/ Sync => Found'
<1>1. /\ EngineType /\ SchemaType /\ JobType /\ Kv \in Maps /\ View \in Maps
      /\ schema \in Schemas /\ AllNumbered(schema)
    BY Settled DEF TInv, SchemaType
<1>2. ASSUME pc = "tx"
      PROVE  /\ job.todo = <<>>
             /\ \A ix \in Indexes : schema.status[ix] = "ready" =>
                    Complete(View, schema, ix) /\ Complete(Kv, schema, ix) /\ Numbered(schema, ix)
    BY <1>2, HeldReady, HeldNumbered, Settled DEF Found, Sound, InTx
<1>3. ASSUME NEW l \in Seq(Batches), pc = "tx", pc' = "tx", UNCHANGED <<base, log, job>>,
             pending' = Pended(l), schema'.status = schema.status, TInv',
             \A ix \in Indexes : schema.status[ix] = "ready" =>
                Complete(Replayed(View, l), schema', ix) /\ Complete(Kv, schema', ix)
      PROVE  Found'
    <2>1. job.todo = <<>> /\ job'.todo = <<>>
        BY <1>2, <1>3
    <2>2. Final' = Replayed(View, l) /\ View' = Replayed(View, l) /\ Kv' = Kv
        BY <1>3, <2>1, PendedKeepsFinal
    <2>3. View' \in Maps
        BY <1>1, <1>3, <2>2, ReplayType
    <2>4. ASSUME NEW ix \in Indexes, Held(ix)'  PROVE Sound(ix)'
        <3>1. schema.status[ix] = "ready"
            BY <1>3, <2>4 DEF Held, Under, Busy
        <3>2. Complete(View', schema', ix) /\ Complete(Kv, schema', ix)
            BY <1>3, <2>2, <3>1
        <3>3. Safe(View', <<>>, schema', ix)
            BY <2>3, <3>2, SafeNothing
        <3> QED  BY <2>1, <2>2, <3>2, <3>3 DEF Sound
    <2> QED  BY <2>4 DEF Found
<1>4. ASSUME NEW e \in Ids, NEW x \in Input, SingleField \/ NoRepeats(x),
             schema' = Allot(schema, NamesOf(x)),
             pending' = Pended(PutWrites(View, schema', {}, e, x)),
             pc = "tx", pc' = "tx", UNCHANGED <<base, log, job>>, TInv'
      PROVE  Found'
    <2> DEFINE l == PutWrites(View, schema', {}, e, x)
    <2>1. NamesOf(x) \in Seq(Names)
        BY InputFacts
    <2>2. schema'.status = schema.status /\ schema' \in Schemas /\ AllNumbered(schema')
          /\ Numbered(schema', NamesOf(x))
        BY <1>1, <1>4, <2>1, NewSchema
    <2>3. l \in Seq(Batches)
        BY <1>1, <2>2, PutWritesFacts, PutTypes DEF PutPhases
    <2>4. ASSUME NEW ix \in Indexes, schema.status[ix] = "ready"
          PROVE  Complete(Replayed(View, l), schema', ix) /\ Complete(Kv, schema', ix)
        <3>1. Complete(View, schema, ix) /\ Complete(Kv, schema, ix) /\ Numbered(schema, ix)
            BY <1>2, <1>4, <2>4
        <3>2. schema' = Allot(schema, NamesOf(x)) /\ (SingleField \/ NoRepeats(x))
            BY <1>4
        <3>3. Complete(Replayed(View, l), schema', ix)
            BY <1>1, <2>4, <3>1, <3>2, PutSound
        <3>4. Complete(Kv, schema', ix)
            BY <2>1, <3>1, <3>2, GrowComplete
        <3> QED  BY <3>3, <3>4
    <2>5. pending' = Pended(l)
        BY <1>4
    <2> HIDE DEF l
    <2> QED  BY <1>3, <1>4, <2>2, <2>3, <2>4, <2>5
<1>5. ASSUME NEW e \in Ids, NEW x \in Inputs, TxUpdate(e, x)  PROVE Found'
    <2>1. /\ pc = "tx" /\ pc' = "tx" /\ UNCHANGED <<base, log, job>>
          /\ pending' = Pended(PutWrites(View, schema', {}, e, x))
          /\ schema' = Allot(schema, NamesOf(x))
        BY <1>5 DEF TxUpdate, InTransaction, engine
    <2>2. TInv'
        BY <1>5, TransactionTypes
    <2>3. x \in Input /\ (SingleField \/ NoRepeats(x))
        BY InputNames DEF Findable
    <2> QED  BY <1>4, <2>1, <2>2, <2>3
<1>6. ASSUME NEW e \in Ids, NEW u \in Updates, TxCasUpdate(e, u)  PROVE Found'
    <2> DEFINE q == Patched(View, schema, e, u)
               p == AsInput(q)
    <2>1. q \in Entity
        BY <1>1, PatchedType
    <2>2. /\ pc = "tx" /\ pc' = "tx" /\ UNCHANGED <<base, log, job>>
          /\ pending' = Pended(PutWrites(View, schema', {}, e, p))
          /\ schema' = Allot(schema, NamesOf(p))
        BY <1>6 DEF TxCasUpdate, InTransaction, engine
    <2>3. TInv'
        BY <1>6, TransactionTypes
    <2> HIDE DEF q
    <2>4. p \in Input /\ NoRepeats(p)
        BY <2>1, InputNames
    <2> HIDE DEF p
    <2> QED  BY <1>4, <2>2, <2>3, <2>4
<1>7. ASSUME NEW e \in Ids, TxDelete(e)  PROVE Found'
    <2> DEFINE l == DeleteWrites(View, schema, e)
    <2>1. /\ pc = "tx" /\ pc' = "tx" /\ UNCHANGED <<base, log, schema, job>> /\ pending' = Pended(l)
        BY <1>7 DEF TxDelete, InTransaction, engine
    <2>2. TInv'
        BY <1>7, TransactionTypes
    <2>3. l \in Seq(Batches)
        BY <1>1, DeleteWritesFacts DEF DeletePhases
    <2>4. ASSUME NEW ix \in Indexes, schema.status[ix] = "ready"
          PROVE  Complete(Replayed(View, l), schema, ix) /\ Complete(Kv, schema, ix)
        <3>1. Complete(View, schema, ix) /\ Complete(Kv, schema, ix) /\ Numbered(schema, ix)
            BY <1>2, <2>1, <2>4
        <3>2. Safe(View, l, schema, ix)
            BY <1>1, <3>1, DeleteSafe
        <3> HIDE DEF l
        <3> QED  BY <1>1, <2>3, <3>1, <3>2, SafeEnds
    <2> HIDE DEF l
    <2> QED  BY <1>3, <2>1, <2>2, <2>3, <2>4
<1>8. ASSUME Abort  PROVE Found'
    <2>1. UNCHANGED <<base, log, schema, job>> /\ pending' = {} /\ pc = "tx" /\ pc' = "idle"
        BY <1>8 DEF Abort, engine
    <2>2. Kv' = Kv /\ View' = Kv /\ Final' = Kv /\ job'.todo = <<>>
        BY <1>2, <2>1, Emptied
    <2>3. ASSUME NEW ix \in Indexes, Held(ix)'  PROVE Sound(ix)'
        <3>1. Complete(Kv, schema, ix)
            BY <1>2, <2>1, <2>3 DEF Held, Under, Busy
        <3>2. Safe(Kv, <<>>, schema, ix)
            BY <1>1, <3>1, SafeNothing
        <3> QED  BY <2>1, <2>2, <3>1, <3>2 DEF Sound, InTx
    <2> QED  BY <2>3 DEF Found
<1>9. ASSUME LogBlock  PROVE Found'
    <2>1. /\ UNCHANGED <<schema, job>> /\ pc = "block" /\ pc' = "sync" /\ job.op = "commit"
        BY <1>9 DEF LogBlock, Control, Course
    <2>2. Final' = Final
        BY <1>9, BlockKeepsView
    <2>3. ASSUME NEW ix \in Indexes, Held(ix)'  PROVE Sound(ix)'
        <3>1. Sound(ix)
            BY <2>1, <2>3 DEF Held, Under, Found
        <3> QED  BY <2>1, <2>2, <3>1 DEF Sound, Cuttable, InTx
    <2> QED  BY <2>3 DEF Found
<1>10. ASSUME Sync  PROVE Found'
    <2>1. /\ UNCHANGED <<base, log, schema, job>> /\ pc = "sync" /\ pc' \in {"save", "idle"}
          /\ pending' = {}
        BY <1>10 DEF Sync
    <2>2. job.todo = <<>> /\ job.op = "commit"
        BY <2>1 DEF Control, WorkLeft, Busy, Course
    <2>3. Kv' = Kv /\ View' = Kv /\ Final' = Kv
        BY <2>1, <2>2, Emptied
    <2>4. Final = Kv
        BY <2>1, <2>2, SyncedView, Settled
    <2>5. ASSUME NEW ix \in Indexes, Held(ix)'  PROVE Sound(ix)'
        <3>1. Sound(ix)
            BY <2>1, <2>2, <2>5 DEF Held, Under, Found
        <3> QED  BY <2>1, <2>2, <2>3, <2>4, <3>1 DEF Sound, Cuttable, InTx
    <2> QED  BY <2>5 DEF Found
<1> QED  BY <1>5, <1>6, <1>7, <1>8, <1>9, <1>10

\* Crashes, opening, and the end of recovery.
LEMMA RestartFound ==
    ASSUME TInv, Control, Found, Closed
    PROVE  Crash \/ Open \/ Recovered => Found'
<1>1. ASSUME Crash  PROVE Found'
    BY <1>1 DEF Crash, Found
<1>2. ASSUME Open  PROVE Found'
    <2>1. UNCHANGED <<base, log, pending>> /\ pc = "down" /\ pc' = "recover" /\ schema' = saved
        BY <1>2 DEF Open, engine
    <2>2. job'.op = "none" /\ job'.todo = <<>>
        BY <1>2 DEF Open, NoJob
    <2>3. pending' = {}
        BY <2>1 DEF Control, WorkLeft
    <2>4. Kv' = Kv /\ View' = Kv /\ Final' = Kv
        BY <2>1, <2>2, <2>3, Emptied
    <2>5. ASSUME NEW ix \in Indexes, Held(ix)'  PROVE Sound(ix)'
        <3>1. saved.status[ix] = "ready"
            BY <2>1, <2>2, <2>5 DEF Held, Under
        <3>2. Complete(Kv, saved, ix)
            BY <2>1, <3>1 DEF Closed, IndexesWith
        <3> QED  BY <2>1, <2>2, <2>4, <3>2 DEF Sound, Cuttable, InTx
    <2> QED  BY <2>5 DEF Found
<1>3. ASSUME Recovered  PROVE Found'
    <2>1. UNCHANGED <<base, log, schema, pending>> /\ pc = "recover" /\ pc' = "idle"
        BY <1>3 DEF Recovered, engine
    <2>2. job'.op = "none" /\ job'.todo = <<>>
        BY <1>3 DEF Recovered, NoJob
    <2>3. pending' = {} /\ Final = Kv
        BY <2>1, Settled
    <2>4. Kv' = Kv /\ View' = Kv /\ Final' = Kv
        BY <2>1, <2>2, <2>3, Emptied
    <2>5. ASSUME NEW ix \in Indexes, Held(ix)'  PROVE Sound(ix)'
        <3>1. Sound(ix)
            BY <2>1, <2>2, <2>5, HeldReady DEF Held, Under, Found
        <3> QED  BY <2>1, <2>2, <2>3, <2>4, <3>1 DEF Sound, Cuttable, InTx
    <2> QED  BY <2>5 DEF Found
<1> QED  BY <1>1, <1>2, <1>3

\* Every step.
LEMMA NextFound ==
    Findable /\ TInv /\ Control /\ Truth /\ Found /\ Built /\ Closed /\ [Next]_vars => Found'
<1> SUFFICES ASSUME Findable, TInv, Control, Truth, Found, Built, Closed, [Next]_vars  PROVE Found'
    OBVIOUS
<1>1. CASE UNCHANGED vars
    <2>1. UNCHANGED <<base, log, schema, pending, job, pc>>
        BY <1>1 DEF vars, engine
    <2>2. Kv' = Kv /\ View' = View /\ Final' = Final
        BY <2>1 DEF Kv, View, Final
    <2> QED  BY <2>1, <2>2 DEF Found, Held, Under, Busy, Sound, Cuttable, InTx
<1>2. ASSUME Next  PROVE Found'
    <2>1. TInv' /\ Control'
        BY NextTypes, NextControl
    <2> QED  BY <1>2, <2>1, StartFound, WorkFound, TransactionFound, RestartFound DEF Next, WriteFails
<1> QED  BY <1>1, <1>2

-----------------------------------------------------------------------------
(* What the file says of the indexes.                                      *)

\* Calls, and transactions.
LEMMA StartBuilt ==
    ASSUME Findable, TInv, Control, Built
    PROVE  /\ \A e \in Ids, x \in Inputs : PutEntity(e, x) \/ TxUpdate(e, x) => Built'
           /\ \A e \in Ids, u \in Updates : CasUpdate(e, u) \/ TxCasUpdate(e, u) => Built'
           /\ \A e \in Ids : DeleteEntity(e) \/ TxDelete(e) => Built'
           /\ \A ix \in Indexes : CreateIndex(ix) \/ RecoverIndex(ix) \/ DropIndex(ix) => Built'
           /\ \A ix \in Indexes : NarrowCreateIndex(ix) \/ NarrowDropIndex(ix) => Built'
           /\ Flush \/ Close \/ Begin \/ StartCommit \/ Abort \/ LogBlock \/ Sync => Built'
<1>1. SchemaType /\ schema \in Schemas
    BY DEF TInv, SchemaType
<1>2. ASSUME pc \in {"idle", "tx", "block", "sync"}
      PROVE  /\ IndexesWith(schema, "building") = {} /\ saved.status = schema.status
             /\ pc \in {"idle", "tx"} => job.back # "recover"
    <2>1. job.back # "recover"
        BY <1>2 DEF Built, Control, Course
    <2> QED  BY <1>2, <2>1 DEF Built, Under, Busy
<1>3. ASSUME pc \in {"idle", "tx", "block", "sync"}, schema'.status = schema.status, UNCHANGED saved,
             \/ job'.op \notin {"create", "narrow_create"} /\ job'.back # "recover"
             \/ pc \in {"idle", "tx"} /\ UNCHANGED job /\ pc' \in {"idle", "tx"}
      PROVE  Built'
    <2>1. IndexesWith(schema', "building") = {} /\ saved'.status = schema'.status
        BY <1>2, <1>3 DEF IndexesWith
    <2>2. job'.op = "create" => job'.after \in {"write", job'.back}
        BY <1>3 DEF Built
    <2>3. job'.back = "recover" => pc' \notin {"idle", "tx"}
        BY <1>2, <1>3
    <2>4. ~Under("create")' /\ ~Under("narrow_create")'
        BY <1>3 DEF Under, Busy
    <2> QED  BY <2>1, <2>2, <2>3, <2>4 DEF Built
<1>4. ASSUME NEW ns \in Seq(Names)  PROVE Allot(schema, ns).status = schema.status
    BY <1>1, NewSchema
<1>5. ASSUME NEW e \in Ids, NEW x \in Inputs, PutEntity(e, x) \/ TxUpdate(e, x)  PROVE Built'
    <2>1. schema'.status = schema.status /\ UNCHANGED saved
        BY <1>4, <1>5, InputNames DEF PutEntity, TxUpdate
    <2>2. PutEntity(e, x) => job'.op = "put" /\ job'.back = "idle" /\ pc = "idle"
        BY DEF PutEntity, NoJob, Called
    <2>3. TxUpdate(e, x) => pc = "tx" /\ pc' = "tx" /\ UNCHANGED job
        BY DEF TxUpdate, InTransaction
    <2> QED  BY <1>3, <1>5, <2>1, <2>2, <2>3
<1>6. ASSUME NEW e \in Ids, NEW u \in Updates, CasUpdate(e, u) \/ TxCasUpdate(e, u)  PROVE Built'
    <2>1. \A m \in Maps : NamesOf(AsInput(Patched(m, schema, e, u))) \in Seq(Names)
        <3> TAKE m \in Maps
        <3>1. Patched(m, schema, e, u) \in Entity
            BY <1>1, PatchedType
        <3> QED  BY <3>1, InputNames
    <2>2. Kv \in Maps /\ View \in Maps
        BY Settled
    <2>3. UNCHANGED saved /\ \E m \in Maps : schema' = Allot(schema, NamesOf(AsInput(Patched(m, schema, e, u))))
        BY <1>6, <2>2 DEF CasUpdate, TxCasUpdate
    <2>4. schema'.status = schema.status
        BY <1>4, <2>1, <2>3
    <2>5. CasUpdate(e, u) => job'.op = "cas" /\ job'.back = "idle" /\ pc = "idle"
        BY DEF CasUpdate, NoJob, Called
    <2>6. TxCasUpdate(e, u) => pc = "tx" /\ pc' = "tx" /\ UNCHANGED job
        BY DEF TxCasUpdate, InTransaction
    <2> QED  BY <1>3, <1>6, <2>3, <2>4, <2>5, <2>6
<1>7. ASSUME NEW e \in Ids, DeleteEntity(e) \/ TxDelete(e)  PROVE Built'
    <2>1. DeleteEntity(e) => job'.op = "delete" /\ job'.back = "idle" /\ pc = "idle" /\ UNCHANGED <<schema, saved>>
        BY DEF DeleteEntity, NoJob, Called
    <2>2. TxDelete(e) => pc = "tx" /\ pc' = "tx" /\ UNCHANGED <<job, schema, saved>>
        BY DEF TxDelete, InTransaction
    <2> QED  BY <1>3, <1>7, <2>1, <2>2
<1>8. ASSUME NEW ix \in Indexes, NEW to, StartCreate(ix, to), UNCHANGED saved, to \in {"idle", "recover"},
             \/ to = "recover" /\ schema.status[ix] = "building"
             \/ pc = "idle" /\ ("recreate" \in Calls \/ schema.status[ix] = "none")
      PROVE  Built'
    <2>1. /\ schema' = Registered(schema, ix) /\ pc' = "persist" /\ job'.op = "create"
          /\ job'.after = "write" /\ job'.back = to /\ job'.ix = ix
        BY <1>8 DEF StartCreate, NoJob
    <2>2. schema'.status = IF schema.status[ix] = "none"
                           THEN [schema.status EXCEPT ![ix] = "building"] ELSE schema.status
        BY <1>1, <2>1, RegisteredType
    <2>3. schema.status \in [Indexes -> Statuses]
        BY <1>1 DEF Schemas
    <2>4. Under("create")' /\ ~Under("narrow_create")'
        BY <2>1 DEF Under, Busy
    <2>5. to # "recover" => IndexesWith(schema', "building") \subseteq {ix}
        BY <1>2, <1>8, <2>2, <2>3 DEF IndexesWith
    <2>6. "recreate" \notin Calls => schema'.status[ix] = "building"
        BY <1>8, <2>2, <2>3
    <2> QED  BY <1>8, <2>1, <2>4, <2>5, <2>6 DEF Built
<1>9. ASSUME NEW ix \in Indexes, CreateIndex(ix) \/ RecoverIndex(ix)  PROVE Built'
    <2>1. CreateIndex(ix) => /\ StartCreate(ix, "idle") /\ UNCHANGED saved /\ pc = "idle"
                             /\ ("recreate" \in Calls \/ schema.status[ix] = "none")
        BY DEF CreateIndex, Called
    <2>2. RecoverIndex(ix) => StartCreate(ix, "recover") /\ UNCHANGED saved /\ schema.status[ix] = "building"
        BY DEF RecoverIndex
    <2> QED  BY <1>8, <1>9, <2>1, <2>2
<1>10. ASSUME NEW ix \in Indexes, DropIndex(ix)  PROVE Built'
    <2>1. job'.op = "drop" /\ job'.back = "idle" /\ pc = "idle" /\ UNCHANGED <<schema, saved>>
        BY <1>10 DEF DropIndex, NoJob, Called
    <2> QED  BY <1>3, <2>1
<1>11. ASSUME Flush \/ Close \/ Begin \/ StartCommit  PROVE Built'
    <2>1. Flush => job'.op = "flush" /\ job'.back = "idle"
        BY DEF Flush, NoJob
    <2>2. Close => job'.op = "close" /\ job'.back = "down"
        BY DEF Close, NoJob
    <2>3. Begin => job'.op = "none" /\ job'.back = "idle"
        BY DEF Begin, NoJob
    <2>4. StartCommit => job'.op = "commit" /\ job'.back = "idle"
        BY DEF StartCommit, NoJob
    <2>5. pc \in {"idle", "tx"} /\ UNCHANGED <<schema, saved>>
        BY <1>11 DEF Flush, Close, Begin, StartCommit, Called
    <2> QED  BY <1>3, <1>11, <2>1, <2>2, <2>3, <2>4, <2>5
<1>12. ASSUME Abort  PROVE Built'
    BY <1>3, <1>12 DEF Abort
<1>13. ASSUME LogBlock \/ Sync  PROVE Built'
    <2>1. pc \in {"block", "sync"} /\ UNCHANGED <<schema, saved, job>>
        BY <1>13 DEF LogBlock, Sync
    <2>2. job.op = "commit" /\ job.back = "idle"
        BY <2>1 DEF Control, Course
    <2> QED  BY <1>3, <2>1, <2>2
<1>14. ASSUME NEW ix \in Indexes, NarrowDropIndex(ix)  PROVE Built'
    BY <1>3, <1>14, NarrowStarts
<1>15. ASSUME NEW ix \in Indexes, NarrowCreateIndex(ix)  PROVE Built'
    <2>1. /\ pc = "idle" /\ pc' = "persist" /\ UNCHANGED saved
          /\ job'.op = "narrow_create" /\ job'.back = "idle" /\ job'.ix = ix
          /\ schema' = Registered(schema, ix) /\ schema.status[ix] # "none"
        BY <1>15, NarrowStarts DEF Findable
    <2>2. schema'.status = schema.status /\ IndexesWith(schema, "building") = {}
          /\ saved.status = schema.status
        BY <1>1, <1>2, <2>1, RegisteredType
    <2>3. schema.status[ix] = "ready"
        BY <1>1, <2>1, <2>2 DEF Schemas, Statuses, IndexesWith
    <2>4. IndexesWith(schema', "building") = {} /\ ~Under("create")'
        BY <2>1, <2>2 DEF IndexesWith, Under
    <2> QED  BY <2>1, <2>2, <2>3, <2>4 DEF Built
<1> QED  BY <1>5, <1>6, <1>7, <1>9, <1>10, <1>11, <1>12, <1>13, <1>14, <1>15

\* The steps of a call, crashes and opening.
LEMMA WorkBuilt ==
    ASSUME Findable, TInv, Control, Built
    PROVE  /\ WriteOne \/ SaveTables \/ Truncate \/ Persist => Built'
           /\ PutDone \/ DeleteDone \/ IndexDone => Built'
           /\ \A step \in {"write", "save", "truncate", "persist"} : CallFails(step) => Built'
           /\ CommitFails => Built'
           /\ Crash \/ Open \/ Recovered => Built'
<1>1. schema \in Schemas /\ job \in Jobs
    BY DEF TInv, SchemaType, JobType
<1>2. ASSUME WriteOne  PROVE Built'
    <2>1. PICK i \in DOMAIN job.todo : \E w : job' = [job EXCEPT !.todo = Without(job.todo, i, w)]
        BY <1>2 DEF WriteOne
    <2>2. job'.op = job.op /\ job'.after = job.after /\ job'.back = job.back /\ job'.ix = job.ix
        BY <1>1, <2>1 DEF Jobs
    <2>3. pc = "write" /\ pc' \in {"write", "save"} /\ UNCHANGED <<schema, saved>>
        BY <1>2 DEF WriteOne
    <2> QED  BY <2>2, <2>3 DEF Built, Under, Busy
<1>3. ASSUME SaveTables  PROVE Built'
    BY <1>3 DEF SaveTables, Built, Under, Busy
<1>4. ASSUME Truncate  PROVE Built'
    <2>1. pc = "truncate" /\ UNCHANGED <<schema, saved, job>> /\ pc' \in {"write", job.back}
          /\ (job.op \in {"create", "narrow_create"} => pc' = "write")
        BY <1>4 DEF Truncate, Writers
    <2>2. job.back \in {"idle", "down", "recover"} /\ (job.back = "recover" => job.op = "create")
        BY DEF Control, Course
    <2>3. Under("create")' = Under("create") /\ Under("narrow_create")' = Under("narrow_create")
        BY <2>1, <2>2 DEF Under, Busy
    <2> QED  BY <2>1, <2>2, <2>3 DEF Built
<1>5. ASSUME Persist  PROVE Built'
    <2>1. pc = "persist" /\ UNCHANGED <<schema, job>> /\ pc' = job.after /\ saved' = schema
        BY <1>5 DEF Persist
    <2>2. /\ job.back = "recover" => job.op = "create"
          /\ \/ job.op \in {"put", "cas", "drop", "narrow_drop"} /\ job.after = "idle"
             \/ job.op = "narrow_create" /\ job.after \in {"write", "idle"}
             \/ job.op = "create" /\ job.after \in {"write", "idle", "recover"}
             \/ job.op = "commit" /\ job.after = "block"
             \/ job.op = "close" /\ job.after = "save"
        BY <2>1 DEF Control, Course
    <2>3. Under("create")' = Under("create") /\ Under("narrow_create")' = Under("narrow_create")
        BY <2>1, <2>2 DEF Under, Busy
    <2> QED  BY <2>1, <2>2, <2>3 DEF Built
<1>6. ASSUME PutDone \/ DeleteDone  PROVE Built'
    <2>1. PICK next, after : next \in {"idle", "persist"} /\ Finish(next, after)
        BY <1>6 DEF PutDone, DeleteDone
    <2>2. job'.op = job.op /\ job'.back = job.back /\ pc = "write" /\ pc' \in {"idle", "persist"}
        BY <1>1, <2>1 DEF Finish, Jobs
    <2>3. job.op \in {"put", "cas", "delete"} /\ UNCHANGED <<schema, saved>>
        BY <1>6 DEF PutDone, DeleteDone
    <2>4. job.back # "recover"
        BY <2>3 DEF Control, Course
    <2> QED  BY <2>2, <2>3, <2>4 DEF Built, Under
<1>7. ASSUME IndexDone  PROVE Built'
    <2>1. /\ Finish("persist", job.back) /\ UNCHANGED saved
          /\ job.op \in {"create", "drop", "narrow_create", "narrow_drop"}
          /\ schema' = WithStatus(schema, job.ix,
                                  IF job.op \in {"create", "narrow_create"} THEN "ready" ELSE "none")
        BY <1>7 DEF IndexDone
    <2>2. /\ job'.op = job.op /\ job'.back = job.back /\ job'.after = job.back
          /\ pc = "write" /\ pc' = "persist"
        BY <1>1, <2>1 DEF Finish, Jobs
    <2>3. schema'.status = [schema.status EXCEPT ![job.ix] =
                                IF job.op \in {"create", "narrow_create"} THEN "ready" ELSE "none"]
        BY <1>1, <2>1 DEF WithStatus, Schemas
    <2>4. schema.status \in [Indexes -> Statuses]
        BY <1>1 DEF Schemas
    <2>5. job.back # "write"
        BY DEF Control, Course
    <2>6. ~Under("create")' /\ ~Under("narrow_create")'
        BY <2>2, <2>5 DEF Under, Busy
    <2>7. job.back # "recover" => IndexesWith(schema', "building") = {}
        <3>1. job.back # "recover" => IndexesWith(schema, "building") \subseteq {job.ix}
            BY <2>2 DEF Built
        <3>2. job.back # "recover" /\ job.op # "create" => IndexesWith(schema, "building") = {}
            BY <2>2 DEF Built, Under
        <3> QED  BY <2>1, <2>3, <2>4, <3>1, <3>2 DEF IndexesWith
    <2>8. job.op = "narrow_create" => saved.status = schema'.status
        <3>1. job.op = "narrow_create" => schema.status[job.ix] = "ready" /\ saved.status = schema.status
            BY <2>2 DEF Built, Under, Busy
        <3> QED  BY <2>3, <2>4, <3>1
    <2> QED  BY <2>1, <2>2, <2>6, <2>7, <2>8 DEF Built
<1>8. ASSUME job'.op = "none", job'.back = "idle", UNCHANGED <<schema, saved>>,
             job.op \notin {"create", "drop", "narrow_drop"}, pc \notin {"down", "recover"}
      PROVE  Built'
    <2>1. job.back # "recover"
        BY <1>8 DEF Control, Course
    <2>2. IndexesWith(schema, "building") = {} /\ saved.status = schema.status
        BY <1>8, <2>1 DEF Built, Under
    <2> QED  BY <1>8, <2>2 DEF Built, Under
<1>9. ASSUME NEW step \in {"write", "save", "truncate", "persist"}, CallFails(step)  PROVE Built'
    <2>1. job'.op = "none" /\ job'.back = "idle"
        BY <1>9 DEF CallFails, NoJob
    <2>2. job.op \in Faults /\ pc = step /\ UNCHANGED <<schema, saved>>
        BY <1>9 DEF CallFails
    <2> QED  BY <1>8, <2>1, <2>2 DEF Findable
<1>10. ASSUME CommitFails  PROVE Built'
    <2>1. job'.op = "none" /\ job'.back = "idle"
        BY <1>10 DEF CommitFails, NoJob
    <2> QED  BY <1>8, <1>10, <2>1 DEF CommitFails
<1>11. ASSUME Crash  PROVE Built'
    BY <1>11 DEF Crash, Built, Under, Busy
<1>12. ASSUME Open  PROVE Built'
    <2>1. job'.op = "none" /\ job'.back = "idle"
        BY <1>12 DEF Open, NoJob
    <2> QED  BY <1>12, <2>1 DEF Open, Built, Under
<1>13. ASSUME Recovered  PROVE Built'
    <2>1. job'.op = "none" /\ job'.back = "idle"
        BY <1>13 DEF Recovered, NoJob
    <2> QED  BY <1>13, <2>1 DEF Recovered, Built, Under
<1> QED  BY <1>2, <1>3, <1>4, <1>5, <1>6, <1>7, <1>9, <1>10, <1>11, <1>12, <1>13

\* Every step.
LEMMA NextBuilt == Findable /\ TInv /\ Control /\ Built /\ [Next]_vars => Built'
<1> SUFFICES ASSUME Findable, TInv, Control, Built, [Next]_vars  PROVE Built'
    OBVIOUS
<1>1. CASE UNCHANGED vars
    <2>1. UNCHANGED <<schema, saved, job, pc>>
        BY <1>1 DEF vars
    <2> QED  BY <2>1 DEF Built, Under, Busy
<1>2. ASSUME Next  PROVE Built'
    BY <1>2, StartBuilt, WorkBuilt DEF Next, WriteFails
<1> QED  BY <1>1, <1>2

-----------------------------------------------------------------------------
(* What a crash leaves of the indexes.                                     *)

\* No call creates or drops an index that is not there, and each batch of the log leaves the
\* READY indexes complete.
Lasting ==
    /\ job.op \notin {"create", "drop", "narrow_drop"}
    /\ IndexesWith(saved, "building") = {}
    /\ pc # "truncate" =>
          \A i \in 0 .. Len(log) : \A ix \in IndexesWith(saved, "ready") :
              Complete(Replayed(base, SubSeq(log, 1, i)), saved, ix)

\* What is complete for the schema in memory is for the file.
LEMMA SavedComplete ==
    ASSUME TInv, NEW ix \in Indexes, saved.status[ix] # "none", NEW m
    PROVE  Complete(m, saved, ix) = Complete(m, schema, ix)
<1>1. Numbered(saved, ix) /\ Extends(schema, saved)
    BY HeldNumbered DEF TInv, SchemaType
<1> QED  BY <1>1, ExtendsComplete

\* A put or cas_update is of an index of one field.
LEMMA StableCuts ==
    ASSUME Stable, Truth, NEW ix \in Indexes,
           job.op \in {"put", "cas", "delete", "narrow_create", "narrow_drop"}
    PROVE  Cuttable(ix)
<1>1. job.op \in {"put", "cas"} => SingleField
    BY DEF Stable, SchemaFirst, Truth, Truthful, Known
<1> QED  BY <1>1 DEF Cuttable, SingleField

\* Between two writes the indexes are complete.
LEMMA StableNow ==
    ASSUME Stable \/ job.op \notin Writers, TInv, Control, Truth, Found, pc # "down", View = Kv,
           job.op \notin {"create", "drop"}, saved.status = schema.status,
           NEW ix \in IndexesWith(saved, "ready")
    PROVE  Complete(Kv, saved, ix)
<1>1. Kv \in Maps /\ job.todo \in Seq(Batches) /\ ix \in Indexes /\ saved.status[ix] = "ready"
    BY Settled DEF TInv, JobType, Jobs, IndexesWith
<1>2. Sound(ix)
    BY <1>1, HeldReady DEF Found
<1>3. CASE job.op \in Writers
    <2>1. Cuttable(ix)
        BY <1>1, <1>3, StableCuts DEF Writers
    <2>2. Safe(Kv, job.todo, schema, ix)
        BY <1>2, <2>1 DEF Sound
    <2>3. Complete(Kv, schema, ix)
        BY <1>1, <2>2, SafeEnds
    <2> QED  BY <1>1, <2>3, SavedComplete
<1>4. CASE job.op \notin Writers
    <2>1. job.todo = <<>>
        BY <1>4 DEF Control, WorkLeft
    <2>2. Complete(Kv, schema, ix)
        BY <1>2, <2>1, Settled DEF Sound
    <2> QED  BY <1>1, <2>2, SavedComplete
<1> QED  BY <1>3, <1>4

\* The steps that change the log or the tables, if none fails.
LEMMA LogSteps ==
    ASSUME Faults = {}, Next
    PROVE  \/ WriteOne \/ SaveTables \/ Truncate \/ LogBlock \/ Crash
           \/ UNCHANGED <<base, log>> /\ pc # "truncate"
<1>1. \A e \in Ids, x \in Inputs : PutEntity(e, x) \/ TxUpdate(e, x) => UNCHANGED <<base, log>> /\ pc # "truncate"
    BY DEF PutEntity, TxUpdate, Called, InTransaction, engine
<1>2. \A e \in Ids, u \in Updates : CasUpdate(e, u) \/ TxCasUpdate(e, u) => UNCHANGED <<base, log>> /\ pc # "truncate"
    BY DEF CasUpdate, TxCasUpdate, Called, InTransaction, engine
<1>3. \A e \in Ids : DeleteEntity(e) \/ TxDelete(e) => UNCHANGED <<base, log>> /\ pc # "truncate"
    BY DEF DeleteEntity, TxDelete, Called, InTransaction, engine
<1>4. \A ix \in Indexes :
        CreateIndex(ix) \/ DropIndex(ix) \/ RecoverIndex(ix) \/ NarrowCreateIndex(ix) \/ NarrowDropIndex(ix)
        => UNCHANGED <<base, log>> /\ pc # "truncate"
    BY DEF CreateIndex, DropIndex, RecoverIndex, NarrowCreateIndex, NarrowDropIndex, Called, engine
<1>5. Flush \/ Close \/ Begin \/ Abort \/ StartCommit \/ Sync => UNCHANGED <<base, log>> /\ pc # "truncate"
    BY DEF Flush, Close, Begin, Abort, StartCommit, Sync, Called, engine
<1>6. \A step : ~CallFails(step)
    BY DEF CallFails
<1>7. Persist \/ CommitFails \/ Open \/ Recovered => UNCHANGED <<base, log>> /\ pc # "truncate"
    BY DEF Persist, CommitFails, Open, Recovered, engine
<1>8. PutDone \/ DeleteDone \/ IndexDone => UNCHANGED <<base, log>> /\ pc # "truncate"
    BY DEF PutDone, DeleteDone, IndexDone, Finish, engine
<1> QED  BY <1>1, <1>2, <1>3, <1>4, <1>5, <1>6, <1>7, <1>8 DEF Next, WriteFails

\* Indexes stay as they are.
LEMMA StableOps ==
    ASSUME Stable, TInv, Control, Built, Lasting, Next
    PROVE  /\ job'.op \notin {"create", "drop", "narrow_drop"}
           /\ saved' = saved \/ (pc = "persist" /\ saved' = schema /\ UNCHANGED <<base, log>>)
<1>1. \A e \in Ids, x \in Inputs : PutEntity(e, x) => job'.op = "put" /\ saved' = saved
    BY DEF PutEntity, NoJob
<1>2. \A e \in Ids, u \in Updates : CasUpdate(e, u) => job'.op = "cas" /\ saved' = saved
    BY DEF CasUpdate, NoJob
<1>3. \A e \in Ids : DeleteEntity(e) => job'.op = "delete" /\ saved' = saved
    BY DEF DeleteEntity, NoJob
<1>4. ASSUME NEW ix \in Indexes  PROVE ~CreateIndex(ix) /\ ~DropIndex(ix) /\ ~RecoverIndex(ix)
    <2>1. ~CreateIndex(ix) /\ ~DropIndex(ix)
        BY DEF CreateIndex, DropIndex, Called, Stable
    <2>2. pc = "recover" => schema.status[ix] # "building"
        <3>1. pc = "recover" => saved.status = schema.status
            BY DEF Built
        <3> QED  BY <3>1 DEF Lasting, IndexesWith
    <2> QED  BY <2>1, <2>2 DEF RecoverIndex
<1>18. ASSUME NEW ix \in Indexes
       PROVE  ~NarrowDropIndex(ix) /\ (NarrowCreateIndex(ix) => job'.op = "narrow_create" /\ saved' = saved)
    <2>1. ~NarrowDropIndex(ix)
        BY DEF NarrowDropIndex, Called, Stable
    <2> QED  BY <2>1, NarrowStarts
<1>5. Flush \/ Close \/ Begin \/ StartCommit => job'.op \notin {"create", "drop", "narrow_drop"} /\ saved' = saved
    <2>1. Flush \/ Close \/ Begin \/ StartCommit => saved' = saved
        BY DEF Flush, Close, Begin, StartCommit
    <2> QED  BY <2>1, IdleJobs
<1>6. \A e \in Ids, x \in Inputs : TxUpdate(e, x) => UNCHANGED <<job, saved>>
    BY DEF TxUpdate
<1>7. \A e \in Ids, u \in Updates : TxCasUpdate(e, u) => UNCHANGED <<job, saved>>
    BY DEF TxCasUpdate
<1>8. \A e \in Ids : TxDelete(e) => UNCHANGED <<job, saved>>
    BY DEF TxDelete
<1>9. WriteOne => job'.op = job.op /\ saved' = saved
    BY WriteKeepsFinal DEF WriteOne
<1>10. SaveTables \/ Truncate \/ Abort \/ LogBlock \/ Sync \/ Crash => UNCHANGED <<job, saved>>
    BY DEF SaveTables, Truncate, Abort, LogBlock, Sync, Crash
<1>11. Persist => UNCHANGED job /\ pc = "persist" /\ saved' = schema /\ UNCHANGED <<base, log>>
    BY DEF Persist, engine
<1>12. \A step : CallFails(step) => job'.op = "none" /\ saved' = saved
    BY DEF CallFails, NoJob
<1>13. CommitFails => job'.op = "none" /\ saved' = saved
    BY DEF CommitFails, NoJob
<1>14. PutDone \/ DeleteDone \/ IndexDone => job'.op = job.op /\ saved' = saved
    <2>1. job \in Jobs
        BY DEF TInv, JobType
    <2>2. PutDone \/ DeleteDone \/ IndexDone => saved' = saved /\ \E next, after : Finish(next, after)
        BY DEF PutDone, DeleteDone, IndexDone
    <2> QED  BY <2>1, <2>2 DEF Finish, Jobs
<1>15. Open => job'.op = "none" /\ saved' = saved
    BY DEF Open, NoJob
<1>16. Recovered => job'.op = "none" /\ saved' = saved
    BY DEF Recovered, NoJob
<1>17. job.op \notin {"create", "drop", "narrow_drop"}
    BY DEF Lasting
<1> QED  BY <1>1, <1>2, <1>3, <1>4, <1>5, <1>6, <1>7, <1>8, <1>9, <1>10, <1>11, <1>12, <1>13,
            <1>14, <1>15, <1>16, <1>17, <1>18 DEF Next, WriteFails

\* Every step keeps each cut of the log complete.
LEMMA NextLasting ==
    Stable /\ TInv /\ Control /\ Truth /\ Found /\ Built /\ Lasting /\ [Next]_vars => Lasting'
<1> SUFFICES ASSUME Stable, TInv, Control, Truth, Found, Built, Lasting, [Next]_vars  PROVE Lasting'
    OBVIOUS
<1>1. /\ log \in Seq(Batches) /\ Len(log) \in Nat /\ base \in Maps /\ Kv \in Maps /\ IsMap(base)
      /\ job.todo \in Seq(Batches)
    BY LogTypes, Settled, MapsAreMaps DEF TInv, EngineType, JobType, Jobs
<1>2. SubSeq(log, 1, Len(log)) = log
    BY <1>1
<1>3. CASE UNCHANGED vars
    <2>1. UNCHANGED <<base, log, saved, job, pc>>
        BY <1>3 DEF vars, engine
    <2> QED  BY <2>1 DEF Lasting
<1>4. ASSUME Next  PROVE Lasting'
    <2>1. /\ job'.op \notin {"create", "drop", "narrow_drop"}
          /\ job.op \notin {"create", "drop", "narrow_drop"}
          /\ saved' = saved \/ (pc = "persist" /\ saved' = schema /\ UNCHANGED <<base, log>>)
        BY <1>4, StableOps DEF Lasting
    <2>2. pc # "down" => saved.status = schema.status
        BY <2>1 DEF Built
    <2>3. saved'.status = saved.status
        BY <2>1, <2>2
    <2>4. IndexesWith(saved', "building") = {} /\ IndexesWith(saved', "ready") = IndexesWith(saved, "ready")
        BY <2>3 DEF Lasting, IndexesWith
    <2>5. ASSUME NEW ix \in IndexesWith(saved, "ready"), NEW m
          PROVE  /\ Complete(m, saved', ix) = Complete(m, saved, ix)
                 /\ Complete(m, saved, ix) = Complete(m, schema, ix)
        <3>1. ix \in Indexes /\ saved.status[ix] = "ready"
            BY DEF IndexesWith
        <3>2. Complete(m, saved, ix) = Complete(m, schema, ix)
            BY <3>1, SavedComplete
        <3> QED  BY <2>1, <3>2
    <2>6. ASSUME pc' # "truncate", NEW i \in 0 .. Len(log'), NEW ix \in IndexesWith(saved, "ready")
          PROVE  Complete(Replayed(base', SubSeq(log', 1, i)), saved, ix)
        <3>1. ix \in Indexes /\ saved.status[ix] = "ready"
            BY <2>6 DEF IndexesWith
        <3>2. ASSUME pc # "down"  PROVE Sound(ix)
            BY <2>1, <2>2, <3>1, <3>2, HeldReady DEF Found
        <3>3. CASE UNCHANGED <<base, log>> /\ pc # "truncate"
            BY <2>6, <3>3 DEF Lasting
        <3>4. CASE WriteOne \/ LogBlock
            <4>1. PICK b \in Batches : log' = Append(log, b)
                <5>1. WriteOne => \E b \in Batches : log' = Append(log, b)
                    BY WriteKeepsFinal
                <5>2. LogBlock => log' = Append(log, pending)
                    BY DEF LogBlock
                <5>3. pending \in Batches
                    BY DEF TInv, StateType
                <5> QED  BY <3>4, <5>1, <5>2, <5>3
            <4>2. base' = base /\ pc \in {"write", "block"}
                BY <3>4 DEF WriteOne, LogBlock
            <4>3. Complete(Kv', schema, ix)
                <5>1. CASE WriteOne
                    <6>1. PICK j \in DOMAIN job.todo : \E w \in job.todo[j] :
                            /\ Current(job.todo, j) /\ {w} \in Batches
                            /\ job'.todo = Without(job.todo, j, w)
                            /\ Kv' = Apply(Kv, {w}) /\ View = Kv
                        BY <5>1, WriteKeepsFinal
                    <6>2. PICK w \in job.todo[j] :
                            /\ Current(job.todo, j) /\ {w} \in Batches
                            /\ job'.todo = Without(job.todo, j, w)
                            /\ Kv' = Apply(Kv, {w}) /\ View = Kv
                        BY <6>1
                    <6>3. job.op \in {"put", "cas", "delete", "narrow_create"}
                        BY <2>1, <5>1 DEF WriteOne, Control, Course, Writers
                    <6>4. Cuttable(ix)
                        BY <3>1, <6>3, StableCuts
                    <6>5. Safe(Kv, job.todo, schema, ix)
                        BY <3>2, <4>2, <6>2, <6>4 DEF Sound
                    <6>6. Safe(Apply(Kv, {w}), Without(job.todo, j, w), schema, ix)
                        BY <1>1, <6>2, <6>5, SafeWrite
                    <6>7. Apply(Kv, {w}) \in Maps
                        BY <1>1, <6>2, ApplyType
                    <6>8. Without(job.todo, j, w) \in Seq(Batches)
                        BY <1>1, <6>2, NextWrite
                    <6> QED  BY <6>2, <6>6, <6>7, <6>8, SafeEnds
                <5>2. CASE LogBlock
                    <6>1. Kv' = View /\ Final = View
                        BY <5>2, BlockKeepsView
                    <6> QED  BY <3>2, <4>2, <6>1 DEF Sound
                <5> QED  BY <3>4, <5>1, <5>2
            <4>4. CASE i = Len(log')
                <5>1. SubSeq(log', 1, i) = log'
                    BY <1>1, <4>1, <4>4
                <5>2. Replayed(base', SubSeq(log', 1, i)) = Kv'
                    BY <5>1 DEF Kv
                <5> QED  BY <2>5, <4>3, <5>2
            <4>5. CASE i # Len(log')
                <5>1. i \in 0 .. Len(log) /\ SubSeq(log', 1, i) = SubSeq(log, 1, i)
                    BY <1>1, <2>6, <4>1, <4>5
                <5> QED  BY <4>2, <5>1 DEF Lasting
            <4> QED  BY <4>4, <4>5
        <3>5. CASE SaveTables
            BY <2>6, <3>5 DEF SaveTables
        <3>6. CASE Truncate
            <4>1. log' = <<>> /\ base' = base /\ base = Kv /\ pc = "truncate"
                BY <3>6 DEF Truncate, Control, Commits
            <4>2. SubSeq(log', 1, i) = <<>>
                BY <2>6, <4>1
            <4>3. Replayed(base', SubSeq(log', 1, i)) = Kv
                BY <1>1, <4>1, <4>2, EmptyLog
            <4>4. pending = {}
                BY <4>1 DEF Control, WorkLeft
            <4>5. View = Kv
                BY <4>4, Settled
            <4> QED  BY <2>1, <2>2, <4>1, <4>3, <4>5, StableNow
        <3>7. CASE Crash
            <4>1. PICK n \in synced .. Len(log) : log' = SubSeq(log, 1, n)
                BY <3>7 DEF Crash
            <4>2. base' = base /\ pc # "truncate"
                BY <3>7 DEF Crash, MayCrash, Stable
            <4>3. synced \in Nat
                BY <1>1 DEF TInv, EngineType
            <4>4. n \in Nat /\ n <= Len(log)
                BY <1>1, <4>1, <4>3
            <4>5. Len(log') = n
                BY <1>1, <4>1, <4>4
            <4>6. i \in 0 .. Len(log) /\ i <= n
                BY <1>1, <2>6, <4>4, <4>5
            <4>7. SubSeq(log', 1, i) = SubSeq(log, 1, i)
                BY <1>1, <4>1, <4>4, <4>6
            <4> QED  BY <4>2, <4>6, <4>7 DEF Lasting
        <3> QED  BY <1>4, <3>3, <3>4, <3>5, <3>6, <3>7, LogSteps DEF Stable
    <2> QED  BY <2>1, <2>4, <2>5, <2>6 DEF Lasting
<1> QED  BY <1>3, <1>4

\* The indexes of an empty store are READY or none.
LEMMA SchemaStatus ==
    \A ix \in Indexes : SchemaWith(InitialReady).status[ix] \in {"none", "ready"}
<1> DEFINE t == Allot(NoSchema, SetToSeq(UNION {ToSet(ix) : ix \in InitialReady}))
<1>1. t = [next |-> t.next, idOf |-> t.idOf, status |-> t.status]
    BY DEF Allot
<1> HIDE DEF t
<1>2. SchemaWith(InitialReady)
        = [t EXCEPT !.status = [ix \in Indexes |-> IF ix \in InitialReady THEN "ready" ELSE "none"]]
    BY DEF SchemaWith, t
<1>3. SchemaWith(InitialReady).status = [ix \in Indexes |-> IF ix \in InitialReady THEN "ready" ELSE "none"]
    BY <1>1, <1>2
<1> QED  BY <1>3

-----------------------------------------------------------------------------
(* The theorems.                                                           *)

\* Only a crash, and the end or the failure of close, take a store down.
LEMMA Stops ==
    ASSUME Findable, TInv, Control, Next, pc' = "down"
    PROVE  \/ Crash
           \/ Truncate /\ job.op = "close"
           \/ /\ job.op = "close" /\ pc \in {"write", "save", "truncate", "persist"}
              /\ UNCHANGED <<base, log, saved>>
<1>1. /\ \A e \in Ids, x \in Inputs : ~PutEntity(e, x) /\ ~TxUpdate(e, x)
      /\ \A e \in Ids, u \in Updates : ~CasUpdate(e, u) /\ ~TxCasUpdate(e, u)
      /\ \A e \in Ids : ~DeleteEntity(e) /\ ~TxDelete(e)
    BY DEF PutEntity, TxUpdate, CasUpdate, TxCasUpdate, DeleteEntity, TxDelete, InTransaction
<1>2. \A ix \in Indexes : /\ ~CreateIndex(ix) /\ ~DropIndex(ix) /\ ~RecoverIndex(ix)
                         /\ ~NarrowCreateIndex(ix) /\ ~NarrowDropIndex(ix)
    BY DEF CreateIndex, DropIndex, RecoverIndex, StartCreate, NarrowCreateIndex, NarrowDropIndex
<1>3. ~Flush /\ ~Close /\ ~Begin /\ ~Abort /\ ~StartCommit /\ ~LogBlock /\ ~Sync /\ ~CommitFails
    BY DEF Flush, Close, Begin, Abort, StartCommit, LogBlock, Sync, CommitFails
<1>4. ~WriteOne /\ ~SaveTables /\ ~Open /\ ~Recovered
    BY DEF WriteOne, SaveTables, Open, Recovered
<1>5. (job.back = "down" => job.op = "close") /\ (job.back = "recover" => job.op = "create")
    BY DEF Control, Course
<1>6. Truncate => job.op = "close"
    BY <1>5 DEF Truncate
<1>7. ~Persist
    BY DEF Persist, Control, Course
<1>8. ~PutDone /\ ~DeleteDone /\ ~IndexDone
    BY DEF PutDone, DeleteDone, IndexDone, Finish
<1>9. ASSUME NEW step \in {"write", "save", "truncate", "persist"}, CallFails(step)
      PROVE  job.op = "close" /\ pc = step /\ UNCHANGED <<base, log, saved>>
    <2>1. job.op \in Faults /\ (job.op = "close" \/ job.back = "recover")
        BY <1>9 DEF CallFails
    <2>2. pc = step /\ UNCHANGED <<base, log, saved>>
        BY <1>9 DEF CallFails, engine
    <2> QED  BY <1>5, <2>1, <2>2 DEF Findable
<1> QED  BY <1>1, <1>2, <1>3, <1>4, <1>6, <1>7, <1>8, <1>9 DEF Next, WriteFails

\* What holds of the indexes in every state.
Indexed == /\ TInv /\ Control /\ Truth
           /\ Found /\ Built /\ Closed /\ (Stable => Lasting)

\* A store that goes down has its READY indexes complete.
LEMMA NextClosed == Findable /\ Indexed /\ [Next]_vars => Closed'
<1> SUFFICES ASSUME Findable, Indexed, [Next]_vars, pc' = "down",
                    NEW ix \in IndexesWith(saved', "ready")
             PROVE  Complete(Kv', saved', ix)
    BY DEF Closed
<1>1. TInv /\ Control /\ Truth /\ Found /\ Built /\ Closed /\ TInv' /\ Control' /\ (Stable => Lasting')
    BY NextTypes, NextControl, NextLasting DEF Indexed
<1>2. CASE UNCHANGED vars
    <2>1. UNCHANGED <<base, log, saved, pc>>
        BY <1>2 DEF vars, engine
    <2>2. Kv' = Kv
        BY <2>1 DEF Kv
    <2> QED  BY <1>1, <2>1, <2>2 DEF Closed
<1>3. CASE Stable
    <2>1. log' \in Seq(Batches)
        BY <1>1 DEF TInv, EngineType
    <2>2. Len(log') \in 0 .. Len(log') /\ SubSeq(log', 1, Len(log')) = log'
        BY <2>1
    <2>3. Kv' = Replayed(base', log')
        BY DEF Kv
    <2> QED  BY <1>1, <1>3, <2>2, <2>3 DEF Lasting
<1>4. ASSUME Next, ~Stable  PROVE Complete(Kv', saved', ix)
    <2>1. CASE Crash
        <3>1. /\ CrashAt \subseteq {"create"} /\ CrashAt # {} /\ "recreate" \notin Calls
              /\ \A ix1, ix2 \in Indexes : ix1 = ix2
            BY <1>4, <2>1 DEF Findable, Crash, MayCrash
        <3>2. pc \in Steps
            BY <1>1 DEF TInv, StateType
        <3>3. pc = "write" /\ job.op = "create"
            BY <2>1, <3>1, <3>2 DEF Crash, MayCrash, Steps
        <3>4. schema.status[job.ix] = "building" /\ saved.status = schema.status
            BY <1>1, <3>1, <3>3 DEF Built, Under, Busy
        <3>5. saved' = saved
            BY <2>1 DEF Crash
        <3>6. job.ix \in Indexes /\ ix \in Indexes /\ saved'.status[ix] = "ready"
            BY <1>1, <3>3 DEF TInv, JobType, IndexesWith
        <3>7. ix = job.ix
            BY <3>1, <3>6
        <3> QED  BY <3>4, <3>5, <3>6, <3>7
    <2>2. ASSUME job.op = "close", pc \in {"write", "save", "truncate", "persist"}, saved' = saved, Kv' = Kv
          PROVE  Complete(Kv', saved', ix)
        <3>1. pending = {} /\ saved.status = schema.status
            BY <1>1, <2>2 DEF Control, WorkLeft, Built
        <3>2. View = Kv
            BY <1>1, <3>1, Settled
        <3>3. ix \in IndexesWith(saved, "ready") /\ job.op \notin Writers
            BY <2>2 DEF Writers
        <3> QED  BY <1>1, <2>2, <3>1, <3>2, <3>3, StableNow
    <2>3. CASE Truncate /\ job.op = "close"
        <3>1. Kv' = Kv /\ saved' = saved /\ pc = "truncate"
            BY <1>1, <2>3, MovesKeepMap DEF Truncate
        <3> QED  BY <2>2, <2>3, <3>1
    <2>4. CASE /\ job.op = "close" /\ pc \in {"write", "save", "truncate", "persist"}
               /\ UNCHANGED <<base, log, saved>>
        BY <2>2, <2>4 DEF Kv
    <2> QED  BY <1>1, <1>4, <2>1, <2>3, <2>4, Stops
<1> QED  BY <1>2, <1>3, <1>4

\* An empty store: its indexes are READY, and there is nothing to list.
LEMMA InitIndexed == Init => Indexed
<1> SUFFICES ASSUME Init  PROVE Indexed
    OBVIOUS
<1>1. TInv /\ Control /\ Truth
    BY InitTypes, InitControl, InitKnown, InitOwn, InitReads DEF Truth, Truthful
<1>2. /\ base = <<>> /\ log = <<>> /\ saved = schema /\ pc = "idle"
      /\ job.op = "none" /\ job.back = "idle" /\ job.todo = <<>>
    BY DEF Init, NoJob
<1>3. <<>> \in Maps
    BY <1>1, <1>2 DEF TInv, EngineType
<1>4. ASSUME NEW ix \in Indexes, schema.status[ix] # "none"  PROVE Complete(<<>>, schema, ix)
    <2>1. schema \in Schemas /\ Numbered(schema, ix)
        BY <1>1, <1>4, HeldNumbered DEF TInv, SchemaType
    <2>2. \A e \in Ids : Lists(<<>>, schema, ix, e)
        <3> SUFFICES ASSUME NEW e \in Ids  PROVE ~HasAll(<<>>, schema, ix, e)
            BY DEF Lists
        <3>1. \A k : Val(<<>>, k) = None
            BY DEF Val
        <3>2. ix \in Seq(Names) /\ ix # <<>>
            BY <2>1, NumberedIds
        <3>3. 1 \in DOMAIN ix
            BY <3>2
        <3> QED  BY <3>1, <3>3 DEF HasAll
    <2> QED  BY <1>3, <2>1, <2>2, CompleteLists
<1>5. Replayed(<<>>, <<>>) = <<>>
    BY <1>3, MapsAreMaps, EmptyLog
<1>6. Kv = <<>> /\ Final = <<>> /\ View = <<>>
    <2>1. Kv = <<>>
        BY <1>2, <1>5 DEF Kv
    <2> QED  BY <1>1, <1>2, <2>1, Settled
<1>7. Found
    BY <1>2, <1>4, <1>6 DEF Found, Held, Under, Busy, Sound, Cuttable, InTx
<1>8. \A ix \in Indexes : schema.status[ix] \in {"none", "ready"}
    BY SchemaStatus DEF Init
<1>9. Built
    BY <1>2, <1>8 DEF Built, Under, IndexesWith
<1>10. Lasting
    <2>1. IndexesWith(saved, "building") = {}
        BY <1>2, <1>8 DEF IndexesWith
    <2>2. \A i \in 0 .. Len(log) : SubSeq(log, 1, i) = <<>>
        BY <1>2
    <2>3. \A ix \in IndexesWith(saved, "ready") : Complete(<<>>, saved, ix)
        BY <1>2, <1>4 DEF IndexesWith
    <2> QED  BY <1>2, <1>5, <2>1, <2>2, <2>3 DEF Lasting
<1> QED  BY <1>1, <1>2, <1>7, <1>9, <1>10 DEF Indexed, Closed

\* Every step.
LEMMA NextIndexed == Findable /\ Indexed /\ [Next]_vars => Indexed'
<1>1. SchemaFirst /\ TInv /\ Control /\ Truthful /\ [Next]_vars => Truthful'
    BY NextKnown, NextOwn, NextReads DEF Truthful
<1>2. TInv /\ Control /\ Truth /\ [Next]_vars => Truth'
    BY <1>1 DEF Truth
<1> QED  BY <1>2, NextTypes, NextControl, NextFound, NextBuilt, NextLasting, NextClosed DEF Indexed

\* No index that find or find_composite accepts misses an entity, whatever was
\* put, deleted, committed, given up, created, dropped or reopened in between.
THEOREM IndexesFindAll == Findable => (Spec => []FindsAll)
<1> SUFFICES ASSUME Findable  PROVE Spec => []FindsAll
    OBVIOUS
<1>1. Init => Indexed
    BY InitIndexed
<1>2. Indexed /\ [Next]_vars => Indexed'
    BY NextIndexed
<1>3. Indexed => FindsAll
    <2> SUFFICES ASSUME Indexed, pc \in {"idle", "tx"}, NEW ix \in Indexes, Usable(ix)
                 PROVE  Complete(View, schema, ix)
        BY DEF FindsAll
    <2>1. TInv /\ Control /\ Found /\ Built
        BY DEF Indexed
    <2>2. IndexesWith(schema, "building") = {}
        BY <2>1 DEF Built, Under, Busy
    <2>3. schema.status[ix] \in Statuses
        BY <2>1 DEF TInv, SchemaType, Schemas
    <2>4. schema.status[ix] = "ready"
        BY <2>2, <2>3 DEF Usable, IndexesWith, Statuses
    <2>5. Complete(Final, schema, ix)
        BY <2>1, <2>4, HeldReady DEF Found, Sound
    <2> QED  BY <2>1, <2>5, Settled
<1> QED  BY <1>1, <1>2, <1>3, PTL DEF Spec

\* What a crash leaves of an index that SCHEMA calls READY, and that open does
\* not rebuild, lists every entity that the crash leaves.
THEOREM IndexesSurvive == Findable /\ Stable => (Spec => []ReadyIndexSurvives)
<1> SUFFICES ASSUME Findable, Stable  PROVE Spec => []ReadyIndexSurvives
    OBVIOUS
<1>1. Init => Indexed
    BY InitIndexed
<1>2. Indexed /\ [Next]_vars => Indexed'
    BY NextIndexed
<1>3. Indexed => ReadyIndexSurvives
    <2> SUFFICES ASSUME Indexed, MayCrash, NEW n \in synced .. Len(log),
                        NEW ix \in IndexesWith(saved, "ready")
                 PROVE  Complete(Replayed(base, SubSeq(log, 1, n)), saved, ix)
        BY DEF ReadyIndexSurvives, AfterCrash, Survivors
    <2>1. TInv /\ Lasting
        BY DEF Indexed
    <2>2. pc # "truncate"
        BY DEF MayCrash, Stable
    <2>3. synced \in Nat /\ Len(log) \in Nat
        BY <2>1, LogTypes DEF TInv, EngineType
    <2>4. n \in 0 .. Len(log)
        BY <2>3
    <2> QED  BY <2>1, <2>2, <2>4 DEF Lasting
<1> QED  BY <1>1, <1>2, <1>3, PTL DEF Spec

=============================================================================

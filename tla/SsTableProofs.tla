--------------------------- MODULE SsTableProofs ---------------------------
(***************************************************************************)
(* Theorems about a table file, for all keys, block lengths, bloom bits,   *)
(* contents and queries: the sparse index points at its records and has    *)
(* the table's bounds, and a lookup or a range scan, which goes through    *)
(* the bloom filter, the binary search and a linear read, yields what was  *)
(* asked for, in key order.                                                *)
(***************************************************************************)
EXTENDS SsTable, TableLemmas

-----------------------------------------------------------------------------
(* The inductive invariant.                                                *)

\* What the builder has written: the records of the least keys of the contents
\* in key order, and their bits.
RecordsInv ==
    /\ \A i \in DOMAIN records :
          /\ records[i].key \in KeysOf(contents)
          /\ records[i] = RecordOf(records[i].key)
          /\ Bits[records[i].key] \subseteq bloom
          /\ \A j \in DOMAIN records : i < j => records[i].key < records[j].key
          /\ \A k \in ToAdd : records[i].key < k
    /\ pc # "build" => ToAdd = {}

\* The index begins with the first record, and from finish() on ends with the
\* last.
IndexInv ==
    /\ \A i \in DOMAIN index :
        /\ index[i].at \in DOMAIN records
        /\ records[index[i].at].key = index[i].key
        /\ \A j \in DOMAIN index : i < j => index[i].at < index[j].at
    /\ records = <<>> => index = <<>> /\ sinceIndex = 0
    /\ records # <<>> => index # <<>> /\ index[1].at = 1
    /\ pc = "build" /\ lastIndexed => index[Len(index)].at = Len(records)
    /\ pc = "build" /\ ~lastIndexed =>
          \A i \in DOMAIN index : index[i].at < Len(records)
    /\ pc # "build" /\ records # <<>> => index[Len(index)].at = Len(records)

\* The entries up to lo are not above the key sought, those from hi on are.
SearchInv ==
    pc = "search" =>
        /\ query.from \in Keys
        /\ lo <= hi /\ hi <= Len(index)
        /\ \A i \in DOMAIN index :
              /\ i <= lo => index[i].key <= query.from
              /\ i > hi => query.from < index[i].key

Yielded == {out[i].key : i \in DOMAIN out}

\* Of the records before pos, those not below the range have been yielded, and
\* no others; a lookup that has found its record is done.
ReadInv ==
    /\ pc \in {"build", "open", "search"} => out = <<>>
    /\ pc = "read" =>
          /\ \A i \in DOMAIN records :
                i < pos /\ From(records[i].key, query.from) => records[i].key \in Yielded
          /\ \A k \in Yielded : \E i \in DOMAIN records : i < pos /\ records[i].key = k
    /\ pc = "found" => query.kind = "lookup" /\ query.from \in Yielded

IInv == TypeOK /\ RecordsInv /\ IndexInv /\ SearchInv /\ ReadInv

-----------------------------------------------------------------------------
(* Lemmas.                                                                 *)

\* Keys are integers.
LEMMA KeysAreInts == Keys \subseteq Int /\ KeysOf(contents) \subseteq Keys
BY KeysAssumption DEF KeysOf

\* The last place of a sequence that is not empty.
LEMMA LastPlace ==
    ASSUME NEW S, NEW s \in Seq(S)
    PROVE  /\ Len(s) \in Nat /\ DOMAIN s = 1 .. Len(s)
           /\ s # <<>> => Len(s) \in DOMAIN s /\ 1 \in DOMAIN s /\ Len(s) >= 1
           /\ s = <<>> => Len(s) = 0
<1>1. Len(s) \in Nat /\ DOMAIN s = 1 .. Len(s)
    BY LenProperties
<1>2. s # <<>> => Len(s) # 0
    BY EmptySeq
<1> QED  BY <1>1, <1>2

\* A record appended to a sequence.
LEMMA AppendIs ==
    ASSUME NEW S, NEW s \in Seq(S), NEW e \in S
    PROVE  /\ Append(s, e) \in Seq(S) /\ Len(Append(s, e)) = Len(s) + 1
           /\ Append(s, e) # <<>>
           /\ Append(s, e)[Len(s) + 1] = e
           /\ DOMAIN Append(s, e) = DOMAIN s \cup {Len(s) + 1}
           /\ Len(s) + 1 \notin DOMAIN s
           /\ \A i \in DOMAIN s : Append(s, e)[i] = s[i]
<1>1. Len(s) \in Nat /\ DOMAIN s = 1 .. Len(s)
    BY LenProperties
<1>2. /\ Append(s, e) \in Seq(S) /\ Len(Append(s, e)) = Len(s) + 1
      /\ \A i \in 1 .. Len(s) : Append(s, e)[i] = s[i]
      /\ Append(s, e)[Len(s) + 1] = e
    BY AppendProperties
<1>3. DOMAIN Append(s, e) = 1 .. Len(s) + 1
    BY <1>2, LenProperties
<1>4. Append(s, e) # <<>>
    BY <1>1, <1>2, EmptySeq
<1> QED  BY <1>1, <1>2, <1>3, <1>4

-----------------------------------------------------------------------------
(* Building.                                                               *)

\* add() is given the least record that has not been added.
LEMMA NextToAdd ==
    ASSUME ToAdd # {}
    PROVE  Min(ToAdd) \in ToAdd /\ \A k \in ToAdd : Min(ToAdd) <= k
<1>1. ToAdd \subseteq KeysOf(contents) /\ ToAdd \in SUBSET Int
    BY TableKeys DEF ToAdd
<1>2. IsFiniteSet(ToAdd)
    BY <1>1, TableKeys, FS_Subset
<1> QED  BY <1>1, <1>2, FiniteMin

\* add() keeps types, records and index as they should be.
LEMMA AddStep ==
    ASSUME IInv, Add
    PROVE  IInv'
<1> DEFINE m == Min(ToAdd)
           n == Len(records) + 1
           e == EntryAt(m, n)
<1>1. /\ pc = "build" /\ records' = Append(records, RecordOf(m))
      /\ index' = IF sinceIndex = 0 THEN Append(index, e) ELSE index
      /\ lastIndexed' = (sinceIndex = 0)
      /\ sinceIndex' = (sinceIndex + 1) % Spacing
      /\ bloom' = bloom \cup Bits[m]
      /\ UNCHANGED <<contents, query, lo, hi, pos, out, pc>>
    BY DEF Add, search
<1>2. m \in ToAdd /\ \A k \in ToAdd : m <= k
    BY NextToAdd DEF Add
<1> HIDE DEF m
<1>3. /\ TypeOK /\ RecordsInv /\ IndexInv /\ m \in KeysOf(contents) /\ m \in Keys /\ m \in Int
      /\ records \in Seq(Record) /\ index \in Seq(IndexEntry)
    BY <1>2, KeysAreInts DEF IInv, TypeOK, ToAdd
<1>4. RecordOf(m) \in Record /\ RecordOf(m).key = m
    BY <1>3 DEF RecordOf, Record, TypeOK, Table, KeysOf
<1>5. n \in Nat \ {0} /\ Len(records) \in Nat /\ DOMAIN records = 1 .. Len(records)
    BY <1>3, LastPlace
<1>6. e \in IndexEntry /\ e.key = m /\ e.at = n
    BY <1>3, <1>5 DEF EntryAt, IndexEntry
<1> HIDE DEF e
<1>7. /\ records' \in Seq(Record) /\ records' # <<>>
      /\ Len(records') = n /\ records'[n] = RecordOf(m)
      /\ DOMAIN records' = DOMAIN records \cup {n} /\ n \notin DOMAIN records
      /\ \A i \in DOMAIN records : records'[i] = records[i]
    BY <1>1, <1>3, <1>4, AppendIs
<1>8. /\ index' \in Seq(IndexEntry)
      /\ sinceIndex = 0 =>
            /\ DOMAIN index' = DOMAIN index \cup {Len(index) + 1}
            /\ Len(index') = Len(index) + 1 /\ index'[Len(index) + 1] = e
            /\ index' # <<>> /\ Len(index) + 1 \notin DOMAIN index
      /\ sinceIndex # 0 => index' = index
      /\ \A i \in DOMAIN index : i \in DOMAIN index' /\ index'[i] = index[i]
    <2>1. CASE sinceIndex = 0
        BY <1>1, <1>3, <1>6, <2>1, AppendIs
    <2>2. CASE sinceIndex # 0
        BY <1>1, <1>3, <2>2
    <2> QED  BY <2>1, <2>2
<1>9. TypeOK'
    <2>1. sinceIndex' \in 0 .. Spacing - 1
        BY <1>1, <1>3, SpacingAssumption DEF TypeOK
    <2>2. bloom' \subseteq UNION {Bits[k] : k \in Keys}
        BY <1>1, <1>3 DEF TypeOK
    <2> QED  BY <1>1, <1>3, <1>7, <1>8, <2>1, <2>2 DEF TypeOK
<1>10. ToAdd' = ToAdd \ {m}
    <2>1. ASSUME NEW k \in KeysOf(contents)
          PROVE  (\A i \in DOMAIN records' : records'[i].key # k)
                    <=> (\A i \in DOMAIN records : records[i].key # k) /\ k # m
        BY <1>4, <1>7
    <2>2. KeysOf(contents)' = KeysOf(contents)
        BY <1>1 DEF KeysOf
    <2> QED  BY <2>1, <2>2 DEF ToAdd
<1>11. RecordsInv'
    <2>1. \A i \in DOMAIN records : records[i].key < m /\ i < n
        BY <1>2, <1>3, <1>5 DEF RecordsInv
    <2>2. \A k \in ToAdd' : m < k
        <3>1. \A k \in ToAdd : k \in Int
            BY KeysAreInts DEF ToAdd
        <3> QED  BY <1>2, <1>3, <1>10, <3>1
    <2>3. ASSUME NEW i \in DOMAIN records'
          PROVE  /\ records'[i].key \in KeysOf(contents)
                 /\ records'[i] = RecordOf(records'[i].key)
                 /\ Bits[records'[i].key] \subseteq bloom'
                 /\ \A k \in ToAdd' : records'[i].key < k
        <3>1. CASE i = n
            <4>1. records'[i] = RecordOf(m) /\ records'[i].key = m
                BY <1>4, <1>7, <3>1
            <4> QED  BY <1>1, <1>3, <2>2, <4>1
        <3>2. CASE i \in DOMAIN records
            <4>1. records'[i] = records[i]
                BY <1>7, <3>2
            <4>2. /\ records[i].key \in KeysOf(contents)
                  /\ records[i] = RecordOf(records[i].key)
                  /\ Bits[records[i].key] \subseteq bloom
                  /\ \A k \in ToAdd : records[i].key < k
                BY <1>3, <3>2 DEF RecordsInv
            <4> QED  BY <1>1, <1>10, <4>1, <4>2
        <3> QED  BY <1>7, <3>1, <3>2
    <2>4. ASSUME NEW i \in DOMAIN records', NEW j \in DOMAIN records', i < j
          PROVE  records'[i].key < records'[j].key
        <3>1. i \in DOMAIN records
            BY <1>5, <1>7, <2>1, <2>4
        <3>2. CASE j = n
            BY <1>4, <1>7, <2>1, <3>1, <3>2
        <3>3. CASE j \in DOMAIN records
            BY <1>3, <1>7, <2>4, <3>1, <3>3 DEF RecordsInv
        <3> QED  BY <1>7, <3>2, <3>3
    <2>5. ToAdd' = {} \/ pc' = "build"
        BY <1>1
    <2> QED  BY <1>1, <2>3, <2>4, <2>5 DEF RecordsInv, RecordOf, KeysOf
<1>12. IndexInv'
    <2>1. \A i \in DOMAIN index : index[i].at \in DOMAIN records /\ index[i].at < n
        BY <1>3, <1>5 DEF IndexInv
    <2>2. Len(index) \in Nat /\ DOMAIN index = 1 .. Len(index)
        BY <1>3, LastPlace
    <2>3. ASSUME NEW i \in DOMAIN index'
          PROVE  index'[i].at \in DOMAIN records' /\ records'[index'[i].at].key = index'[i].key
        <3>1. CASE i \in DOMAIN index
            <4>1. index'[i] = index[i] /\ index[i].at \in DOMAIN records
                BY <1>8, <2>1, <3>1
            <4>2. records[index[i].at].key = index[i].key
                BY <1>3, <3>1 DEF IndexInv
            <4> QED  BY <1>7, <4>1, <4>2
        <3>2. CASE i \notin DOMAIN index
            BY <1>4, <1>6, <1>7, <1>8, <3>2
        <3> QED  BY <3>1, <3>2
    <2>4. ASSUME NEW i \in DOMAIN index', NEW j \in DOMAIN index', i < j
          PROVE  index'[i].at < index'[j].at
        <3>1. i \in DOMAIN index
            BY <1>8, <2>2, <2>4
        <3>2. CASE j \in DOMAIN index
            BY <1>3, <1>8, <2>4, <3>1, <3>2 DEF IndexInv
        <3>3. CASE j \notin DOMAIN index
            BY <1>6, <1>8, <2>1, <3>1, <3>3
        <3> QED  BY <3>2, <3>3
    <2>5. index' # <<>> /\ index'[1].at = 1
        <3>1. CASE records = <<>>
            <4>1. sinceIndex = 0 /\ index = <<>> /\ Len(records) = 0
                BY <1>3, <3>1, LastPlace DEF IndexInv
            <4>2. Len(index) = 0
                BY <1>3, <4>1, LastPlace
            <4> QED  BY <1>6, <1>8, <4>1, <4>2
        <3>2. CASE records # <<>>
            <4>1. index # <<>> /\ index[1].at = 1 /\ 1 \in DOMAIN index
                BY <1>3, <3>2, LastPlace DEF IndexInv
            <4> QED  BY <1>8, <4>1
        <3> QED  BY <3>1, <3>2
    <2>6. lastIndexed' => index'[Len(index')].at = Len(records')
        BY <1>1, <1>6, <1>7, <1>8
    <2>7. ~lastIndexed' => \A i \in DOMAIN index' : index'[i].at < Len(records')
        BY <1>1, <1>7, <1>8, <2>1
    <2> QED  BY <1>1, <1>7, <2>3, <2>4, <2>5, <2>6, <2>7 DEF IndexInv
<1> QED
    BY <1>1, <1>9, <1>11, <1>12 DEF IInv, SearchInv, ReadInv

\* finish() closes the index with the last record.
LEMMA FinishStep ==
    ASSUME IInv, Finish
    PROVE  IInv'
<1> DEFINE n == Len(records)
           e == EntryAt(records[n].key, n)
<1>1. /\ pc = "build" /\ pc' = "open" /\ ToAdd = {}
      /\ index' = IF records # <<>> /\ ~lastIndexed THEN Append(index, e) ELSE index
      /\ UNCHANGED <<contents, records, sinceIndex, lastIndexed, bloom, query, lo, hi, pos, out>>
    BY DEF Finish, search
<1>2. /\ TypeOK /\ RecordsInv /\ IndexInv
      /\ records \in Seq(Record) /\ index \in Seq(IndexEntry)
    BY DEF IInv, TypeOK
<1>3. ToAdd' = ToAdd /\ RecordsInv'
    <2>1. ToAdd' = ToAdd /\ KeysOf(contents)' = KeysOf(contents)
        BY <1>1 DEF ToAdd, KeysOf
    <2>2. \A k : RecordOf(k)' = RecordOf(k)
        BY <1>1 DEF RecordOf
    <2> QED  BY <1>1, <1>2, <2>1, <2>2 DEF RecordsInv
<1>4. CASE records # <<>> /\ ~lastIndexed
    <2>1. n \in DOMAIN records /\ n \in Nat
        BY <1>2, <1>4, LastPlace
    <2>2. e \in IndexEntry /\ e.key = records[n].key /\ e.at = n
        <3>1. records[n].key \in Keys
            BY <1>2, <2>1, KeysAreInts DEF RecordsInv
        <3> QED  BY <2>1, <3>1 DEF EntryAt, IndexEntry
    <2> HIDE DEF n, e
    <2>3. /\ index' \in Seq(IndexEntry) /\ index' # <<>>
          /\ DOMAIN index' = DOMAIN index \cup {Len(index) + 1}
          /\ Len(index') = Len(index) + 1 /\ index'[Len(index) + 1] = e
          /\ \A i \in DOMAIN index : index'[i] = index[i]
        BY <1>1, <1>2, <1>4, <2>2, AppendIs
    <2>4. Len(index) \in Nat /\ DOMAIN index = 1 .. Len(index)
        BY <1>2, LastPlace
    <2>5. \A i \in DOMAIN index : index[i].at < n
        BY <1>1, <1>2, <1>4 DEF IndexInv, n
    <2>6. 1 \in DOMAIN index /\ index[1].at = 1
        BY <1>2, <1>4, LastPlace DEF IndexInv
    <2>7. \A i \in DOMAIN index' :
             index'[i].at \in DOMAIN records /\ records[index'[i].at].key = index'[i].key
        BY <1>2, <2>1, <2>2, <2>3 DEF IndexInv
    <2>8. ASSUME NEW i \in DOMAIN index', NEW j \in DOMAIN index', i < j
          PROVE  index'[i].at < index'[j].at
        <3>1. i \in DOMAIN index
            BY <2>3, <2>4, <2>8
        <3>2. CASE j \in DOMAIN index
            BY <1>2, <2>3, <2>8, <3>1, <3>2 DEF IndexInv
        <3>3. CASE j = Len(index) + 1
            BY <2>2, <2>3, <2>5, <3>1, <3>3
        <3> QED  BY <2>3, <3>2, <3>3
    <2>9. IndexInv'
        BY <1>1, <1>4, <2>2, <2>3, <2>6, <2>7, <2>8 DEF IndexInv, n
    <2> QED  BY <1>1, <1>2, <1>3, <2>3, <2>9 DEF IInv, TypeOK, SearchInv, ReadInv
<1>5. CASE ~(records # <<>> /\ ~lastIndexed)
    <2>1. index' = index
        BY <1>1, <1>5
    <2>2. IndexInv'
        BY <1>1, <1>2, <1>5, <2>1 DEF IndexInv
    <2> QED  BY <1>1, <1>2, <1>3, <2>1, <2>2 DEF IInv, TypeOK, SearchInv, ReadInv
<1> QED  BY <1>4, <1>5

-----------------------------------------------------------------------------
(* What a finished file holds.                                             *)

\* Every record of the contents is in the file.
LEMMA AllRecorded ==
    ASSUME IInv, pc # "build"
    PROVE  /\ \A k \in KeysOf(contents) : \E i \in DOMAIN records : records[i].key = k
           /\ \A i \in DOMAIN records : records[i].key \in KeysOf(contents)
BY DEF IInv, RecordsInv, ToAdd

\* Records are in key order, and places are numbers.
LEMMA RecordsSorted ==
    ASSUME IInv
    PROVE  /\ Len(records) \in Nat /\ DOMAIN records = 1 .. Len(records)
           /\ \A i \in DOMAIN records : records[i].key \in Keys /\ records[i].key \in Int
           /\ \A i, j \in DOMAIN records : i <= j => records[i].key <= records[j].key
           /\ \A i, j \in DOMAIN records : i < j => records[i].key < records[j].key
<1>1. Len(records) \in Nat /\ DOMAIN records = 1 .. Len(records)
    BY LastPlace DEF IInv, TypeOK
<1>2. \A i \in DOMAIN records : records[i].key \in Keys /\ records[i].key \in Int
    BY KeysAreInts DEF IInv, RecordsInv
<1>3. \A i, j \in DOMAIN records : i < j => records[i].key < records[j].key
    BY DEF IInv, RecordsInv
<1>4. ASSUME NEW i \in DOMAIN records, NEW j \in DOMAIN records, i <= j
      PROVE  records[i].key <= records[j].key
    BY <1>1, <1>2, <1>3, <1>4
<1> QED  BY <1>1, <1>2, <1>3, <1>4

\* So are the entries of the index.
LEMMA IndexSorted ==
    ASSUME IInv
    PROVE  /\ Len(index) \in Nat /\ DOMAIN index = 1 .. Len(index)
           /\ \A i \in DOMAIN index :
                 /\ index[i].at \in DOMAIN records
                 /\ records[index[i].at].key = index[i].key
                 /\ index[i].key \in Int
           /\ \A i, j \in DOMAIN index : i <= j => index[i].key <= index[j].key
<1>1. Len(index) \in Nat /\ DOMAIN index = 1 .. Len(index)
    BY LastPlace DEF IInv, TypeOK
<1>2. \A i \in DOMAIN index :
         /\ index[i].at \in DOMAIN records
         /\ records[index[i].at].key = index[i].key
         /\ \A j \in DOMAIN index : i < j => index[i].at < index[j].at
    BY DEF IInv, IndexInv
<1>3. \A i \in DOMAIN index : index[i].key \in Int
    BY <1>2, RecordsSorted
<1>4. ASSUME NEW i \in DOMAIN index, NEW j \in DOMAIN index, i <= j
      PROVE  index[i].key <= index[j].key
    <2>1. CASE i = j
        BY <1>3, <2>1
    <2>2. CASE i < j
        <3>1. index[i].at < index[j].at
            BY <1>2, <2>2
        <3>2. records[index[i].at].key < records[index[j].at].key
            BY <1>2, <3>1, RecordsSorted
        <3> QED  BY <1>2, <1>3, <3>2
    <2> QED  BY <1>1, <1>4, <2>1, <2>2
<1> QED  BY <1>1, <1>2, <1>3, <1>4

\* The first block begins with the first record.
LEMMA FirstOffsetIs ==
    ASSUME IInv
    PROVE  FirstOffset = 1
<1>1. index # <<>> => 1 \in DOMAIN index
    BY LastPlace DEF IInv, TypeOK
<1>2. index # <<>> => records # <<>>
    <2>1. index # <<>> => index[1].at \in DOMAIN records
        BY <1>1, IndexSorted
    <2>2. records = <<>> => DOMAIN records = {}
        BY LastPlace DEF IInv, TypeOK
    <2> QED  BY <2>1, <2>2
<1> QED  BY <1>2 DEF FirstOffset, IInv, IndexInv

-----------------------------------------------------------------------------
(* Reading.                                                                *)

\* The query says from where to where; a lookup asks for one key.
LEMMA QueryIs ==
    ASSUME TypeOK
    PROVE  /\ query.kind \in {"lookup", "range"}
           /\ query.from \in Keys \cup {Unbounded}
           /\ query.kind = "lookup" => query.from \in Keys
           /\ query.kind = "range" => query.to \in Keys \cup {Unbounded}
BY DEF TypeOK, LookupQuery, RangeQuery, Bound

\* What lies behind the range stays behind it.
LEMMA BeyondUp ==
    ASSUME TypeOK, NEW j \in Keys, NEW k \in Keys, j <= k, Beyond(j)
    PROVE  Beyond(k)
<1>1. j \in Int /\ k \in Int /\ \A x \in Keys : x \in Int
    BY KeysAreInts
<1>2. CASE query.kind = "lookup"
    <2>1. query.from \in Int /\ j > query.from
        BY <1>1, <1>2, QueryIs DEF Beyond
    <2> QED  BY <1>1, <1>2, <2>1 DEF Beyond
<1>3. CASE query.kind # "lookup"
    <2>1. query.to # Unbounded /\ query.to \in Int /\ ~(j < query.to)
        BY <1>1, <1>3, QueryIs DEF Beyond, Below
    <2> QED  BY <1>1, <1>3, <2>1 DEF Beyond, Below
<1> QED  BY <1>2, <1>3

\* The records that are asked for and have not been yielded.
LEMMA LeftIs ==
    /\ \A k : k \in Found!Left <=>
          /\ k \in KeysOf(contents) /\ From(k, query.from) /\ ~Beyond(k)
          /\ k \notin Yielded
    /\ \A k \in Found!Left : Asked[k] = contents[k]
<1>1. \A k \in Keys : Asked[k] = IF From(k, query.from) /\ ~Beyond(k) THEN contents[k] ELSE Absent
    BY DEF Asked
<1>2. \A k : k \in Found!Left <=> k \in Keys /\ Asked[k] # Absent /\ k \notin Yielded
    BY DEF Found!Left, Found!KeysOf, Yielded
<1> QED  BY <1>1, <1>2 DEF KeysOf

\* While a file is read, it and the query stay what they are.
LEMMA FileKept ==
    ASSUME UNCHANGED <<contents, file, query>>
    PROVE  /\ ToAdd' = ToAdd /\ Asked' = Asked
           /\ UNCHANGED <<contents, records, index, sinceIndex, lastIndexed, bloom, query>>
<1>1. UNCHANGED <<contents, records, index, sinceIndex, lastIndexed, bloom, query>>
    BY DEF file
<1>2. ToAdd' = ToAdd
    BY <1>1 DEF ToAdd, KeysOf
<1>3. Asked' = Asked
    BY <1>1 DEF Asked, Beyond
<1> QED  BY <1>1, <1>2, <1>3

\* So records and index stay as they should be.
LEMMA FileFrame ==
    ASSUME IInv, UNCHANGED <<contents, file, query>>, pc # "build", pc' # "build"
    PROVE  RecordsInv' /\ IndexInv'
<1>1. /\ UNCHANGED <<contents, records, index, sinceIndex, lastIndexed, bloom, query>>
      /\ ToAdd' = ToAdd
    BY FileKept
<1>2. RecordsInv'
    BY <1>1 DEF IInv, RecordsInv, RecordOf, KeysOf
<1>3. IndexInv'
    BY <1>1 DEF IInv, IndexInv
<1> QED  BY <1>2, <1>3

\* lookup() and a range scan begin; a key that the bloom filter excludes is not
\* in the file.
LEMMA StartStep ==
    ASSUME IInv, StartLookup \/ StartRange
    PROVE  IInv' /\ (pc' = "end" => Found!Left = {})
<1>1. /\ pc = "open" /\ pc' \in {"search", "read", "end"}
      /\ UNCHANGED <<contents, file, query, out>>
    BY DEF StartLookup, StartRange
<1>2. /\ UNCHANGED <<contents, records, index, sinceIndex, lastIndexed, bloom, query>>
      /\ RecordsInv' /\ IndexInv'
    BY <1>1, FileKept, FileFrame
<1>3. TypeOK /\ out = <<>> /\ Yielded = {} /\ Yielded' = {}
    BY <1>1 DEF IInv, ReadInv, Yielded
<1>4. Len(index) \in Nat /\ DOMAIN index = 1 .. Len(index)
    BY IndexSorted
<1>5. CASE StartLookup /\ Bits[query.from] \subseteq bloom
    <2>1. pc' = "search" /\ lo' = 0 /\ hi' = Len(index) /\ pos' = pos /\ query.kind = "lookup"
        BY <1>5 DEF StartLookup
    <2>2. query.from \in Keys
        BY <1>3, <2>1, QueryIs
    <2>3. TypeOK'
        BY <1>1, <1>2, <1>3, <1>4, <2>1 DEF TypeOK
    <2>4. SearchInv'
        BY <1>2, <1>4, <2>1, <2>2 DEF SearchInv
    <2>5. ReadInv'
        BY <1>1, <1>3, <2>1 DEF ReadInv
    <2> QED  BY <1>2, <2>1, <2>3, <2>4, <2>5 DEF IInv
<1>6. CASE StartLookup /\ ~(Bits[query.from] \subseteq bloom)
    <2>1. pc' = "end" /\ lo' = lo /\ hi' = hi /\ pos' = pos /\ query.kind = "lookup"
        BY <1>6 DEF StartLookup, search
    <2>2. TypeOK'
        BY <1>1, <1>2, <1>3, <2>1 DEF TypeOK
    <2>3. SearchInv' /\ ReadInv'
        BY <2>1 DEF SearchInv, ReadInv
    <2>4. ASSUME NEW k \in Found!Left  PROVE FALSE
        <3>1. k \in KeysOf(contents) /\ From(k, query.from) /\ ~Beyond(k)
            BY LeftIs
        <3>2. query.from \in Keys /\ query.from # Unbounded /\ k \in Keys
            BY <1>3, <2>1, <3>1, QueryIs, UnboundedAssumption, KeysAreInts
        <3> k \in Int /\ query.from \in Int
            BY <2>1, <3>1, <3>2, KeysAreInts
        <3>3. k = query.from
            BY <2>1, <3>1, <3>2 DEF From, Beyond
        <3>4. PICK i \in DOMAIN records : records[i].key = k
            BY <1>1, <3>1, AllRecorded
        <3> QED  BY <1>6, <3>3, <3>4 DEF IInv, RecordsInv
    <2> QED  BY <1>2, <2>1, <2>2, <2>3, <2>4 DEF IInv
<1>7. CASE StartRange /\ query.from = Unbounded
    <2>1. pc' = "read" /\ pos' = 1 /\ lo' = lo /\ hi' = hi
        BY <1>7, FirstOffsetIs DEF StartRange, search
    <2>2. TypeOK'
        BY <1>1, <1>2, <1>3, <2>1 DEF TypeOK
    <2>3. \A i \in DOMAIN records : ~(i < 1)
        BY RecordsSorted
    <2>4. SearchInv' /\ ReadInv'
        BY <1>2, <1>3, <2>1, <2>3 DEF SearchInv, ReadInv
    <2> QED  BY <1>2, <2>1, <2>2, <2>4 DEF IInv
<1>8. CASE StartRange /\ query.from # Unbounded
    <2>1. pc' = "search" /\ lo' = 0 /\ hi' = Len(index) /\ pos' = pos
        BY <1>8 DEF StartRange
    <2>2. query.from \in Keys
        BY <1>3, <1>8, QueryIs
    <2>3. TypeOK'
        BY <1>1, <1>2, <1>3, <1>4, <2>1 DEF TypeOK
    <2>4. SearchInv'
        BY <1>2, <1>4, <2>1, <2>2 DEF SearchInv
    <2>5. ReadInv'
        BY <1>1, <1>3, <2>1 DEF ReadInv
    <2> QED  BY <1>2, <2>1, <2>3, <2>4, <2>5 DEF IInv
<1> QED  BY <1>5, <1>6, <1>7, <1>8

\* A round of the binary search keeps what is known of both sides.
LEMMA HalveStep ==
    ASSUME IInv, Halve
    PROVE  IInv'
<1> DEFINE mid == (lo + hi) \div 2
<1>1. /\ pc = "search" /\ pc' = "search" /\ lo < hi
      /\ UNCHANGED <<contents, file, query, pos, out>>
      /\ IF index[mid + 1].key <= query.from
         THEN lo' = mid + 1 /\ hi' = hi
         ELSE hi' = mid /\ lo' = lo
    BY DEF Halve
<1>2. /\ UNCHANGED <<contents, records, index, sinceIndex, lastIndexed, bloom, query>>
      /\ RecordsInv' /\ IndexInv'
    BY <1>1, FileKept, FileFrame
<1>3. TypeOK /\ lo \in Nat /\ hi \in Nat /\ hi <= Len(index) /\ query.from \in Keys
    BY <1>1 DEF IInv, TypeOK, SearchInv
<1>4. mid \in Nat /\ lo <= mid /\ mid < hi
    BY <1>1, <1>3
<1> HIDE DEF mid
<1>5. /\ Len(index) \in Nat /\ DOMAIN index = 1 .. Len(index) /\ mid + 1 \in DOMAIN index
      /\ \A i \in DOMAIN index : index[i].key \in Int
      /\ \A i, j \in DOMAIN index : i <= j => index[i].key <= index[j].key
    BY <1>3, <1>4, IndexSorted
<1>6. \A i \in DOMAIN index : i <= lo => index[i].key <= query.from
    BY <1>1 DEF IInv, SearchInv
<1>7. \A i \in DOMAIN index : i > hi => query.from < index[i].key
    BY <1>1 DEF IInv, SearchInv
<1>8. query.from \in Int
    BY <1>3, KeysAreInts
<1>9. CASE index[mid + 1].key <= query.from
    <2>1. lo' = mid + 1 /\ hi' = hi
        BY <1>1, <1>9
    <2>2. ASSUME NEW i \in DOMAIN index, i <= mid + 1
          PROVE  index[i].key <= query.from
        <3>1. index[i].key <= index[mid + 1].key
            BY <1>5, <2>2
        <3> QED  BY <1>5, <1>8, <1>9, <3>1
    <2>3. SearchInv'
        BY <1>1, <1>2, <1>3, <1>4, <1>7, <2>1, <2>2 DEF SearchInv
    <2> QED  BY <1>1, <1>2, <1>3, <1>4, <2>1, <2>3 DEF IInv, TypeOK, ReadInv
<1>10. CASE ~(index[mid + 1].key <= query.from)
    <2>1. lo' = lo /\ hi' = mid
        BY <1>1, <1>10
    <2>2. ASSUME NEW i \in DOMAIN index, i > mid
          PROVE  query.from < index[i].key
        <3>1. index[mid + 1].key <= index[i].key
            BY <1>4, <1>5, <2>2
        <3> QED  BY <1>5, <1>8, <1>10, <3>1
    <2>3. SearchInv'
        BY <1>1, <1>2, <1>3, <1>4, <1>6, <2>1, <2>2 DEF SearchInv
    <2> QED  BY <1>1, <1>2, <1>3, <1>4, <2>1, <2>3 DEF IInv, TypeOK, ReadInv
<1> QED  BY <1>9, <1>10

\* The search ends at a block before which there is nothing to find.
LEMMA SeekStep ==
    ASSUME IInv, Seek
    PROVE  IInv'
<1>1. /\ pc = "search" /\ pc' = "read" /\ lo >= hi
      /\ pos' = IF lo = 0 THEN 1 ELSE index[lo].at
      /\ UNCHANGED <<contents, file, query, lo, hi, out>>
    BY FirstOffsetIs DEF Seek, search
<1>2. /\ UNCHANGED <<contents, records, index, sinceIndex, lastIndexed, bloom, query>>
      /\ RecordsInv' /\ IndexInv'
    BY <1>1, FileKept, FileFrame
<1>3. /\ TypeOK /\ lo \in Nat /\ hi \in Nat /\ lo <= hi /\ hi <= Len(index)
      /\ query.from \in Keys /\ out = <<>>
      /\ \A i \in DOMAIN index : i <= lo => index[i].key <= query.from
    BY <1>1 DEF IInv, TypeOK, SearchInv, ReadInv
<1>4. pos' \in Nat \ {0} /\ \A i \in DOMAIN records :
                               i < pos' => records[i].key < query.from
    <2>1. CASE lo = 0
        BY <1>1, <2>1, RecordsSorted
    <2>2. CASE lo # 0
        <3>1. /\ lo \in DOMAIN index /\ index[lo].at \in DOMAIN records
              /\ records[index[lo].at].key = index[lo].key
            BY <1>3, <2>2, IndexSorted
        <3>2. index[lo].key <= query.from /\ query.from \in Int
            <4>1. lo <= lo
                BY <1>3
            <4>2. query.from \in Int
                BY <1>3, KeysAreInts
            <4> QED  BY <1>3, <3>1, <4>1, <4>2
        <3>3. \A i \in DOMAIN records : i < index[lo].at => records[i].key < index[lo].key
            BY <3>1, RecordsSorted
        <3>4. \A i \in DOMAIN records : records[i].key \in Int
            BY RecordsSorted
        <3>5. index[lo].at \in Nat \ {0} /\ index[lo].key \in Int
            BY <3>1, RecordsSorted
        <3> QED  BY <1>1, <2>2, <3>2, <3>3, <3>4, <3>5
    <2> QED  BY <2>1, <2>2
<1>5. \A i \in DOMAIN records : i < pos' => ~From(records[i].key, query.from)
    <2>1. query.from # Unbounded /\ query.from \in Int
        BY <1>3, UnboundedAssumption, KeysAreInts
    <2> QED  BY <1>4, <2>1, RecordsSorted DEF From
<1>6. TypeOK'
    BY <1>1, <1>2, <1>3, <1>4 DEF TypeOK
<1>7. SearchInv' /\ ReadInv'
    <2>1. Yielded' = {}
        BY <1>1, <1>3 DEF Yielded
    <2> QED  BY <1>1, <1>2, <1>5, <2>1 DEF SearchInv, ReadInv
<1> QED  BY <1>2, <1>6, <1>7 DEF IInv

\* A record that is read over is not asked for.
LEMMA SkipStep ==
    ASSUME IInv, SkipRecord
    PROVE  IInv'
<1>1. /\ pc = "read" /\ pc' = "read" /\ pos' = pos + 1
      /\ ~From(records[pos].key, query.from)
      /\ UNCHANGED <<contents, file, query, lo, hi, out>>
    BY DEF SkipRecord, Here, search
<1>2. /\ UNCHANGED <<contents, records, index, sinceIndex, lastIndexed, bloom, query>>
      /\ RecordsInv' /\ IndexInv'
    BY <1>1, FileKept, FileFrame
<1>3. TypeOK /\ pos \in Nat
    BY DEF IInv, TypeOK
<1>4. TypeOK' /\ SearchInv'
    BY <1>1, <1>2, <1>3 DEF TypeOK, SearchInv
<1>5. \A i \in DOMAIN records : i < pos + 1 => i < pos \/ i = pos
    BY <1>3, RecordsSorted
<1>6. \A i \in DOMAIN records : i < pos => i < pos + 1
    BY <1>3, RecordsSorted
<1>7. ReadInv'
    <2>1. Yielded' = Yielded
        BY <1>1 DEF Yielded
    <2> QED  BY <1>1, <1>2, <1>5, <1>6, <2>1 DEF IInv, ReadInv
<1> QED  BY <1>2, <1>4, <1>7 DEF IInv

\* Yielding a record yields the least one that is left.
LEMMA YieldStep ==
    ASSUME IInv, YieldRecord
    PROVE  IInv' /\ Found!Yield
<1> DEFINE r == records[pos]
<1>1. /\ pc = "read" /\ pos' = pos + 1 /\ out' = Append(out, r)
      /\ From(r.key, query.from) /\ ~Beyond(r.key) /\ ~(pos > Len(records))
      /\ pc' = IF query.kind = "lookup" THEN "found" ELSE "read"
      /\ UNCHANGED <<contents, file, query, lo, hi>>
    BY DEF YieldRecord, Here, search, InReach, AtEnd
<1>2. /\ UNCHANGED <<contents, records, index, sinceIndex, lastIndexed, bloom, query>>
      /\ RecordsInv' /\ IndexInv'
    BY <1>1, FileKept, FileFrame
<1>3. TypeOK /\ pos \in Nat \ {0} /\ out \in Seq(Record) /\ records \in Seq(Record)
    BY DEF IInv, TypeOK
<1>4. pos \in DOMAIN records /\ r \in Record
    BY <1>1, <1>3, RecordsSorted, ElementOfSeq
<1>5. /\ r.key \in KeysOf(contents) /\ r = RecordOf(r.key) /\ r.key \in Keys /\ r.key \in Int
    BY <1>4, RecordsSorted DEF IInv, RecordsInv
<1> HIDE DEF r
<1>6. out' \in Seq(Record) /\ Yielded' = Yielded \cup {r.key}
    <2>1. /\ out' \in Seq(Record) /\ out'[Len(out) + 1] = r
          /\ DOMAIN out' = DOMAIN out \cup {Len(out) + 1}
          /\ \A i \in DOMAIN out : out'[i] = out[i]
        BY <1>1, <1>3, <1>4, AppendIs
    <2>2. Yielded' \subseteq Yielded \cup {r.key}
        BY <2>1 DEF Yielded
    <2>3. Yielded \cup {r.key} \subseteq Yielded'
        BY <2>1 DEF Yielded
    <2> QED  BY <2>1, <2>2, <2>3
<1>7. TypeOK' /\ SearchInv'
    BY <1>1, <1>2, <1>3, <1>6 DEF TypeOK, SearchInv
<1>8. ReadInv'
    <2>1. \A i \in DOMAIN records : i < pos + 1 => i < pos \/ i = pos
        BY <1>3, RecordsSorted
    <2>2. \A i \in DOMAIN records : i < pos => i < pos + 1
        BY <1>3, RecordsSorted
    <2>3. pos < pos + 1
        BY <1>3
    <2>4. /\ \A i \in DOMAIN records :
                i < pos /\ From(records[i].key, query.from) => records[i].key \in Yielded
          /\ \A k \in Yielded : \E i \in DOMAIN records : i < pos /\ records[i].key = k
        BY <1>1 DEF IInv, ReadInv
    <2>5. \A i \in DOMAIN records :
             i < pos + 1 /\ From(records[i].key, query.from) => records[i].key \in Yielded'
        BY <1>6, <2>1, <2>4 DEF r
    <2>6. \A k \in Yielded' : \E i \in DOMAIN records : i < pos + 1 /\ records[i].key = k
        BY <1>4, <1>6, <2>2, <2>3, <2>4 DEF r
    <2>7. query.kind = "lookup" => query.from = r.key
        <3> SUFFICES ASSUME query.kind = "lookup"  PROVE query.from = r.key
            OBVIOUS
        <3>1. query.from \in Keys /\ query.from # Unbounded /\ query.from \in Int
            BY <1>3, QueryIs, UnboundedAssumption, KeysAreInts
        <3> QED  BY <1>1, <1>5, <3>1 DEF From, Beyond
    <2> QED  BY <1>1, <1>2, <1>6, <2>5, <2>6, <2>7 DEF ReadInv
<1>9. r.key \notin Yielded
    <2> SUFFICES ASSUME r.key \in Yielded  PROVE FALSE
        OBVIOUS
    <2>1. PICK i \in DOMAIN records : i < pos /\ records[i].key = r.key
        BY <1>1 DEF IInv, ReadInv
    <2>2. records[i].key < records[pos].key
        BY <1>4, <2>1, RecordsSorted
    <2> QED  BY <1>5, <2>1, <2>2 DEF r
<1>10. r.key \in Found!Left
    BY <1>1, <1>5, <1>9, LeftIs
<1>11. ASSUME NEW k \in Found!Left  PROVE r.key <= k
    <2>1. k \in KeysOf(contents) /\ From(k, query.from) /\ k \notin Yielded
        BY LeftIs
    <2>2. PICK i \in DOMAIN records : records[i].key = k
        BY <1>1, <2>1, AllRecorded
    <2>3. ~(i < pos)
        BY <1>1, <2>1, <2>2 DEF IInv, ReadInv
    <2>4. pos <= i
        BY <1>3, <2>3, RecordsSorted
    <2> QED  BY <1>4, <2>2, <2>4, RecordsSorted DEF r
<1>12. Asked' = Asked
    BY <1>1, FileKept
<1>13. out' = Append(out, [key |-> r.key, val |-> Asked[r.key]])
    BY <1>1, <1>5, <1>10, LeftIs DEF RecordOf
<1>14. pc \notin {"end", "failed"} /\ pc' \notin {"end", "failed"}
    BY <1>1
<1> QED
    BY <1>2, <1>7, <1>8, <1>10, <1>11, <1>12, <1>13, <1>14 DEF IInv, Found!Yield

\* A read ends only when nothing that was asked for is left.
LEMMA EndStep ==
    ASSUME IInv, EndOfRead
    PROVE  IInv' /\ Found!Left = {}
<1>1. /\ pc = "found" \/ (pc = "read" /\ (pos > Len(records) \/ Beyond(records[pos].key)))
      /\ pc' = "end" /\ UNCHANGED <<contents, file, query, lo, hi, pos, out>>
    BY DEF EndOfRead, InReach, AtEnd, Here, search
<1>2. /\ UNCHANGED <<contents, records, index, sinceIndex, lastIndexed, bloom, query>>
      /\ RecordsInv' /\ IndexInv'
    BY <1>1, FileKept, FileFrame
<1>3. TypeOK /\ pos \in Nat \ {0}
    BY DEF IInv, TypeOK
<1>4. TypeOK' /\ SearchInv' /\ ReadInv'
    BY <1>1, <1>2, <1>3 DEF TypeOK, SearchInv, ReadInv
<1>5. ASSUME NEW k \in Found!Left  PROVE FALSE
    <2>1. /\ k \in KeysOf(contents) /\ From(k, query.from) /\ ~Beyond(k) /\ k \notin Yielded
          /\ k \in Keys
        BY LeftIs, KeysAreInts
    <2>2. CASE pc = "found"
        <3>1. query.kind = "lookup" /\ query.from \in Yielded
            BY <2>2 DEF IInv, ReadInv
        <3>2. query.from \in Keys /\ query.from # Unbounded
            BY <1>3, <3>1, QueryIs, UnboundedAssumption
        <3> k \in Int /\ query.from \in Int
            BY <2>1, <3>1, <3>2, KeysAreInts
        <3>3. k = query.from
            BY <2>1, <3>1, <3>2 DEF From, Beyond
        <3> QED  BY <2>1, <3>1, <3>3
    <2>3. CASE pc = "read"
        <3>1. PICK i \in DOMAIN records : records[i].key = k
            BY <2>1, <2>3, AllRecorded
        <3>2. ~(i < pos)
            BY <2>1, <2>3, <3>1 DEF IInv, ReadInv
        <3>3. pos <= i /\ pos \in DOMAIN records
            BY <1>3, <3>2, RecordsSorted
        <3>4. Beyond(records[pos].key)
            BY <1>1, <1>3, <2>3, <3>3, RecordsSorted
        <3>5. records[pos].key \in Keys /\ records[pos].key <= k
            BY <3>1, <3>3, RecordsSorted
        <3> QED  BY <1>3, <2>1, <3>4, <3>5, BeyondUp
    <2> QED  BY <1>1, <2>2, <2>3
<1> QED  BY <1>2, <1>4, <1>5 DEF IInv

\* Every step keeps the invariant and is one of the abstract scan, or none.
LEMMA NextFinds ==
    ASSUME IInv, [Next]_vars
    PROVE  IInv' /\ [Found!Yield \/ Found!End \/ Found!Fail]_Found!svars
<1>1. CASE Add \/ Finish
    <2>1. IInv'
        BY <1>1, AddStep, FinishStep
    <2>2. /\ contents' = contents /\ query' = query /\ out' = out
          /\ pc \notin {"end", "failed"} /\ pc' \notin {"end", "failed"}
        BY <1>1 DEF Add, Finish
    <2>3. Asked' = Asked
        BY <2>2 DEF Asked, Beyond
    <2> QED  BY <2>1, <2>2, <2>3 DEF Found!svars
<1>2. CASE StartLookup \/ StartRange
    <2>1. IInv' /\ (pc' = "end" => Found!Left = {})
        BY <1>2, StartStep
    <2>2. /\ out' = out /\ pc = "open" /\ pc' \in {"search", "read", "end"} /\ Asked' = Asked
        BY <1>2, FileKept DEF StartLookup, StartRange
    <2> QED  BY <2>1, <2>2 DEF Found!End, Found!svars
<1>3. CASE Halve \/ Seek \/ SkipRecord
    <2>1. IInv'
        BY <1>3, HalveStep, SeekStep, SkipStep
    <2>2. /\ out' = out /\ pc \in {"search", "read"} /\ pc' \in {"search", "read"}
          /\ Asked' = Asked
        BY <1>3, FileKept DEF Halve, Seek, SkipRecord
    <2> QED  BY <2>1, <2>2 DEF Found!svars
<1>4. CASE YieldRecord
    BY <1>4, YieldStep
<1>5. CASE EndOfRead
    <2>1. IInv' /\ Found!Left = {}
        BY <1>5, EndStep
    <2>2. out' = out /\ pc \in {"found", "read"} /\ pc' = "end" /\ Asked' = Asked
        BY <1>5, FileKept DEF EndOfRead
    <2> QED  BY <2>1, <2>2 DEF Found!End
<1>6. CASE ReadFails
    <2>1. /\ pc = "read" /\ pc' = "failed" /\ UNCHANGED <<contents, file, query, lo, hi, pos, out>>
        BY <1>6 DEF ReadFails, search
    <2>2. /\ UNCHANGED <<contents, records, index, sinceIndex, lastIndexed, bloom, query>>
          /\ RecordsInv' /\ IndexInv' /\ Asked' = Asked
        BY <2>1, FileKept, FileFrame
    <2>3. IInv'
        BY <2>1, <2>2 DEF IInv, TypeOK, SearchInv, ReadInv
    <2> QED  BY <2>1, <2>2, <2>3 DEF Found!Fail
<1>7. CASE UNCHANGED vars
    <2>1. /\ UNCHANGED <<contents, records, index, sinceIndex, lastIndexed, bloom>>
          /\ UNCHANGED <<query, lo, hi, pos, out, pc>>
        BY <1>7 DEF vars, file, search
    <2>2. ToAdd' = ToAdd /\ KeysOf(contents)' = KeysOf(contents) /\ Asked' = Asked
          /\ Yielded' = Yielded
        BY <2>1 DEF ToAdd, KeysOf, Asked, Beyond, Yielded
    <2>3. RecordsInv' /\ IndexInv'
        BY <2>1, <2>2 DEF IInv, RecordsInv, IndexInv, RecordOf
    <2>4. TypeOK' /\ SearchInv' /\ ReadInv'
        BY <2>1, <2>2 DEF IInv, TypeOK, SearchInv, ReadInv
    <2> QED  BY <2>1, <2>2, <2>3, <2>4 DEF IInv, Found!svars
<1> QED  BY <1>1, <1>2, <1>3, <1>4, <1>5, <1>6, <1>7 DEF Next, Step

\* An empty file is built first.
LEMMA InitFinds == Init => IInv /\ Found!SInit
<1> SUFFICES ASSUME Init  PROVE IInv /\ Found!SInit
    OBVIOUS
<1>1. TypeOK
    <2>1. 0 \in 0 .. Spacing - 1
        BY SpacingAssumption
    <2>2. records \in Seq(Record) /\ index \in Seq(IndexEntry) /\ out \in Seq(Record)
        BY DEF Init
    <2>3. bloom \subseteq UNION {Bits[k] : k \in Keys}
        BY DEF Init
    <2>4. lastIndexed \in BOOLEAN
        BY Zenon DEF Init
    <2>5. sinceIndex \in 0 .. Spacing - 1
        BY <2>1, Zenon DEF Init
    <2>6. lo \in Nat /\ hi \in Nat /\ pos \in Nat \ {0}
        BY DEF Init
    <2>7. /\ contents \in Table /\ query \in LookupQuery \cup RangeQuery
          /\ pc \in {"build", "open", "search", "read", "found", "end", "failed"}
        BY Zenon DEF Init
    <2> QED  BY <2>2, <2>3, <2>4, <2>5, <2>6, <2>7, Zenon DEF TypeOK
<1>2. RecordsInv /\ IndexInv /\ SearchInv /\ ReadInv
    BY DEF Init, RecordsInv, IndexInv, SearchInv, ReadInv
<1>3. Asked \in Table
    <2>1. \A k \in Keys : contents[k] \in Entry \cup {Absent}
        BY DEF Init, Table
    <2> QED  BY <2>1 DEF Asked, Table
<1> QED  BY <1>1, <1>2, <1>3 DEF IInv, Found!SInit, Found!Table, Found!Entry, Table, Entry, Init

\* The invariant holds in every reachable state.
LEMMA FileInvariance == Spec => []IInv
<1>1. Init => IInv
    BY InitFinds
<1>2. IInv /\ [Next]_vars => IInv'
    BY NextFinds
<1> QED  BY <1>1, <1>2, PTL DEF Spec

-----------------------------------------------------------------------------
(* The theorems.                                                           *)

\* The sparse index is in key order, points at its records, and begins and ends
\* with the bounds of the table, whatever the length of a block and the number
\* of records (TableBuilder::finish, TableReader::key_bounds).
THEOREM IndexAlwaysExact == Spec => []IndexExact
<1> SUFFICES ASSUME IInv  PROVE IndexExact
    BY FileInvariance, PTL
<1>1. ASSUME pc # "build", KeysOf(contents) # {}
      PROVE  /\ index # <<>>
             /\ index[1].key = MinKey(contents)
             /\ index[Len(index)].key = MaxKey(contents)
    <2> DEFINE n == Len(records)
    <2>1. /\ MinKey(contents) \in KeysOf(contents) /\ MaxKey(contents) \in KeysOf(contents)
          /\ \A k \in KeysOf(contents) : MinKey(contents) <= k /\ k <= MaxKey(contents)
        BY <1>1, TableBounds
    <2>2. PICK i \in DOMAIN records : records[i].key = MinKey(contents)
        BY <1>1, <2>1, AllRecorded
    <2>3. PICK j \in DOMAIN records : records[j].key = MaxKey(contents)
        BY <1>1, <2>1, AllRecorded
    <2>4. n \in Nat /\ DOMAIN records = 1 .. n
        BY RecordsSorted
    <2>5. 1 \in DOMAIN records /\ n \in DOMAIN records /\ 1 <= i /\ j <= n
        BY <2>2, <2>4
    <2>6. records[1].key \in KeysOf(contents) /\ records[n].key \in KeysOf(contents)
        BY <1>1, <2>5, AllRecorded
    <2>7. \A k \in KeysOf(contents) : k \in Int
        BY KeysAreInts
    <2> HIDE DEF n
    <2>8. records[1].key = MinKey(contents)
        <3>1. records[1].key <= records[i].key
            BY <2>5, RecordsSorted
        <3> QED  BY <2>1, <2>2, <2>6, <2>7, <3>1
    <2>9. records[n].key = MaxKey(contents)
        <3>1. records[j].key <= records[n].key
            BY <2>5, RecordsSorted
        <3> QED  BY <2>1, <2>3, <2>6, <2>7, <3>1
    <2>10. records # <<>>
        <3>1. records = <<>> => DOMAIN records = {}
            BY LastPlace DEF IInv, TypeOK
        <3> QED  BY <2>5, <3>1
    <2>11. index # <<>> /\ index[1].at = 1 /\ index[Len(index)].at = n
        BY <1>1, <2>10 DEF IInv, IndexInv, n
    <2>12. 1 \in DOMAIN index /\ Len(index) \in DOMAIN index
        BY <2>11, LastPlace DEF IInv, TypeOK
    <2> QED  BY <2>8, <2>9, <2>11, <2>12, IndexSorted
<1> QED  BY <1>1 DEF IInv, IndexInv, IndexExact

\* A table file implements the abstract scan: a lookup finds the record of its
\* key if the table has one, a range scan all records of the range in order,
\* wherever the bounds fall between the blocks and whatever the bloom filter says
\* of other keys (TableReader::lookup, block_offset_for, TableIter).
THEOREM ReadsFindRecords == Spec => FindsRecords
<1>1. Init => Found!SInit
    BY InitFinds
<1>2. IInv /\ [Next]_vars => [Found!Yield \/ Found!End \/ Found!Fail]_Found!svars
    BY NextFinds
<1> QED  BY <1>1, <1>2, FileInvariance, PTL DEF Spec, FindsRecords, Found!SSpec
=============================================================================

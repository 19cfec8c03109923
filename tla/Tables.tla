------------------------------- MODULE Tables -------------------------------
(***************************************************************************)
(* The data an LSM tree is made of, and the pure functions of the engine   *)
(* on it: a table (memtable or SSTable), the newest-first merge of tables, *)
(* the split of a merged table into segments, and the point lookup.        *)
(*                                                                         *)
(* Keys are byte strings under lexicographic order in the code; only their *)
(* order matters here, so they are integers.  A table is a total function  *)
(* on Keys: Absent where the table holds no record, Tombstone where it     *)
(* holds a deletion (`Entry = None' in the code).                          *)
(***************************************************************************)
EXTENDS Integers, Sequences, FiniteSetsExt

CONSTANTS
    Keys,        \* the finite set of keys
    Values,      \* the values a key may hold
    Tombstone,   \* the entry that records a deletion
    Absent,      \* "this table has no record of the key"
    SegMax       \* Options.segment_max_records

ASSUME KeysAssumption == Keys \subseteq Int /\ IsFiniteSet(Keys)
ASSUME EntryAssumption ==
    /\ Tombstone \notin Values
    /\ Absent \notin Values \cup {Tombstone}
ASSUME SegMaxAssumption == SegMax \in Nat \ {0}

Entry == Values \cup {Tombstone}
Table == [Keys -> Entry \cup {Absent}]
EmptyTable == [k \in Keys |-> Absent]

\* The keys a table holds a record of.
KeysOf(t) == {k \in Keys : t[k] # Absent}

\* Number of records: stands for MemTable::size_bytes and TableReader::num_records.
Size(t) == Cardinality(KeysOf(t))

\* First and last key of a non-empty table (TableReader::key_bounds).
MinKey(t) == Min(KeysOf(t))
MaxKey(t) == Max(KeysOf(t))

\* What a client sees of a stored entry: a tombstone reads as "no value".
Visible(e) == IF e = Tombstone THEN Absent ELSE e

\* Writing the entries of `new' over `old', as BTreeMap::insert does one by one.
Over(new, old) == [k \in Keys |-> IF new[k] # Absent THEN new[k] ELSE old[k]]

-----------------------------------------------------------------------------
(* Merging: the first source holding a key wins, so sources come newest    *)
(* first.  Segments have disjoint ranges, so at most one of a set of them  *)
(* holds a key.                                                            *)

\* The entry of the newest table of the sequence `ts' (oldest first) that holds k.
NewestEntry(ts, k) ==
    LET hits == {i \in DOMAIN ts : ts[i][k] # Absent}
    IN  IF hits = {} THEN Absent ELSE ts[Max(hits)][k]

\* The entry of whichever table of the set S holds k.
AnyEntry(S, k) ==
    LET hits == {t \in S : t[k] # Absent}
    IN  IF hits = {} THEN Absent ELSE (CHOOSE t \in hits : TRUE)[k]

MergeMutant(ts, S) ==
    [k \in Keys |-> LET e == AnyEntry(S, k) IN
                    Visible(IF e # Absent THEN e ELSE NewestEntry(ts, k))]

\* merge_ids(.., drop_tombstones = true): the L0 tables `ts' over the segment
\* tables S, without the tombstones.
Merge(ts, S) ==
    [k \in Keys |-> LET e == NewestEntry(ts, k) IN
                    Visible(IF e # Absent THEN e ELSE AnyEntry(S, k))]

-----------------------------------------------------------------------------
(* Splitting a merged table into chunks of SegMax consecutive records.     *)

Rank(t, k) == Cardinality({j \in KeysOf(t) : j <= k})

ChunkCount(t) == (Size(t) + SegMax - 1) \div SegMax

Chunk(t, i) ==
    [k \in Keys |->
        IF (i - 1) * SegMax < Rank(t, k) /\ Rank(t, k) <= i * SegMax
        THEN t[k] ELSE Absent]

\* merged.chunks(segment_max_records)
Chunks(t) == [i \in 1 .. ChunkCount(t) |-> Chunk(t, i)]
=============================================================================

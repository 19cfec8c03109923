------------------------------ MODULE SsTable ------------------------------
(***************************************************************************)
(* One table file (src/sstable.rs): TableBuilder writes the records in key *)
(* order with a sparse index and a bloom filter; TableReader::lookup and   *)
(* TableIter find records again by a binary search in the index and a      *)
(* linear read from there.  A byte offset is the number of the record that *)
(* starts at it.  A point lookup of k is a read of the range [k, k].       *)
(***************************************************************************)
EXTENDS KeyRange

CONSTANTS
    Spacing,     \* DEFAULT_SPACING: records per entry of the index
    Bits         \* BloomFilter::hashes: the bits of a key

ASSUME SpacingAssumption == Spacing \in Nat \ {0}
ASSUME BitsAssumption == Bits \in [Keys -> SUBSET Nat]

VARIABLES
    contents,       \* the sorted records handed to the builder
    records,        \* the records in the file, in order
    index,          \* the sparse index: keys and where they start
    sinceIndex,     \* keys_since_index
    lastIndexed,    \* last_record_indexed
    bloom,          \* the bits that are set
    query,          \* the read that is made: a lookup or a range
    lo, hi,         \* block_offset_for: the entries still in question
    pos,            \* the record the file is positioned at
    out,            \* the records the read has yielded
    pc              \* "build", "open", "search", "read", "found", "end",
                    \* "failed"

file == <<records, index, sinceIndex, lastIndexed, bloom>>
search == <<lo, hi>>
vars == <<contents, file, query, search, pos, out, pc>>

Record == [key : Keys, val : Entry]
IndexEntry == [key : Keys, at : Nat]
LookupQuery == [kind : {"lookup"}, from : Keys]
RangeQuery == [kind : {"range"}, from : Bound, to : Bound]

-----------------------------------------------------------------------------
(* TableBuilder                                                            *)

RecordOf(k) == [key |-> k, val |-> contents[k]]
EntryAt(k, i) == [key |-> k, at |-> i]

\* The records that have not been added yet.
ToAdd == {k \in KeysOf(contents) : \A i \in DOMAIN records : records[i].key # k}

AddMutant ==
    /\ pc = "build"
    /\ ToAdd # {}
    /\ records' = Append(records, RecordOf(Min(ToAdd)))
    /\ index' = IF sinceIndex = 0
                THEN Append(index, EntryAt(Min(ToAdd), Len(records)))
                ELSE index
    /\ lastIndexed' = (sinceIndex = 0)
    /\ sinceIndex' = (sinceIndex + 1) % Spacing
    /\ bloom' = bloom \cup Bits[Min(ToAdd)]
    /\ UNCHANGED <<contents, query, search, pos, out, pc>>

\* add(): the next record; the first of each block enters the index.
Add ==
    /\ pc = "build"
    /\ ToAdd # {}
    /\ records' = Append(records, RecordOf(Min(ToAdd)))
    /\ index' = IF sinceIndex = 0
                THEN Append(index, EntryAt(Min(ToAdd), Len(records) + 1))
                ELSE index
    /\ lastIndexed' = (sinceIndex = 0)
    /\ sinceIndex' = (sinceIndex + 1) % Spacing
    /\ bloom' = bloom \cup Bits[Min(ToAdd)]
    /\ UNCHANGED <<contents, query, search, pos, out, pc>>

FinishMutant ==
    /\ pc = "build"
    /\ ToAdd = {}
    /\ pc' = "open"
    /\ UNCHANGED <<contents, file, query, search, pos, out>>

\* finish(): the last record enters the index too, for key_bounds.
Finish ==
    /\ pc = "build"
    /\ ToAdd = {}
    /\ index' = IF records # <<>> /\ ~lastIndexed
                THEN Append(index, EntryAt(records[Len(records)].key, Len(records)))
                ELSE index
    /\ pc' = "open"
    /\ UNCHANGED <<contents, records, sinceIndex, lastIndexed, bloom, query, search,
                   pos, out>>

-----------------------------------------------------------------------------
(* TableReader and TableIter                                               *)

\* lookup(): a key with a bit that is not set is not in the table.
StartLookup ==
    /\ pc = "open"
    /\ query.kind = "lookup"
    /\ IF Bits[query.from] \subseteq bloom
       THEN pc' = "search" /\ lo' = 0 /\ hi' = Len(index)
       ELSE pc' = "end" /\ UNCHANGED search
    /\ UNCHANGED <<contents, file, query, pos, out>>

\* The offset of the first entry of the index.
FirstOffset == IF index = <<>> THEN 1 ELSE index[1].at

\* TableIter::from_reader: the block of `from', or the first one.
StartRange ==
    /\ pc = "open"
    /\ query.kind = "range"
    /\ IF query.from = Unbounded
       THEN pc' = "read" /\ pos' = FirstOffset /\ UNCHANGED search
       ELSE pc' = "search" /\ lo' = 0 /\ hi' = Len(index) /\ UNCHANGED pos
    /\ UNCHANGED <<contents, file, query, out>>

HalveMutant ==
    LET mid == (lo + hi) \div 2 IN
    /\ pc = "search"
    /\ lo < hi
    /\ IF index[mid + 1].key <= query.from
       THEN lo' = mid /\ UNCHANGED hi
       ELSE hi' = mid /\ UNCHANGED lo
    /\ UNCHANGED <<contents, file, query, pos, out, pc>>

\* block_offset_for: one round of the binary search for the last entry whose
\* key is not above the one sought (entries count from 0 there).
Halve ==
    LET mid == (lo + hi) \div 2 IN
    /\ pc = "search"
    /\ lo < hi
    /\ IF index[mid + 1].key <= query.from
       THEN lo' = mid + 1 /\ UNCHANGED hi
       ELSE hi' = mid /\ UNCHANGED lo
    /\ UNCHANGED <<contents, file, query, pos, out, pc>>

SeekMutant ==
    /\ pc = "search"
    /\ lo >= hi
    /\ pos' = IF lo = Len(index) THEN FirstOffset ELSE index[lo + 1].at
    /\ pc' = "read"
    /\ UNCHANGED <<contents, file, query, search, out>>

\* The file is positioned at that entry's block.
Seek ==
    /\ pc = "search"
    /\ lo >= hi
    /\ pos' = IF lo = 0 THEN FirstOffset ELSE index[lo].at
    /\ pc' = "read"
    /\ UNCHANGED <<contents, file, query, search, out>>

AtEnd == pos > Len(records)
Here == records[pos]

\* The read goes no further than this.
Beyond(k) == IF query.kind = "lookup" THEN k > query.from ELSE ~Below(k, query.to)

\* There is a next record and it is not behind the range.
InReach == ~AtEnd /\ ~Beyond(Here.key)

\* A record below the range, or the key sought, is read over.
SkipRecord ==
    /\ pc = "read"
    /\ InReach
    /\ ~From(Here.key, query.from)
    /\ pos' = pos + 1
    /\ UNCHANGED <<contents, file, query, search, out, pc>>

\* A record in the range is yielded; a lookup ends with it.
YieldRecord ==
    /\ pc = "read"
    /\ InReach
    /\ From(Here.key, query.from)
    /\ out' = Append(out, Here)
    /\ pos' = pos + 1
    /\ pc' = IF query.kind = "lookup" THEN "found" ELSE pc
    /\ UNCHANGED <<contents, file, query, search>>

\* A lookup has its record, the records end, or the next is behind the range.
EndOfRead ==
    /\ pc = "found" \/ (pc = "read" /\ ~InReach)
    /\ pc' = "end"
    /\ UNCHANGED <<contents, file, query, search, pos, out>>

ReadFails ==
    /\ pc = "read"
    /\ pc' = "failed"
    /\ UNCHANGED <<contents, file, query, search, pos, out>>

-----------------------------------------------------------------------------
Init ==
    /\ contents \in Table
    /\ records = <<>>
    /\ index = <<>>
    /\ sinceIndex = 0
    /\ lastIndexed = FALSE
    /\ bloom = {}
    /\ query \in LookupQuery \cup RangeQuery
    /\ lo = 0 /\ hi = 0
    /\ pos = 1
    /\ out = <<>>
    /\ pc = "build"

Step ==
    \/ Add
    \/ Finish
    \/ StartLookup
    \/ StartRange
    \/ Halve
    \/ Seek
    \/ SkipRecord
    \/ YieldRecord
    \/ EndOfRead

Next == Step \/ ReadFails

Spec == Init /\ [][Next]_vars

\* The caller reads what it asked for to the end.
FairSpec == Spec /\ WF_vars(Step)

-----------------------------------------------------------------------------
(* Properties.                                                             *)

\* Type invariant.
TypeOK ==
    /\ contents \in Table
    /\ query \in LookupQuery \cup RangeQuery
    /\ records \in Seq(Record)
    /\ index \in Seq(IndexEntry)
    /\ sinceIndex \in 0 .. Spacing - 1
    /\ lastIndexed \in BOOLEAN
    /\ bloom \subseteq UNION {Bits[k] : k \in Keys}
    /\ lo \in Nat /\ hi \in Nat /\ pos \in Nat \ {0}
    /\ out \in Seq(Record)
    /\ pc \in {"build", "open", "search", "read", "found", "end", "failed"}

\* The entries of the index are in key order and each points at its record;
\* the first and the last are the bounds of the table, on which the key ranges
\* of the manifest rest (TableBuilder::finish, TableReader::key_bounds).
IndexExact ==
    /\ \A i \in DOMAIN index :
        /\ index[i].at \in DOMAIN records
        /\ records[index[i].at].key = index[i].key
        /\ \A j \in DOMAIN index : i < j => index[i].at < index[j].at
    /\ pc # "build" /\ KeysOf(contents) # {} =>
        /\ index # <<>>
        /\ index[1].key = MinKey(contents)
        /\ index[Len(index)].key = MaxKey(contents)

\* What the read must find.
Asked ==
    [k \in Keys |->
        IF From(k, query.from) /\ ~Beyond(k) THEN contents[k] ELSE Absent]

Found == INSTANCE OrderedScan WITH
    whole <- Asked,
    status <- IF pc \in {"end", "failed"} THEN pc ELSE "open"

\* A lookup finds the record of its key if the table has one, a range scan all
\* records of the range in order, wherever the bounds fall between the blocks
\* and whatever the bloom filter says of other keys (lookup, TableIter).
FindsRecords == Found!SSpec

\* The binary search and the read end.
ReadsEnd == <>(pc \in {"end", "failed"})
=============================================================================

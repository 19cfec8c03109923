--------------------------- MODULE MergeIterator ---------------------------
(***************************************************************************)
(* MergeIter (src/iterator.rs): the k-way merge behind scans and           *)
(* compactions.  A heap holds, for each source that is not exhausted, the  *)
(* key it stands at; the smallest key is popped, of equal keys that of the *)
(* newest source, and the older sources are moved past that key.           *)
(***************************************************************************)
EXTENDS Tables

CONSTANT Sources    \* the number of sources

ASSUME SourcesAssumption == Sources \in Nat

VARIABLES
    tables,    \* what the sources hold, newest first
    rest,      \* what each source has still to yield
    heap,      \* the heap of cursors [key, idx]
    top,       \* the cursor that next() has popped
    item,      \* the record that next() will return
    out,       \* the records returned so far
    pc         \* where next() stands

vars == <<tables, rest, heap, top, item, out, pc>>

Source == 1 .. Sources
Cursor == [key : Keys, idx : Source]

\* ScanSource::peek and advance.
Peek(t) == [key |-> MinKey(t), val |-> t[MinKey(t)]]
Advance(t) == [k \in Keys |-> IF k = MinKey(t) THEN Absent ELSE t[k]]

CursorAtMutant(t, i) == IF KeysOf(t) = {} THEN {} ELSE {[key |-> MinKey(t), idx |-> i - 1]}

\* The cursor of source i with t still to yield: none if t is empty.
CursorAt(t, i) == IF KeysOf(t) = {} THEN {} ELSE {[key |-> MinKey(t), idx |-> i]}

BeforeMutant(c, d) == c.key < d.key \/ (c.key = d.key /\ c.idx >= d.idx)

\* HeapEntry's order: c is popped before d.
Before(c, d) == c.key < d.key \/ (c.key = d.key /\ c.idx <= d.idx)

\* BinaryHeap::peek.
OnTop(c) == c \in heap /\ \A d \in heap : Before(c, d)

-----------------------------------------------------------------------------
(* next(), step by step.                                                   *)

\* prime(): a cursor for every source.
Prime ==
    /\ pc = "new"
    /\ heap' = UNION {CursorAt(rest[i], i) : i \in Source}
    /\ pc' = "ready"
    /\ UNCHANGED <<tables, rest, top, item, out>>

\* The newest cursor of the least key is popped and its source moves on.
Pop ==
    /\ pc = "ready"
    /\ \E c \in heap :
        /\ OnTop(c)
        /\ top' = c
        /\ item' = Peek(rest[c.idx])
        /\ heap' = heap \ {c}
        /\ rest' = [rest EXCEPT ![c.idx] = Advance(rest[c.idx])]
    /\ pc' = "skip"
    /\ UNCHANGED <<tables, out>>

SkipMutant ==
    /\ pc = "skip"
    /\ \E c \in heap :
        /\ OnTop(c)
        /\ c.key = top.key
        /\ heap' = heap \ {c}
        /\ rest' = [rest EXCEPT ![c.idx] = Advance(rest[c.idx])]
    /\ UNCHANGED <<tables, top, item, out, pc>>

SkipInPlaceMutant ==
    /\ pc = "skip"
    /\ \E c \in heap :
        /\ OnTop(c)
        /\ c.key = top.key
        /\ heap' = (heap \ {c}) \cup CursorAt(rest[c.idx], c.idx)
    /\ UNCHANGED <<tables, rest, top, item, out, pc>>

\* An older source stands at the same key: it is moved past it.
Skip ==
    /\ pc = "skip"
    /\ \E c \in heap :
        /\ OnTop(c)
        /\ c.key = top.key
        /\ heap' = (heap \ {c}) \cup CursorAt(Advance(rest[c.idx]), c.idx)
        /\ rest' = [rest EXCEPT ![c.idx] = Advance(rest[c.idx])]
    /\ UNCHANGED <<tables, top, item, out, pc>>

ReturnMutant ==
    /\ pc = "skip"
    /\ \A c \in heap : OnTop(c) => c.key # top.key
    /\ out' = Append(out, item)
    /\ pc' = "ready"
    /\ UNCHANGED <<tables, rest, heap, top, item>>

\* The newest source goes back into the heap; next() returns the record.
Return ==
    /\ pc = "skip"
    /\ \A c \in heap : OnTop(c) => c.key # top.key
    /\ heap' = heap \cup CursorAt(rest[top.idx], top.idx)
    /\ out' = Append(out, item)
    /\ pc' = "ready"
    /\ UNCHANGED <<tables, rest, top, item>>

\* The heap is empty: next() returns None.
Exhausted ==
    /\ pc = "ready"
    /\ heap = {}
    /\ pc' = "done"
    /\ UNCHANGED <<tables, rest, heap, top, item, out>>

\* A peek fails: next() returns Err, and the caller gives the scan up.
ReadFails ==
    /\ pc \in {"new", "ready", "skip"}
    /\ pc' = "failed"
    /\ UNCHANGED <<tables, rest, heap, top, item, out>>

-----------------------------------------------------------------------------
Init ==
    /\ tables \in [Source -> Table]
    /\ rest = tables
    /\ heap = {}
    /\ top = [key |-> 0, idx |-> 0]
    /\ item = [key |-> 0, val |-> Absent]
    /\ out = <<>>
    /\ pc = "new"

Step == Prime \/ Pop \/ Skip \/ Return \/ Exhausted

Next == Step \/ ReadFails

Spec == Init /\ [][Next]_vars

\* The caller asks for records until there are none (`while let Some').
FairSpec == Spec /\ WF_vars(Step)

-----------------------------------------------------------------------------
(* Properties.                                                             *)

Record == [key : Keys, val : Entry]

\* Type invariant.
TypeOK ==
    /\ tables \in [Source -> Table]
    /\ rest \in [Source -> Table]
    /\ heap \in SUBSET Cursor
    /\ out \in Seq(Record)
    /\ pc \in {"new", "ready", "skip", "done", "failed"}
    /\ pc = "skip" => top \in Cursor /\ item \in Record

\* The record of each key in the first, that is newest, source that has one.
Newest ==
    [k \in Keys |->
        LET hits == {i \in Source : tables[i][k] # Absent}
        IN  IF hits = {} THEN Absent ELSE tables[Min(hits)][k]]

\* What the caller knows of the scan.
StatusOf(p) == IF p = "done" THEN "end" ELSE IF p = "failed" THEN "failed" ELSE "open"

Scan == INSTANCE OrderedScan WITH whole <- Newest, status <- StatusOf(pc)

\* next() yields the newest record of every key, tombstones included, once, in
\* key order, and None only after the last (MergeIter: `newest source wins').
YieldsNewest == Scan!SSpec

\* The heap holds exactly the cursors of the sources that are not exhausted,
\* but for the source whose record is about to be returned; so what is popped
\* is what peek() returns (the `expect' in MergeIter::next).
HeapIsCursors ==
    pc \in {"ready", "skip"} =>
        heap = UNION {CursorAt(rest[i], i) :
                        i \in IF pc = "skip" THEN Source \ {top.idx} ELSE Source}

\* A caller that keeps asking reaches the end, unless a read fails.
Drains == <>(pc \in {"done", "failed"})
=============================================================================

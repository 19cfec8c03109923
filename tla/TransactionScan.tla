-------------------------- MODULE TransactionScan --------------------------
(***************************************************************************)
(* What a transaction reads (TxMutator and TxScan, src/entity.rs): its     *)
(* pending writes over the committed records.  A scan merges the two       *)
(* lazily and buffers one record of each; the pending map is walked whole  *)
(* and filtered, the committed stream is in the range already.             *)
(***************************************************************************)
EXTENDS KeyRange

VARIABLES
    committed,    \* what the engine holds, tombstones included
    pending,      \* the transaction's writes
    from, to,     \* the range of the scan
    cRest,        \* what the committed stream has still to yield
    pRest,        \* what the walk over the pending map has still to visit
    cBuf, pBuf,   \* committed_buf and pending_buf: at most one record each
    out,          \* the records yielded so far
    pc            \* "open", "end" or "failed"

data == <<committed, pending, from, to>>
vars == <<data, cRest, pRest, cBuf, pBuf, out, pc>>

Record == [key : Keys, val : Entry]

-----------------------------------------------------------------------------
\* Iterator::next on the sorted stream of the table t: its first record, none
\* if t is empty, and what the stream has left after it.
First(t) == IF KeysOf(t) = {} THEN {} ELSE {[key |-> MinKey(t), val |-> t[MinKey(t)]]}
Rest(t) == [k \in Keys |-> IF KeysOf(t) # {} /\ k <= MinKey(t) THEN Absent ELSE t[k]]

InScanMutant(t) ==
    [k \in Keys |-> IF From(k, from) /\ (to # Unbounded => k <= to) THEN t[k] ELSE Absent]

\* The pending records that load_pending does not skip.
InScan(t) == Slice(t, from, to)

\* What load_pending and load_committed leave in the buffers and streams.
LoadedP == IF pBuf # {} THEN pBuf ELSE First(InScan(pRest))
LoadedC == IF cBuf # {} THEN cBuf ELSE First(cRest)
AfterP == IF pBuf # {} THEN pRest ELSE Rest(InScan(pRest))
AfterC == IF cBuf # {} THEN cRest ELSE Rest(cRest)

\* next() returns the record r; keepP and keepC stay in the buffers.
Yield(r, keepP, keepC) ==
    /\ out' = Append(out, r)
    /\ pBuf' = keepP
    /\ cBuf' = keepC
    /\ pRest' = AfterP
    /\ cRest' = AfterC
    /\ UNCHANGED <<data, pc>>

TakePendingMutant ==
    /\ pc = "open"
    /\ \E p \in LoadedP, c \in LoadedC :
        /\ p.key < c.key
        /\ Yield(p, {}, LoadedC)

\* Only a pending record is left, or it comes first.
TakePending ==
    /\ pc = "open"
    /\ \E p \in LoadedP :
        /\ \A c \in LoadedC : p.key < c.key
        /\ Yield(p, {}, LoadedC)

\* Only a committed record is left, or it comes first.
TakeCommitted ==
    /\ pc = "open"
    /\ \E c \in LoadedC :
        /\ \A p \in LoadedP : c.key < p.key
        /\ Yield(c, LoadedP, {})

ShadowMutant ==
    /\ pc = "open"
    /\ \E p \in LoadedP, c \in LoadedC :
        /\ p.key = c.key
        /\ Yield(p, {}, LoadedC)

\* The same key: the pending record, a deletion too, hides the committed one.
Shadow ==
    /\ pc = "open"
    /\ \E p \in LoadedP, c \in LoadedC :
        /\ p.key = c.key
        /\ Yield(p, {}, {})

\* next() returns None.
Exhausted ==
    /\ pc = "open"
    /\ LoadedP = {}
    /\ LoadedC = {}
    /\ pc' = "end"
    /\ UNCHANGED <<data, cRest, pRest, cBuf, pBuf, out>>

\* The committed stream fails: next() returns Err, the caller gives up.
ReadFails ==
    /\ pc = "open"
    /\ pc' = "failed"
    /\ UNCHANGED <<data, cRest, pRest, cBuf, pBuf, out>>

-----------------------------------------------------------------------------
\* TxMutator::scan: the committed stream is opened, one pending record loaded.
Init ==
    /\ committed \in Table
    /\ pending \in Table
    /\ from \in Bound
    /\ to \in Bound
    /\ cRest = Slice(committed, from, to)
    /\ cBuf = {}
    /\ pBuf = First(InScan(pending))
    /\ pRest = Rest(InScan(pending))
    /\ out = <<>>
    /\ pc = "open"

Step == TakePending \/ TakeCommitted \/ Shadow \/ Exhausted

Next == Step \/ ReadFails

Spec == Init /\ [][Next]_vars

\* The caller collects the stream.
FairSpec == Spec /\ WF_vars(Step)

-----------------------------------------------------------------------------
(* Properties.                                                             *)

\* Type invariant.
TypeOK ==
    /\ committed \in Table /\ pending \in Table
    /\ from \in Bound /\ to \in Bound
    /\ cRest \in Table /\ pRest \in Table
    /\ cBuf \in SUBSET Record /\ pBuf \in SUBSET Record
    /\ out \in Seq(Record)
    /\ pc \in {"open", "end", "failed"}

\* A transaction sees its own writes over the committed records.
Overlay == Slice(Over(pending, committed), from, to)

OwnWrites == INSTANCE OrderedScan WITH whole <- Overlay, status <- pc

\* The scan yields, in key order and each once, what the store would hold in
\* the range if the transaction had committed (TxScan: `Pending gewinnt').
ReadsOwnWrites == OwnWrites!SSpec

\* A caller that keeps asking reaches the end, unless a read fails.
Drains == <>(pc # "open")
=============================================================================

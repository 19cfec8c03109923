----------------------- MODULE TransactionScanProofs -----------------------
(***************************************************************************)
(* A theorem about TxScan, for all keys, values, ranges, committed records *)
(* and pending writes: the lazy merge of the two streams, with its buffers *)
(* of one record each, yields what the store would hold in the range if    *)
(* the transaction had committed.                                          *)
(***************************************************************************)
EXTENDS TransactionScan, TableLemmas

-----------------------------------------------------------------------------
(* The inductive invariant.                                                *)

Yielded == {out[i].key : i \in DOMAIN out}

RecordIn(t, k) == [key |-> k, val |-> t[k]]

\* The buffer and the stream behind it hold the records of t whose keys are not
\* in Y, the buffered one first.
Streams(buf, rest, t, Y) ==
    /\ rest \in Table
    /\ buf = {} \/ \E k \in KeysOf(t) \ Y :
                      /\ buf = {RecordIn(t, k)}
                      /\ \A j \in KeysOf(rest) : k < j
    /\ \A k \in KeysOf(rest) : rest[k] = t[k]
    /\ \A k \in Keys :
          k \in KeysOf(t) \ Y <=> k \in KeysOf(rest) \/ \E r \in buf : r.key = k

\* Nothing has been lost on the way, whether pending or committed; what the walk
\* over the pending map has still to visit is in the range.
StreamInv ==
    /\ Streams(pBuf, pRest, InScan(pending), Yielded)
    /\ Streams(cBuf, cRest, Slice(committed, from, to), Yielded)
    /\ InScan(pRest) = pRest

DataOK ==
    /\ committed \in Table /\ pending \in Table
    /\ from \in Bound /\ to \in Bound
    /\ out \in Seq(Record)
    /\ pc \in {"open", "end", "failed"}

IInv == DataOK /\ StreamInv

-----------------------------------------------------------------------------
(* Lemmas.                                                                 *)

\* A slice of a table is a table, and slicing it again changes nothing.
LEMMA SliceOK ==
    ASSUME NEW t \in Table
    PROVE  /\ Slice(t, from, to) \in Table
           /\ InScan(t) \in Table
           /\ InScan(InScan(t)) = InScan(t)
           /\ \A k \in Keys : InScan(t)[k] = IF InRange(k, from, to) THEN t[k] ELSE Absent
BY DEF Slice, InScan, Table

\* First takes the least record of a stream and Rest leaves the others.
LEMMA FirstRest ==
    ASSUME NEW t \in Table, KeysOf(t) # {}
    PROVE  /\ MinKey(t) \in KeysOf(t)
           /\ First(t) = {RecordIn(t, MinKey(t))}
           /\ Rest(t) \in Table
           /\ KeysOf(Rest(t)) = KeysOf(t) \ {MinKey(t)}
           /\ \A k \in KeysOf(Rest(t)) : Rest(t)[k] = t[k] /\ MinKey(t) < k
<1> DEFINE m == MinKey(t)
           r == Rest(t)
<1>1. m \in KeysOf(t) /\ \A k \in KeysOf(t) : m <= k
    BY TableBounds
<1>2. m \in Int /\ KeysOf(t) \subseteq Keys /\ KeysOf(t) \subseteq Int
    BY <1>1, TableKeys
<1>3. First(t) = {RecordIn(t, m)}
    BY DEF First, RecordIn
<1>4. r = [k \in Keys |-> IF k <= m THEN Absent ELSE t[k]]
    BY DEF Rest
<1> HIDE DEF m, r
<1>5. r \in Table
    BY <1>4 DEF Table
<1>6. ASSUME NEW k \in Keys
      PROVE  k \in KeysOf(r) <=> k \in KeysOf(t) /\ k # m
    <2>1. k \in Int
        BY KeysAssumption
    <2>2. r[k] = IF k <= m THEN Absent ELSE t[k]
        BY <1>4
    <2> QED  BY <1>1, <1>2, <2>1, <2>2 DEF KeysOf
<1>7. KeysOf(r) = KeysOf(t) \ {m}
    BY <1>2, <1>6 DEF KeysOf
<1>8. ASSUME NEW k \in KeysOf(r)  PROVE r[k] = t[k] /\ m < k
    <2>1. k \in Keys /\ k \in KeysOf(t) /\ k # m /\ k \in Int
        BY <1>2, <1>7, <1>8
    <2>2. m <= k /\ m < k
        BY <1>1, <1>2, <2>1
    <2> QED  BY <1>2, <1>4, <2>1, <2>2
<1> QED  BY <1>1, <1>3, <1>5, <1>7, <1>8 DEF m, r

\* Loading the buffer of a stream loses nothing, and it stays empty only where
\* the stream is exhausted (load_pending, load_committed).
LEMMA Loading ==
    ASSUME NEW buf, NEW rest, NEW t \in Table, NEW Y, Streams(buf, rest, t, Y),
           NEW b, b = (IF buf # {} THEN buf ELSE First(rest)),
           NEW r, r = (IF buf # {} THEN rest ELSE Rest(rest))
    PROVE  Streams(b, r, t, Y) /\ (b = {} => KeysOf(r) = {})
<1>1. CASE buf # {}
    BY <1>1
<1>2. CASE buf = {} /\ KeysOf(rest) = {}
    <2>1. b = {} /\ r = Rest(rest) /\ rest \in Table
        BY <1>2 DEF First, Streams
    <2>2. r = [k \in Keys |-> rest[k]]
        BY <1>2, <2>1 DEF Rest
    <2>3. r = rest
        BY <2>1, <2>2 DEF Table
    <2> QED  BY <1>2, <2>1, <2>3
<1>3. CASE buf = {} /\ KeysOf(rest) # {}
    <2> DEFINE m == MinKey(rest)
    <2>1. rest \in Table
        BY DEF Streams
    <2>2. /\ m \in KeysOf(rest) /\ b = {RecordIn(rest, m)} /\ r \in Table
          /\ KeysOf(r) = KeysOf(rest) \ {m}
          /\ \A k \in KeysOf(r) : r[k] = rest[k] /\ m < k
        BY <1>3, <2>1, FirstRest
    <2> HIDE DEF m
    <2>3. /\ \A k \in KeysOf(rest) : rest[k] = t[k]
          /\ \A k \in Keys : k \in KeysOf(t) \ Y <=> k \in KeysOf(rest)
          /\ KeysOf(rest) \subseteq Keys
        BY <1>3 DEF Streams, KeysOf
    <2>4. m \in KeysOf(t) \ Y /\ b = {RecordIn(t, m)}
        BY <2>2, <2>3 DEF RecordIn
    <2>5. \A x : (\E y \in b : y.key = x) <=> x = m
        <3>1. RecordIn(t, m).key = m
            BY DEF RecordIn
        <3> QED  BY <2>4, <3>1
    <2>6. \A k \in Keys :
             k \in KeysOf(t) \ Y <=> k \in KeysOf(r) \/ \E y \in b : y.key = k
        BY <2>2, <2>3, <2>5
    <2>7. \A k \in KeysOf(r) : r[k] = t[k]
        BY <2>2, <2>3
    <2> QED  BY <2>2, <2>4, <2>6, <2>7 DEF Streams
<1> QED  BY <1>1, <1>2, <1>3

\* What a loaded buffer holds is the first record of the stream.
LEMMA Buffered ==
    ASSUME NEW buf, NEW rest, NEW t, NEW Y, Streams(buf, rest, t, Y), NEW r \in buf
    PROVE  /\ r.key \in KeysOf(t) \ Y /\ r = RecordIn(t, r.key) /\ buf = {r}
           /\ r.key \in Keys /\ r.key \in Int
           /\ \A k \in KeysOf(t) \ Y : k = r.key \/ (k \in KeysOf(rest) /\ r.key < k)
<1>1. PICK k \in KeysOf(t) \ Y : buf = {RecordIn(t, k)} /\ \A j \in KeysOf(rest) : k < j
    BY DEF Streams
<1>2. r = RecordIn(t, k) /\ r.key = k
    BY <1>1 DEF RecordIn
<1>3. KeysOf(t) \subseteq Keys /\ KeysOf(t) \subseteq Int
    BY TableKeys
<1>4. ASSUME NEW j \in KeysOf(t) \ Y
      PROVE  j = r.key \/ (j \in KeysOf(rest) /\ r.key < j)
    <2>1. j \in KeysOf(rest) \/ \E x \in buf : x.key = j
        BY <1>3 DEF Streams
    <2> QED  BY <1>1, <1>2, <2>1
<1> QED  BY <1>1, <1>2, <1>3, <1>4

\* Without its buffered record, a stream holds what comes after it.
LEMMA Taking ==
    ASSUME NEW buf, NEW rest, NEW t, NEW Y, Streams(buf, rest, t, Y), NEW r \in buf
    PROVE  Streams({}, rest, t, Y \cup {r.key})
<1>1. /\ r.key \in KeysOf(t) \ Y
      /\ \A k \in KeysOf(t) \ Y : k = r.key \/ (k \in KeysOf(rest) /\ r.key < k)
    BY Buffered
<1>2. r.key \notin KeysOf(rest)
    <2>1. PICK k \in KeysOf(t) \ Y : buf = {RecordIn(t, k)} /\ \A j \in KeysOf(rest) : k < j
        BY DEF Streams
    <2>2. r.key = k /\ k \in Int
        BY <2>1, TableKeys DEF RecordIn
    <2> QED  BY <2>1, <2>2
<1>3. KeysOf(rest) \subseteq Keys
    BY DEF KeysOf
<1>4. \A k \in KeysOf(rest) : k \in KeysOf(t) \ Y
    BY <1>3 DEF Streams
<1> QED  BY <1>1, <1>2, <1>4 DEF Streams

\* A stream is not concerned by a key that it does not hold.
LEMMA Passing ==
    ASSUME NEW buf, NEW rest, NEW t, NEW Y, Streams(buf, rest, t, Y),
           NEW k, k \notin KeysOf(t) \ Y
    PROVE  Streams(buf, rest, t, Y \cup {k})
<1>1. KeysOf(t) \ (Y \cup {k}) = KeysOf(t) \ Y
    OBVIOUS
<1> QED  BY <1>1 DEF Streams

-----------------------------------------------------------------------------
(* The overlay of the two streams.                                         *)

\* A record of the overlay is the pending one where there is one, else the
\* committed one.
LEMMA OverlayIs ==
    ASSUME DataOK
    PROVE  /\ Overlay \in Table
           /\ KeysOf(Overlay) = KeysOf(InScan(pending)) \cup KeysOf(Slice(committed, from, to))
           /\ \A k \in KeysOf(InScan(pending)) : RecordIn(Overlay, k) = RecordIn(InScan(pending), k)
           /\ \A k \in KeysOf(Overlay) \ KeysOf(InScan(pending)) :
                 RecordIn(Overlay, k) = RecordIn(Slice(committed, from, to), k)
<1> DEFINE o == Overlay
           p == InScan(pending)
           c == Slice(committed, from, to)
<1>1. \A k \in Keys :
         /\ p[k] = IF InRange(k, from, to) THEN pending[k] ELSE Absent
         /\ c[k] = IF InRange(k, from, to) THEN committed[k] ELSE Absent
         /\ o[k] = IF InRange(k, from, to) THEN Over(pending, committed)[k] ELSE Absent
    BY DEF InScan, Slice, Overlay
<1>2. \A k \in Keys :
         Over(pending, committed)[k] = IF pending[k] # Absent THEN pending[k] ELSE committed[k]
    BY DEF Over
<1>3. Over(pending, committed) \in Table
    BY DEF Over, DataOK, Table
<1>4. o \in Table
    BY <1>3, SliceOK DEF Overlay
<1> HIDE DEF o, p, c
<1>5. \A k \in Keys : o[k] = IF p[k] # Absent THEN p[k] ELSE c[k]
    BY <1>1, <1>2
<1>6. KeysOf(o) = KeysOf(p) \cup KeysOf(c)
    BY <1>5 DEF KeysOf
<1>7. \A k \in KeysOf(p) : RecordIn(o, k) = RecordIn(p, k)
    BY <1>5 DEF KeysOf, RecordIn
<1>8. \A k \in KeysOf(o) \ KeysOf(p) : RecordIn(o, k) = RecordIn(c, k)
    BY <1>5 DEF KeysOf, RecordIn
<1> QED  BY <1>4, <1>6, <1>7, <1>8 DEF o, p, c

\* The records that the abstract scan has left are those not yielded.
LEMMA LeftIs == OwnWrites!Left = KeysOf(Overlay) \ Yielded
BY DEF OwnWrites!Left, OwnWrites!KeysOf, KeysOf, Yielded

\* load_pending and load_committed lose nothing.
LEMMA Loaded ==
    ASSUME IInv
    PROVE  /\ Streams(LoadedP, AfterP, InScan(pending), Yielded)
           /\ LoadedP = {} => KeysOf(AfterP) = {}
           /\ Streams(LoadedC, AfterC, Slice(committed, from, to), Yielded)
           /\ LoadedC = {} => KeysOf(AfterC) = {}
           /\ InScan(AfterP) = AfterP
<1>1. /\ Streams(pBuf, pRest, InScan(pending), Yielded) /\ InScan(pRest) = pRest
      /\ Streams(cBuf, cRest, Slice(committed, from, to), Yielded)
      /\ InScan(pending) \in Table /\ Slice(committed, from, to) \in Table
    BY SliceOK DEF IInv, DataOK, StreamInv
<1>2. /\ LoadedP = (IF pBuf # {} THEN pBuf ELSE First(pRest))
      /\ AfterP = (IF pBuf # {} THEN pRest ELSE Rest(pRest))
      /\ LoadedC = (IF cBuf # {} THEN cBuf ELSE First(cRest))
      /\ AfterC = (IF cBuf # {} THEN cRest ELSE Rest(cRest))
    BY <1>1 DEF LoadedP, AfterP, LoadedC, AfterC
<1>3. InScan(AfterP) = AfterP
    <2>1. \A k \in Keys : ~InRange(k, from, to) => pRest[k] = Absent
        BY <1>1 DEF InScan, Slice
    <2>2. \A k \in Keys : Rest(pRest)[k] # Absent => pRest[k] # Absent
        BY DEF Rest
    <2>3. Rest(pRest) = [k \in Keys |-> Rest(pRest)[k]]
        BY DEF Rest
    <2>4. InScan(Rest(pRest)) = Rest(pRest)
        BY <2>1, <2>2, <2>3 DEF InScan, Slice
    <2> QED  BY <1>1, <1>2, <2>4
<1>4. Streams(LoadedP, AfterP, InScan(pending), Yielded)
      /\ (LoadedP = {} => KeysOf(AfterP) = {})
    BY <1>1, <1>2, Loading
<1>5. Streams(LoadedC, AfterC, Slice(committed, from, to), Yielded)
      /\ (LoadedC = {} => KeysOf(AfterC) = {})
    BY <1>1, <1>2, Loading
<1> QED  BY <1>3, <1>4, <1>5

-----------------------------------------------------------------------------
(* The steps.                                                              *)

\* A record that is the least one left, taken out of both streams, is yielded
\* as the abstract scan does.
LEMMA Yields ==
    ASSUME IInv, pc = "open", NEW r, NEW keepP, NEW keepC, Yield(r, keepP, keepC),
           r.key \in KeysOf(Overlay) \ Yielded, r = RecordIn(Overlay, r.key),
           \A j \in KeysOf(Overlay) \ Yielded : r.key <= j,
           Streams(keepP, AfterP, InScan(pending), Yielded \cup {r.key}),
           Streams(keepC, AfterC, Slice(committed, from, to), Yielded \cup {r.key})
    PROVE  IInv' /\ OwnWrites!Yield
<1> DEFINE k == r.key
<1>1. /\ out' = Append(out, r) /\ pBuf' = keepP /\ cBuf' = keepC
      /\ pRest' = AfterP /\ cRest' = AfterC
      /\ UNCHANGED <<committed, pending, from, to, pc>>
    BY DEF Yield, data
<1>2. r \in Record /\ out \in Seq(Record)
    <2>1. k \in Keys /\ Overlay[k] \in Entry
        BY OverlayIs DEF IInv, KeysOf, Table
    <2> QED  BY <2>1 DEF IInv, DataOK, Record, RecordIn
<1>3. out' \in Seq(Record) /\ Len(out') = Len(out) + 1 /\ Len(out) \in Nat
      /\ \A i \in 1 .. Len(out') : out'[i] = IF i = Len(out) + 1 THEN r ELSE out[i]
    BY <1>1, <1>2
<1>4. Yielded' = Yielded \cup {k}
    <2>1. DOMAIN out' = 1 .. Len(out) + 1 /\ DOMAIN out = 1 .. Len(out)
        BY <1>2, <1>3
    <2>2. \A i \in DOMAIN out : i \in DOMAIN out' /\ out'[i] = out[i]
        BY <1>3, <2>1
    <2>3. Len(out) + 1 \in DOMAIN out' /\ out'[Len(out) + 1] = r
        BY <1>3, <2>1
    <2>4. \A i \in DOMAIN out' : i \in DOMAIN out \/ i = Len(out) + 1
        BY <1>3, <2>1
    <2>5. Yielded' \subseteq Yielded \cup {k}
        BY <2>2, <2>3, <2>4 DEF Yielded
    <2>6. Yielded \cup {k} \subseteq Yielded'
        BY <2>2, <2>3 DEF Yielded
    <2> QED  BY <2>5, <2>6
<1>5. /\ InScan(pending)' = InScan(pending) /\ InScan(AfterP) = AfterP
      /\ InScan(pRest)' = pRest'
      /\ Slice(committed, from, to)' = Slice(committed, from, to)
    <2>1. InScan(AfterP) = AfterP
        BY Loaded
    <2> QED  BY <1>1, <2>1 DEF InScan
<1>6. StreamInv'
    <2>1. Streams(keepP, AfterP, InScan(pending), Yielded') /\ Streams(keepC, AfterC,
              Slice(committed, from, to), Yielded')
        BY <1>4
    <2> QED  BY <1>1, <1>5, <2>1 DEF StreamInv
<1>7. IInv'
    BY <1>1, <1>3, <1>6 DEF IInv, DataOK
<1>8. Overlay' = Overlay
    BY <1>1 DEF Overlay
<1>9. k \in OwnWrites!Left /\ \A j \in OwnWrites!Left : k <= j
    BY LeftIs
<1>10. out' = Append(out, [key |-> k, val |-> Overlay[k]])
    BY <1>1 DEF RecordIn
<1> QED  BY <1>1, <1>7, <1>8, <1>9, <1>10 DEF OwnWrites!Yield

\* A pending record comes first.
LEMMA TakePendingYields ==
    ASSUME IInv, TakePending
    PROVE  IInv' /\ OwnWrites!Yield
<1> DEFINE P == InScan(pending)
           C == Slice(committed, from, to)
<1>1. PICK r \in LoadedP : (\A c \in LoadedC : r.key < c.key) /\ Yield(r, {}, LoadedC)
    BY DEF TakePending
<1>2. /\ Streams(LoadedP, AfterP, P, Yielded) /\ Streams(LoadedC, AfterC, C, Yielded)
      /\ LoadedC = {} => KeysOf(AfterC) = {}
    BY Loaded
<1>3. /\ KeysOf(Overlay) = KeysOf(P) \cup KeysOf(C)
      /\ \A k \in KeysOf(P) : RecordIn(Overlay, k) = RecordIn(P, k)
    BY OverlayIs DEF IInv
<1> HIDE DEF P, C
<1>4. /\ r.key \in KeysOf(P) \ Yielded /\ r = RecordIn(P, r.key) /\ r.key \in Int
      /\ \A k \in KeysOf(P) \ Yielded : k = r.key \/ r.key < k
    BY <1>2, Buffered
<1>5. ASSUME NEW k \in KeysOf(C) \ Yielded  PROVE r.key < k
    <2>1. k \in Keys /\ (k \in KeysOf(AfterC) \/ \E c \in LoadedC : c.key = k)
        BY <1>2 DEF Streams, KeysOf
    <2>2. PICK c \in LoadedC : TRUE
        BY <1>2, <2>1
    <2>3. c.key \in Int /\ (k = c.key \/ c.key < k)
        BY <1>2, Buffered
    <2>4. r.key < c.key /\ k \in Int
        BY <1>1, <2>1, KeysAssumption
    <2> QED  BY <1>4, <2>3, <2>4
<1>6. r.key \notin KeysOf(C) \ Yielded
    BY <1>4, <1>5
<1>7. \A j \in KeysOf(Overlay) \ Yielded : r.key <= j
    <2>1. \A j \in KeysOf(Overlay) : j \in Int
        BY TableKeys
    <2> QED  BY <1>3, <1>4, <1>5, <2>1
<1>8. Streams({}, AfterP, P, Yielded \cup {r.key})
    BY <1>2, Taking
<1>9. Streams(LoadedC, AfterC, C, Yielded \cup {r.key})
    BY <1>2, <1>6, Passing
<1>10. r.key \in KeysOf(Overlay) \ Yielded /\ r = RecordIn(Overlay, r.key)
    BY <1>3, <1>4
<1> QED  BY <1>1, <1>7, <1>8, <1>9, <1>10, Yields DEF P, C, TakePending

\* A committed record comes first: no pending one has its key.
LEMMA TakeCommittedYields ==
    ASSUME IInv, TakeCommitted
    PROVE  IInv' /\ OwnWrites!Yield
<1> DEFINE P == InScan(pending)
           C == Slice(committed, from, to)
<1>1. PICK r \in LoadedC : (\A p \in LoadedP : r.key < p.key) /\ Yield(r, LoadedP, {})
    BY DEF TakeCommitted
<1>2. /\ Streams(LoadedP, AfterP, P, Yielded) /\ Streams(LoadedC, AfterC, C, Yielded)
      /\ LoadedP = {} => KeysOf(AfterP) = {}
    BY Loaded
<1>3. /\ KeysOf(Overlay) = KeysOf(P) \cup KeysOf(C)
      /\ \A k \in KeysOf(Overlay) \ KeysOf(P) : RecordIn(Overlay, k) = RecordIn(C, k)
    BY OverlayIs DEF IInv
<1> HIDE DEF P, C
<1>4. /\ r.key \in KeysOf(C) \ Yielded /\ r = RecordIn(C, r.key) /\ r.key \in Int
      /\ \A k \in KeysOf(C) \ Yielded : k = r.key \/ r.key < k
    BY <1>2, Buffered
<1>5. ASSUME NEW k \in KeysOf(P) \ Yielded  PROVE r.key < k
    <2>1. k \in Keys /\ (k \in KeysOf(AfterP) \/ \E p \in LoadedP : p.key = k)
        BY <1>2 DEF Streams, KeysOf
    <2>2. PICK p \in LoadedP : TRUE
        BY <1>2, <2>1
    <2>3. p.key \in Int /\ (k = p.key \/ p.key < k)
        BY <1>2, Buffered
    <2>4. r.key < p.key /\ k \in Int
        BY <1>1, <2>1, KeysAssumption
    <2> QED  BY <1>4, <2>3, <2>4
<1>6. r.key \notin KeysOf(P) \ Yielded
    BY <1>4, <1>5
<1>7. \A j \in KeysOf(Overlay) \ Yielded : r.key <= j
    <2>1. \A j \in KeysOf(Overlay) : j \in Int
        BY TableKeys
    <2> QED  BY <1>3, <1>4, <1>5, <2>1
<1>8. Streams({}, AfterC, C, Yielded \cup {r.key})
    BY <1>2, Taking
<1>9. Streams(LoadedP, AfterP, P, Yielded \cup {r.key})
    BY <1>2, <1>6, Passing
<1>10. r.key \in KeysOf(Overlay) \ Yielded /\ r = RecordIn(Overlay, r.key)
    BY <1>3, <1>4, <1>6
<1> QED  BY <1>1, <1>7, <1>8, <1>9, <1>10, Yields DEF P, C, TakeCommitted

\* Both streams have the key: the pending record hides the committed one.
LEMMA ShadowYields ==
    ASSUME IInv, Shadow
    PROVE  IInv' /\ OwnWrites!Yield
<1> DEFINE P == InScan(pending)
           C == Slice(committed, from, to)
<1>1. PICK r \in LoadedP, c \in LoadedC : r.key = c.key /\ Yield(r, {}, {})
    BY DEF Shadow
<1>2. Streams(LoadedP, AfterP, P, Yielded) /\ Streams(LoadedC, AfterC, C, Yielded)
    BY Loaded
<1>3. /\ KeysOf(Overlay) = KeysOf(P) \cup KeysOf(C)
      /\ \A k \in KeysOf(P) : RecordIn(Overlay, k) = RecordIn(P, k)
    BY OverlayIs DEF IInv
<1> HIDE DEF P, C
<1>4. /\ r.key \in KeysOf(P) \ Yielded /\ r = RecordIn(P, r.key) /\ r.key \in Int
      /\ \A k \in KeysOf(P) \ Yielded : k = r.key \/ r.key < k
    BY <1>2, Buffered
<1>5. \A k \in KeysOf(C) \ Yielded : k = r.key \/ r.key < k
    BY <1>1, <1>2, Buffered
<1>6. \A j \in KeysOf(Overlay) \ Yielded : r.key <= j
    <2>1. \A j \in KeysOf(Overlay) : j \in Int
        BY TableKeys
    <2> QED  BY <1>3, <1>4, <1>5, <2>1
<1>7. Streams({}, AfterP, P, Yielded \cup {r.key})
    BY <1>2, Taking
<1>8. Streams({}, AfterC, C, Yielded \cup {r.key})
    BY <1>1, <1>2, Taking
<1>9. r.key \in KeysOf(Overlay) \ Yielded /\ r = RecordIn(Overlay, r.key)
    BY <1>3, <1>4
<1> QED  BY <1>1, <1>6, <1>7, <1>8, <1>9, Yields DEF P, C, Shadow

\* next() returns None only after the last record.
LEMMA ExhaustedEnds ==
    ASSUME IInv, Exhausted
    PROVE  OwnWrites!End
<1>1. /\ Streams({}, AfterP, InScan(pending), Yielded) /\ KeysOf(AfterP) = {}
      /\ Streams({}, AfterC, Slice(committed, from, to), Yielded) /\ KeysOf(AfterC) = {}
    BY Loaded DEF Exhausted
<1>2. \A k \in Keys : k \notin KeysOf(InScan(pending)) \ Yielded
                      /\ k \notin KeysOf(Slice(committed, from, to)) \ Yielded
    BY <1>1 DEF Streams
<1>3. /\ KeysOf(Overlay) = KeysOf(InScan(pending)) \cup KeysOf(Slice(committed, from, to))
      /\ KeysOf(Overlay) \subseteq Keys
    BY OverlayIs, TableKeys DEF IInv
<1>4. OwnWrites!Left = {}
    BY <1>2, <1>3, LeftIs
<1>5. /\ pc = "open" /\ pc' = "end" /\ out' = out /\ Overlay' = Overlay
    BY DEF Exhausted, data, Overlay
<1> QED  BY <1>4, <1>5 DEF OwnWrites!End

\* The end of a scan, by an error or not, leaves what is known of the streams.
LEMMA StreamsKept ==
    ASSUME IInv, UNCHANGED <<data, cRest, pRest, cBuf, pBuf, out>>,
           pc' \in {"open", "end", "failed"}
    PROVE  IInv'
<1>1. /\ InScan(pending)' = InScan(pending) /\ InScan(pRest)' = InScan(pRest)
      /\ Slice(committed, from, to)' = Slice(committed, from, to) /\ Yielded' = Yielded
    BY DEF data, InScan, Yielded
<1>2. StreamInv'
    BY <1>1 DEF IInv, StreamInv
<1> QED  BY <1>2 DEF IInv, DataOK, data

\* Every step keeps the invariant and is one of the abstract scan, or none.
LEMMA NextScans ==
    ASSUME IInv, [Next]_vars
    PROVE  IInv' /\ [OwnWrites!Yield \/ OwnWrites!End \/ OwnWrites!Fail]_OwnWrites!svars
<1>1. CASE TakePending \/ TakeCommitted \/ Shadow
    BY <1>1, TakePendingYields, TakeCommittedYields, ShadowYields
<1>2. CASE Exhausted
    <2>1. IInv'
        BY <1>2, StreamsKept DEF Exhausted
    <2> QED  BY <1>2, <2>1, ExhaustedEnds
<1>3. CASE ReadFails
    <2>1. IInv'
        BY <1>3, StreamsKept DEF ReadFails
    <2>2. OwnWrites!Fail
        BY <1>3 DEF ReadFails, OwnWrites!Fail, Overlay, data
    <2> QED  BY <2>1, <2>2
<1>4. CASE UNCHANGED vars
    <2>1. UNCHANGED <<data, cRest, pRest, cBuf, pBuf, out>> /\ pc' = pc
        BY <1>4 DEF vars
    <2>2. IInv'
        BY <2>1, StreamsKept DEF IInv, DataOK
    <2>3. UNCHANGED OwnWrites!svars
        BY <2>1 DEF OwnWrites!svars, Overlay, data
    <2> QED  BY <2>2, <2>3
<1> QED  BY <1>1, <1>2, <1>3, <1>4 DEF Next, Step

\* Opening the scan loads one pending record.
LEMMA InitScans == Init => IInv /\ OwnWrites!SInit
<1> SUFFICES ASSUME Init  PROVE IInv /\ OwnWrites!SInit
    OBVIOUS
<1> DEFINE P == InScan(pending)
           C == Slice(committed, from, to)
<1>1. DataOK /\ Yielded = {} /\ P \in Table /\ C \in Table
    BY SliceOK DEF Init, DataOK, Yielded
<1>2. InScan(P) = P
    BY SliceOK DEF Init
<1>3. pBuf = First(P) /\ pRest = Rest(P) /\ cBuf = {} /\ cRest = C
    BY DEF Init
<1>4. InScan(Rest(P)) = Rest(P)
    <2>1. \A k \in Keys : ~InRange(k, from, to) => P[k] = Absent
        BY DEF InScan, Slice
    <2> HIDE DEF P
    <2>2. \A k \in Keys : Rest(P)[k] # Absent => P[k] # Absent
        BY DEF Rest
    <2>3. Rest(P) = [k \in Keys |-> Rest(P)[k]]
        BY DEF Rest
    <2> QED  BY <2>1, <2>2, <2>3 DEF InScan, Slice
<1> HIDE DEF P, C
<1>5. Streams({}, P, P, {}) /\ Streams({}, C, C, {})
    BY <1>1 DEF Streams, KeysOf
<1>6. Streams(First(P), Rest(P), P, {})
    BY <1>1, <1>5, Loading
<1>7. StreamInv
    BY <1>1, <1>3, <1>4, <1>5, <1>6 DEF StreamInv, P, C
<1>8. Overlay \in Table
    BY <1>1, OverlayIs
<1> QED
    BY <1>1, <1>7, <1>8 DEF IInv, OwnWrites!SInit, OwnWrites!Table, OwnWrites!Entry, Table, Entry, Init

\* TxScan implements the abstract scan: whatever of the two streams is buffered
\* when, a transaction sees each record once, in key order, with its own writes
\* and deletions over the committed ones (TxMutator::scan, TxScan::next).
THEOREM TransactionReadsOwnWrites == Spec => ReadsOwnWrites
<1>1. Init => IInv /\ OwnWrites!SInit
    BY InitScans
<1>2. IInv /\ [Next]_vars
        => IInv' /\ [OwnWrites!Yield \/ OwnWrites!End \/ OwnWrites!Fail]_OwnWrites!svars
    BY NextScans
<1> QED  BY <1>1, <1>2, PTL DEF Spec, ReadsOwnWrites, OwnWrites!SSpec
=============================================================================

------------------------ MODULE MergeIteratorProofs ------------------------
(***************************************************************************)
(* Theorems about MergeIter, for any number of sources and all keys: the   *)
(* heap always holds the right cursors, and next() yields exactly the      *)
(* newest record of every key, in key order.                               *)
(***************************************************************************)
EXTENDS MergeIterator, TableLemmas

-----------------------------------------------------------------------------
(* The inductive invariant.                                                *)

Cur(t, i) == [key |-> MinKey(t), idx |-> i]

\* The heap h holds the cursor of every source of I that r is not done with.
Cursors(h, r, I) ==
    /\ \A c \in h : c.idx \in I /\ KeysOf(r[c.idx]) # {} /\ c = Cur(r[c.idx], c.idx)
    /\ \A i \in I : KeysOf(r[i]) # {} => Cur(r[i], i) \in h

Yielded == {out[j].key : j \in DOMAIN out}

\* Of key k every source still has its record, unless it has been yielded.
Untouched(k) ==
    \A i \in Source : rest[i][k] = IF k \in Yielded THEN Absent ELSE tables[i][k]

BetweenCalls ==
    /\ pc \in {"new", "ready"} => \A k \in Keys : Untouched(k)
    /\ pc = "ready" => Cursors(heap, rest, Source)

\* The popped record is the newest of its key, no smaller key is left, and the
\* source it came from has moved on.
InCall ==
    pc = "skip" =>
        /\ Cursors(heap, rest, Source \ {top.idx})
        /\ top.key \notin Yielded
        /\ item = [key |-> top.key, val |-> Newest[top.key]]
        /\ \A k \in Keys \ {top.key} : Untouched(k)
        /\ \A i \in Source : \A k \in KeysOf(rest[i]) : top.key <= k
        /\ rest[top.idx][top.key] = Absent

IInv == TypeOK /\ BetweenCalls /\ InCall

-----------------------------------------------------------------------------
(* Lemmas.                                                                 *)

\* What peek and advance return at the first record of a source.
LEMMA PeekFacts ==
    ASSUME NEW t \in Table, KeysOf(t) # {}
    PROVE  /\ MinKey(t) \in Keys /\ t[MinKey(t)] \in Entry
           /\ MinKey(t) \in KeysOf(t)
           /\ \A k \in KeysOf(t) : MinKey(t) <= k
           /\ Peek(t) \in Record
           /\ Peek(t) = [key |-> MinKey(t), val |-> t[MinKey(t)]]
           /\ Advance(t) \in Table
           /\ \A k \in Keys : Advance(t)[k] = IF k = MinKey(t) THEN Absent ELSE t[k]
<1>1. MinKey(t) \in KeysOf(t) /\ \A k \in KeysOf(t) : MinKey(t) <= k
    BY TableBounds
<1>2. MinKey(t) \in Keys /\ t[MinKey(t)] \in Entry
    BY <1>1 DEF KeysOf, Table
<1>3. Peek(t) \in Record /\ Peek(t) = [key |-> MinKey(t), val |-> t[MinKey(t)]]
    BY <1>2 DEF Peek, Record
<1>4. /\ Advance(t) \in Table
      /\ \A k \in Keys : Advance(t)[k] = IF k = MinKey(t) THEN Absent ELSE t[k]
    <2> DEFINE m == MinKey(t)
    <2> HIDE DEF m
    <2>1. Advance(t) = [k \in Keys |-> IF k = m THEN Absent ELSE t[k]]
        BY DEF Advance, m
    <2>2. /\ Advance(t) \in Table
          /\ \A k \in Keys : Advance(t)[k] = IF k = m THEN Absent ELSE t[k]
        BY <2>1 DEF Table
    <2> QED  BY <2>2 DEF m
<1> QED  BY <1>1, <1>2, <1>3, <1>4

\* The cursor of a source with records left, and none without.
LEMMA CursorFacts ==
    ASSUME NEW t, NEW i
    PROVE  /\ \A c \in CursorAt(t, i) : KeysOf(t) # {} /\ c = Cur(t, i)
           /\ KeysOf(t) # {} => Cur(t, i) \in CursorAt(t, i)
           /\ Cur(t, i).key = MinKey(t) /\ Cur(t, i).idx = i
BY DEF CursorAt, Cur

\* The first source with a record of a key provides the newest one.
LEMMA NewestFacts ==
    ASSUME tables \in [Source -> Table], NEW k \in Keys
    PROVE  /\ Newest[k] \in Entry \cup {Absent}
           /\ Newest[k] # Absent => \E i \in Source : tables[i][k] # Absent
           /\ \A i \in Source :
                /\ tables[i][k] # Absent
                /\ \A j \in Source : tables[j][k] # Absent => i <= j
                => Newest[k] = tables[i][k] /\ Newest[k] # Absent
<1> DEFINE hits == {i \in Source : tables[i][k] # Absent}
<1>1. Newest[k] = IF hits = {} THEN Absent ELSE tables[Min(hits)][k]
    BY DEF Newest
<1>2. hits \subseteq Int /\ IsFiniteSet(hits)
    <2>1. hits \subseteq 1 .. Sources
        BY DEF Source
    <2>2. IsFiniteSet(1 .. Sources) /\ 1 .. Sources \subseteq Int
        BY SourcesAssumption, FS_Interval
    <2> HIDE DEF hits
    <2> QED  BY <2>1, <2>2, FS_Subset
<1>3. ASSUME hits # {}
      PROVE  Min(hits) \in hits /\ \A j \in hits : Min(hits) <= j
    <2> HIDE DEF hits
    <2> QED  BY <1>2, <1>3, FiniteMin
<1>4. \A i \in hits : i \in Source /\ tables[i][k] # Absent /\ tables[i][k] \in Entry \cup {Absent}
    BY DEF Table
<1>5. \A i \in Source : tables[i][k] # Absent => i \in hits
    OBVIOUS
<1> HIDE DEF hits
<1>6. Newest[k] \in Entry \cup {Absent}
    BY <1>1, <1>3, <1>4
<1>7. Newest[k] # Absent => \E i \in Source : tables[i][k] # Absent
    BY <1>1, <1>3, <1>4
<1>8. ASSUME NEW i \in Source, tables[i][k] # Absent,
             \A j \in Source : tables[j][k] # Absent => i <= j
      PROVE  Newest[k] = tables[i][k] /\ Newest[k] # Absent
    <2>1. i \in hits /\ Min(hits) \in hits /\ Min(hits) <= i
        BY <1>3, <1>5, <1>8
    <2>2. i <= Min(hits)
        BY <1>4, <1>8, <2>1
    <2>3. i = Min(hits)
        <3>1. i \in Int /\ Min(hits) \in Int
            BY <1>2, <2>1
        <3> QED  BY <2>1, <2>2, <3>1
    <2> QED  BY <1>1, <1>8, <2>1, <2>3
<1> QED  BY <1>6, <1>7, <1>8

-----------------------------------------------------------------------------
(* The steps.                                                              *)

\* A new iterator satisfies the invariant.
LEMMA InitInvariant == Init => IInv
<1> SUFFICES ASSUME Init  PROVE IInv
    OBVIOUS
<1>1. Yielded = {}
    BY DEF Init, Yielded
<1>2. TypeOK
    BY DEF Init, TypeOK
<1> QED  BY <1>1, <1>2 DEF Init, IInv, BetweenCalls, InCall, Untouched

\* Priming the heap preserves the invariant.
LEMMA PrimeStep ==
    ASSUME IInv, Prime
    PROVE  IInv'
<1>1. rest \in [Source -> Table] /\ TypeOK
    BY DEF IInv, TypeOK
<1>2. \A c \in heap' : \E i \in Source : c \in CursorAt(rest[i], i)
    BY DEF Prime
<1>3. \A i \in Source : \A c \in CursorAt(rest[i], i) : c \in heap'
    BY DEF Prime
<1>4. Cursors(heap', rest, Source)
    BY <1>2, <1>3, CursorFacts DEF Cursors
<1>5. heap' \in SUBSET Cursor
    <2>1. ASSUME NEW c \in heap'  PROVE c \in Cursor
        <3>1. c.idx \in Source /\ KeysOf(rest[c.idx]) # {} /\ c = Cur(rest[c.idx], c.idx)
            BY <1>4 DEF Cursors
        <3>2. MinKey(rest[c.idx]) \in Keys
            BY <1>1, <3>1, PeekFacts
        <3> QED  BY <3>1, <3>2 DEF Cur, Cursor
    <2> QED  BY <2>1
<1>6. TypeOK' /\ pc' = "ready" /\ rest' = rest /\ tables' = tables /\ Yielded' = Yielded
    BY <1>1, <1>5 DEF Prime, TypeOK, Yielded
<1>7. \A k \in Keys : Untouched(k)'
    BY <1>6 DEF IInv, BetweenCalls, Prime, Untouched
<1> QED  BY <1>4, <1>6, <1>7 DEF IInv, BetweenCalls, InCall

\* Popping the newest cursor of the least key preserves the invariant.
LEMMA PopStep ==
    ASSUME IInv, Pop
    PROVE  IInv'
<1> DEFINE K == top'.key
           n == top'.idx
<1>1. /\ TypeOK /\ pc = "ready"
      /\ rest \in [Source -> Table] /\ tables \in [Source -> Table] /\ heap \in SUBSET Cursor
    BY DEF IInv, TypeOK, Pop
<1>2. Cursors(heap, rest, Source) /\ \A k \in Keys : Untouched(k)
    BY <1>1 DEF IInv, BetweenCalls
<1>3. PICK c \in heap : /\ OnTop(c) /\ top' = c
                        /\ item' = Peek(rest[c.idx])
                        /\ heap' = heap \ {c}
                        /\ rest' = [rest EXCEPT ![c.idx] = Advance(rest[c.idx])]
    BY DEF Pop
<1>4. c \in Cursor /\ K = c.key /\ n = c.idx
    BY <1>1, <1>3
<1>5. n \in Source /\ K \in Keys /\ K \in Int
    BY <1>4, KeysAssumption DEF Cursor
<1>6. KeysOf(rest[n]) # {} /\ c = Cur(rest[n], n) /\ K = MinKey(rest[n])
    BY <1>2, <1>3, <1>4, CursorFacts DEF Cursors
<1>7. rest[n] \in Table
    BY <1>1, <1>5
<1>8. /\ rest[n][K] \in Entry /\ Peek(rest[n]) \in Record
      /\ Peek(rest[n]) = [key |-> K, val |-> rest[n][K]]
      /\ Advance(rest[n]) \in Table
      /\ \A k \in Keys : Advance(rest[n])[k] = IF k = K THEN Absent ELSE rest[n][k]
      /\ \A k \in KeysOf(rest[n]) : K <= k
    BY <1>6, <1>7, PeekFacts
<1> HIDE DEF K, n
<1>9. rest' \in [Source -> Table] /\ rest'[n] = Advance(rest[n])
      /\ \A i \in Source : i # n => rest'[i] = rest[i]
    BY <1>1, <1>3, <1>4, <1>5, <1>8
<1>10. \A i \in Source : KeysOf(rest[i]) # {} =>
            /\ Cur(rest[i], i) \in heap
            /\ Before(c, Cur(rest[i], i))
            /\ K <= MinKey(rest[i])
            /\ K = MinKey(rest[i]) => n <= i
    <2> SUFFICES ASSUME NEW i \in Source, KeysOf(rest[i]) # {}
                 PROVE  /\ Cur(rest[i], i) \in heap
                        /\ Before(c, Cur(rest[i], i))
                        /\ K <= MinKey(rest[i])
                        /\ K = MinKey(rest[i]) => n <= i
        OBVIOUS
    <2>1. Cur(rest[i], i) \in heap
        BY <1>2 DEF Cursors
    <2>2. Before(c, Cur(rest[i], i))
        BY <1>3, <2>1 DEF OnTop
    <2>3. Cur(rest[i], i).key = MinKey(rest[i]) /\ Cur(rest[i], i).idx = i
        BY CursorFacts
    <2>4. MinKey(rest[i]) \in Int
        BY <1>1, PeekFacts, KeysAssumption
    <2> QED  BY <1>4, <1>5, <2>1, <2>2, <2>3, <2>4 DEF Before
<1>11. \A i \in Source : \A k \in KeysOf(rest[i]) : K <= k
    <2> SUFFICES ASSUME NEW i \in Source, NEW k \in KeysOf(rest[i])  PROVE K <= k
        OBVIOUS
    <2>1. KeysOf(rest[i]) # {} /\ rest[i] \in Table
        BY <1>1
    <2>2. MinKey(rest[i]) <= k /\ MinKey(rest[i]) \in Int /\ k \in Int
        BY <2>1, PeekFacts, TableKeys, KeysAssumption
    <2> QED  BY <1>5, <1>10, <2>1, <2>2
<1>12. \A i \in Source : \A k \in KeysOf(rest'[i]) : K <= k
    <2> SUFFICES ASSUME NEW i \in Source, NEW k \in KeysOf(rest'[i])  PROVE K <= k
        OBVIOUS
    <2>1. k \in KeysOf(rest[i])
        BY <1>8, <1>9 DEF KeysOf
    <2> QED  BY <1>11, <2>1
<1>13. rest'[n][K] = Absent
    BY <1>5, <1>8, <1>9
<1>14. K \notin Yielded
    <2>1. rest[n][K] # Absent
        BY <1>8, EntryAssumption DEF Entry
    <2> QED  BY <1>2, <1>5, <2>1 DEF Untouched
<1>15. Newest[K] = rest[n][K]
    <2>1. \A i \in Source : rest[i][K] = tables[i][K]
        BY <1>2, <1>5, <1>14 DEF Untouched
    <2>2. rest[n][K] # Absent
        BY <1>8, EntryAssumption DEF Entry
    <2>3. ASSUME NEW i \in Source, tables[i][K] # Absent  PROVE n <= i
        <3>1. K \in KeysOf(rest[i])
            BY <1>5, <2>1, <2>3 DEF KeysOf
        <3>2. K = MinKey(rest[i])
            <4>1. MinKey(rest[i]) <= K /\ K <= MinKey(rest[i]) /\ MinKey(rest[i]) \in Int
                BY <1>1, <1>10, <3>1, PeekFacts, KeysAssumption
            <4> QED  BY <1>5, <4>1
        <3> QED  BY <1>10, <3>1, <3>2
    <2> QED  BY <1>1, <1>5, <2>1, <2>2, <2>3, NewestFacts
<1>16. Cursors(heap', rest', Source \ {n})
    <2>1. ASSUME NEW d \in heap'
          PROVE  /\ d.idx \in Source \ {n}
                 /\ KeysOf(rest'[d.idx]) # {} /\ d = Cur(rest'[d.idx], d.idx)
        <3>1. d \in heap /\ d # c
            BY <1>3
        <3>2. d.idx \in Source /\ KeysOf(rest[d.idx]) # {} /\ d = Cur(rest[d.idx], d.idx)
            BY <1>2, <3>1 DEF Cursors
        <3>3. d.idx # n
            BY <1>6, <3>1, <3>2
        <3> QED  BY <1>9, <3>2, <3>3
    <2>2. ASSUME NEW i \in Source \ {n}, KeysOf(rest'[i]) # {}
          PROVE  Cur(rest'[i], i) \in heap'
        <3>1. rest'[i] = rest[i] /\ Cur(rest[i], i) \in heap
            BY <1>2, <1>9, <2>2 DEF Cursors
        <3>2. Cur(rest[i], i) # c
            BY <1>4, CursorFacts
        <3> QED  BY <1>3, <3>1, <3>2
    <2> QED  BY <2>1, <2>2 DEF Cursors
<1>17. tables' = tables /\ out' = out /\ pc' = "skip" /\ Yielded' = Yielded /\ Newest' = Newest
    BY DEF Pop, Yielded, Newest
<1>18. \A k \in Keys \ {K} : Untouched(k)'
    <2> SUFFICES ASSUME NEW k \in Keys \ {K}, NEW i \in Source
                 PROVE  rest'[i][k] = IF k \in Yielded THEN Absent ELSE tables[i][k]
        BY <1>17 DEF Untouched
    <2>1. rest'[i][k] = rest[i][k]
        BY <1>8, <1>9
    <2> QED  BY <1>2, <2>1 DEF Untouched
<1>19. TypeOK'
    BY <1>1, <1>3, <1>4, <1>6, <1>8, <1>9, <1>17 DEF TypeOK
<1>20. item' = [key |-> K, val |-> Newest[K]]
    BY <1>3, <1>4, <1>8, <1>15
<1>21. InCall'
    BY <1>12, <1>13, <1>14, <1>16, <1>17, <1>18, <1>20 DEF InCall, K, n
<1> QED  BY <1>17, <1>19, <1>21 DEF IInv, BetweenCalls

\* Moving an older source past the key preserves the invariant.
LEMMA SkipStep ==
    ASSUME IInv, Skip
    PROVE  IInv'
<1> DEFINE K == top.key
           n == top.idx
<1>1. /\ TypeOK /\ pc = "skip"
      /\ rest \in [Source -> Table] /\ heap \in SUBSET Cursor /\ top \in Cursor
    BY DEF IInv, TypeOK, Skip
<1>2. /\ Cursors(heap, rest, Source \ {n})
      /\ K \notin Yielded
      /\ item = [key |-> K, val |-> Newest[K]]
      /\ \A k \in Keys \ {K} : Untouched(k)
      /\ \A i \in Source : \A k \in KeysOf(rest[i]) : K <= k
      /\ rest[n][K] = Absent
    BY <1>1 DEF IInv, InCall
<1>3. PICK c \in heap : /\ c.key = K
                        /\ heap' = (heap \ {c}) \cup CursorAt(Advance(rest[c.idx]), c.idx)
                        /\ rest' = [rest EXCEPT ![c.idx] = Advance(rest[c.idx])]
    BY DEF Skip
<1> DEFINE m == c.idx
<1>4. /\ m \in Source /\ m # n
      /\ KeysOf(rest[m]) # {} /\ c = Cur(rest[m], m) /\ K = MinKey(rest[m])
    BY <1>2, <1>3, CursorFacts DEF Cursors
<1>5. rest[m] \in Table
    BY <1>1, <1>4
<1>6. /\ Advance(rest[m]) \in Table
      /\ \A k \in Keys : Advance(rest[m])[k] = IF k = K THEN Absent ELSE rest[m][k]
    BY <1>4, <1>5, PeekFacts
<1>7. /\ heap' = (heap \ {c}) \cup CursorAt(Advance(rest[m]), m)
      /\ rest' = [rest EXCEPT ![m] = Advance(rest[m])]
    BY <1>3
<1>8. UNCHANGED <<tables, top, item, out, pc>> /\ Yielded' = Yielded /\ Newest' = Newest
    BY DEF Skip, Yielded, Newest
<1> HIDE DEF K, n, m
<1>9. /\ rest' \in [Source -> Table] /\ rest'[m] = Advance(rest[m])
      /\ \A i \in Source : i # m => rest'[i] = rest[i]
    BY <1>1, <1>4, <1>6, <1>7
<1>10. \A i \in Source : \A k \in KeysOf(rest'[i]) : K <= k
    <2> SUFFICES ASSUME NEW i \in Source, NEW k \in KeysOf(rest'[i])  PROVE K <= k
        OBVIOUS
    <2>1. k \in KeysOf(rest[i])
        BY <1>6, <1>9 DEF KeysOf
    <2> QED  BY <1>2, <2>1
<1>11. \A k \in Keys \ {K} : Untouched(k)'
    <2> SUFFICES ASSUME NEW k \in Keys \ {K}, NEW i \in Source
                 PROVE  rest'[i][k] = IF k \in Yielded THEN Absent ELSE tables[i][k]
        BY <1>8 DEF Untouched
    <2>1. rest'[i][k] = rest[i][k]
        BY <1>6, <1>9
    <2> QED  BY <1>2, <2>1 DEF Untouched
<1>12. n \in Source => rest'[n][K] = Absent
    BY <1>2, <1>4, <1>9
<1>13. n \in Source
    BY <1>1 DEF Cursor, n
<1>14. \A d \in CursorAt(rest'[m], m) : KeysOf(rest'[m]) # {} /\ d = Cur(rest'[m], m)
    BY CursorFacts
<1>15. KeysOf(rest'[m]) # {} => Cur(rest'[m], m) \in CursorAt(rest'[m], m)
    BY CursorFacts
<1>16. Cursors(heap', rest', Source \ {n})
    <2>1. ASSUME NEW d \in heap'
          PROVE  /\ d.idx \in Source \ {n}
                 /\ KeysOf(rest'[d.idx]) # {} /\ d = Cur(rest'[d.idx], d.idx)
        <3>1. CASE d \in CursorAt(rest'[m], m)
            BY <1>4, <1>14, <3>1, CursorFacts
        <3>2. CASE d \in heap /\ d # c
            <4>1. /\ d.idx \in Source \ {n}
                  /\ KeysOf(rest[d.idx]) # {} /\ d = Cur(rest[d.idx], d.idx)
                BY <1>2, <3>2 DEF Cursors
            <4>2. d.idx # m
                BY <1>4, <3>2, <4>1
            <4> QED  BY <1>9, <4>1, <4>2
        <3> QED  BY <1>7, <1>9, <3>1, <3>2
    <2>2. ASSUME NEW i \in Source \ {n}, KeysOf(rest'[i]) # {}
          PROVE  Cur(rest'[i], i) \in heap'
        <3>1. CASE i = m
            BY <1>7, <1>9, <1>15, <2>2, <3>1
        <3>2. CASE i # m
            <4>1. rest'[i] = rest[i] /\ Cur(rest[i], i) \in heap
                BY <1>2, <1>9, <2>2, <3>2 DEF Cursors
            <4>2. Cur(rest[i], i) # c
                BY <1>4, <3>2, CursorFacts
            <4> QED  BY <1>7, <4>1, <4>2
        <3> QED  BY <3>1, <3>2
    <2> QED  BY <2>1, <2>2 DEF Cursors
<1>17. heap' \in SUBSET Cursor
    <2>1. ASSUME NEW d \in CursorAt(rest'[m], m)  PROVE d \in Cursor
        <3>1. KeysOf(rest'[m]) # {} /\ d = Cur(rest'[m], m) /\ rest'[m] \in Table
            BY <1>4, <1>9, <1>14
        <3>2. MinKey(rest'[m]) \in Keys
            BY <3>1, PeekFacts
        <3> QED  BY <1>4, <3>1, <3>2 DEF Cur, Cursor
    <2> QED  BY <1>1, <1>7, <1>9, <2>1
<1>18. TypeOK'
    BY <1>1, <1>8, <1>9, <1>17 DEF TypeOK
<1>19. InCall'
    BY <1>1, <1>2, <1>8, <1>10, <1>11, <1>12, <1>13, <1>16 DEF InCall, K, n
<1> QED  BY <1>1, <1>8, <1>18, <1>19 DEF IInv, BetweenCalls

\* When the loop ends every source has been moved past the key.
LEMMA AllSkipped ==
    ASSUME IInv, pc = "skip", \A c \in heap : OnTop(c) => c.key # top.key
    PROVE  \A i \in Source : rest[i][top.key] = Absent
<1> DEFINE K == top.key
           I == {i \in Source : \E c \in heap : c.key = K /\ c.idx = i}
<1>1. /\ rest \in [Source -> Table] /\ heap \in SUBSET Cursor /\ top \in Cursor
      /\ K \in Keys /\ K \in Int
    BY KeysAssumption DEF IInv, TypeOK, Cursor
<1>2. /\ Cursors(heap, rest, Source \ {top.idx})
      /\ \A i \in Source : \A k \in KeysOf(rest[i]) : K <= k
      /\ rest[top.idx][K] = Absent
    BY DEF IInv, InCall
<1>3. \A c \in heap : c.key \in Int /\ c.idx \in Source /\ c.idx \in Int /\ K <= c.key
    <2> SUFFICES ASSUME NEW c \in heap
                 PROVE  c.key \in Int /\ c.idx \in Source /\ c.idx \in Int /\ K <= c.key
        OBVIOUS
    <2>1. c.idx \in Source /\ c.idx \in Int /\ c.key \in Int
        <3> HIDE DEF K, I
        <3>1. c \in Cursor
            BY <1>1
        <3>2. c.idx \in Source /\ c.key \in Keys
            BY <3>1 DEF Cursor
        <3>3. c.key \in Int
            BY <3>2, KeysAssumption
        <3>4. c.idx \in Int
            BY <3>2, SourcesAssumption DEF Source
        <3> QED  BY <3>2, <3>3, <3>4
    <2>2. KeysOf(rest[c.idx]) # {} /\ c.key = MinKey(rest[c.idx])
        BY <1>2, CursorFacts DEF Cursors
    <2>3. MinKey(rest[c.idx]) \in KeysOf(rest[c.idx])
        BY <1>1, <2>1, <2>2, PeekFacts
    <2> QED  BY <1>2, <2>1, <2>2, <2>3
<1>4. I = {}
    <2> SUFFICES ASSUME I # {}  PROVE FALSE
        OBVIOUS
    <2>1. I \subseteq Nat
        BY DEF Source
    <2>2. PICK i \in I : \A j \in I : i <= j
        <3> HIDE DEF I
        <3> QED  BY <2>1, NatLeast
    <2>3. PICK c \in heap : c.key = K /\ c.idx = i
        OBVIOUS
    <2>4. ASSUME NEW d \in heap  PROVE Before(c, d)
        <3>1. CASE d.key = K
            <4>1. d.idx \in I
                BY <1>3, <3>1
            <4> QED  BY <2>2, <2>3, <3>1, <4>1 DEF Before
        <3>2. CASE d.key # K
            BY <1>1, <1>3, <2>3, <3>2 DEF Before
        <3> QED  BY <3>1, <3>2
    <2> QED  BY <2>3, <2>4 DEF OnTop
<1>5. ASSUME NEW i \in Source, rest[i][K] # Absent  PROVE FALSE
    <2>1. i # top.idx /\ rest[i] \in Table /\ K \in KeysOf(rest[i])
        BY <1>1, <1>2, <1>5 DEF KeysOf
    <2>2. MinKey(rest[i]) = K
        <3>1. MinKey(rest[i]) <= K /\ K <= MinKey(rest[i]) /\ MinKey(rest[i]) \in Int
            BY <1>2, <2>1, PeekFacts, KeysAssumption
        <3> QED  BY <1>1, <3>1
    <2>3. Cur(rest[i], i) \in heap
        BY <1>2, <2>1 DEF Cursors
    <2>4. i \in I
        BY <2>2, <2>3, CursorFacts
    <2> QED  BY <1>4, <2>4
<1> QED  BY <1>5

\* Returning the record preserves the invariant.
LEMMA ReturnStep ==
    ASSUME IInv, Return
    PROVE  IInv'
<1> DEFINE K == top.key
           n == top.idx
<1>1. /\ TypeOK /\ pc = "skip"
      /\ rest \in [Source -> Table] /\ heap \in SUBSET Cursor
      /\ top \in Cursor /\ item \in Record /\ out \in Seq(Record)
    BY DEF IInv, TypeOK, Return
<1>2. /\ Cursors(heap, rest, Source \ {n})
      /\ item.key = K
      /\ \A k \in Keys \ {K} : Untouched(k)
    BY <1>1 DEF IInv, InCall
<1>3. \A i \in Source : rest[i][K] = Absent
    BY <1>1, AllSkipped DEF Return
<1>4. n \in Source
    BY <1>1 DEF Cursor
<1>5. /\ heap' = heap \cup CursorAt(rest[n], n) /\ out' = Append(out, item) /\ pc' = "ready"
      /\ tables' = tables /\ rest' = rest /\ top' = top /\ item' = item
    BY DEF Return
<1> HIDE DEF K, n
<1>6. out' \in Seq(Record)
    BY <1>1, <1>5
<1>7. ASSUME NEW k  PROVE k \in Yielded' <=> k = K \/ k \in Yielded
    BY <1>1, <1>2, <1>5 DEF Yielded
<1>8. \A k \in Keys : Untouched(k)'
    <2> SUFFICES ASSUME NEW k \in Keys, NEW i \in Source
                 PROVE  rest[i][k] = IF k \in Yielded' THEN Absent ELSE tables[i][k]
        BY <1>5 DEF Untouched
    <2>1. CASE k = K
        BY <1>3, <1>7, <2>1
    <2>2. CASE k # K
        BY <1>2, <1>7, <2>2 DEF Untouched
    <2> QED  BY <2>1, <2>2
<1>9. /\ \A d \in CursorAt(rest[n], n) : KeysOf(rest[n]) # {} /\ d = Cur(rest[n], n)
      /\ KeysOf(rest[n]) # {} => Cur(rest[n], n) \in CursorAt(rest[n], n)
      /\ Cur(rest[n], n).idx = n
    BY CursorFacts
<1>10. Cursors(heap', rest, Source)
    <2>1. ASSUME NEW d \in heap'
          PROVE  d.idx \in Source /\ KeysOf(rest[d.idx]) # {} /\ d = Cur(rest[d.idx], d.idx)
        <3>1. CASE d \in heap
            BY <1>2, <3>1 DEF Cursors
        <3>2. CASE d \in CursorAt(rest[n], n)
            BY <1>4, <1>9, <3>2
        <3> QED  BY <1>5, <3>1, <3>2
    <2>2. ASSUME NEW i \in Source, KeysOf(rest[i]) # {}  PROVE Cur(rest[i], i) \in heap'
        <3>1. CASE i = n
            BY <1>5, <1>9, <2>2, <3>1
        <3>2. CASE i # n
            BY <1>2, <1>5, <2>2, <3>2 DEF Cursors
        <3> QED  BY <3>1, <3>2
    <2> QED  BY <2>1, <2>2 DEF Cursors
<1>11. heap' \in SUBSET Cursor
    <2>1. ASSUME NEW d \in CursorAt(rest[n], n)  PROVE d \in Cursor
        <3>1. KeysOf(rest[n]) # {} /\ d = Cur(rest[n], n) /\ rest[n] \in Table
            BY <1>1, <1>4, <1>9
        <3>2. MinKey(rest[n]) \in Keys
            BY <3>1, PeekFacts
        <3> QED  BY <1>4, <3>1, <3>2 DEF Cur, Cursor
    <2> QED  BY <1>1, <1>5, <2>1
<1>12. TypeOK'
    BY <1>1, <1>5, <1>6, <1>11 DEF TypeOK
<1>13. BetweenCalls'
    BY <1>5, <1>8, <1>10 DEF BetweenCalls
<1> QED  BY <1>5, <1>12, <1>13 DEF IInv, InCall

\* The steps that only end the scan, and stuttering, preserve the invariant.
LEMMA EndStep ==
    ASSUME IInv, Exhausted \/ ReadFails \/ UNCHANGED vars
    PROVE  IInv'
<1>1. UNCHANGED <<tables, rest, heap, top, item, out>> /\ pc' \in {pc, "done", "failed"}
    BY DEF Exhausted, ReadFails, vars
<1>2. TypeOK'
    BY <1>1 DEF IInv, TypeOK
<1>3. Yielded' = Yielded /\ Newest' = Newest
    BY <1>1 DEF Yielded, Newest
<1>4. BetweenCalls'
    BY <1>1, <1>3 DEF IInv, BetweenCalls, Untouched
<1>5. InCall'
    BY <1>1, <1>3 DEF IInv, InCall, Untouched
<1> QED  BY <1>2, <1>4, <1>5 DEF IInv

\* Every step preserves the invariant.
LEMMA NextInvariant == IInv /\ [Next]_vars => IInv'
BY PrimeStep, PopStep, SkipStep, ReturnStep, EndStep DEF Next, Step

-----------------------------------------------------------------------------
(* The theorems.                                                           *)

\* The invariant holds throughout a scan: between calls every source still has
\* exactly its records of the keys not yielded, and within a call the popped
\* record is the newest of its key (MergeIter::next).
THEOREM MergeInvariance == Spec => []IInv
<1>1. Init => IInv
    BY InitInvariant
<1>2. IInv /\ [Next]_vars => IInv'
    BY NextInvariant
<1> QED  BY <1>1, <1>2, PTL DEF Spec

\* The heap of MergeIter always holds exactly the cursors of the sources that
\* are not exhausted, but for the one whose record is about to be returned.
THEOREM HeapHoldsCursors == Spec => []HeapIsCursors
<1>1. ASSUME NEW h, NEW I, NEW r, Cursors(h, r, I)
      PROVE  h = UNION {CursorAt(r[i], i) : i \in I}
    <2>1. ASSUME NEW c \in h  PROVE \E i \in I : c \in CursorAt(r[i], i)
        BY <1>1, CursorFacts DEF Cursors
    <2>2. ASSUME NEW i \in I, NEW c \in CursorAt(r[i], i)  PROVE c \in h
        BY <1>1, CursorFacts DEF Cursors
    <2> QED  BY <2>1, <2>2
<1>2. IInv => HeapIsCursors
    BY <1>1 DEF IInv, BetweenCalls, InCall, HeapIsCursors
<1> QED  BY <1>2, MergeInvariance, PTL

-----------------------------------------------------------------------------
(* The refinement: a scan of the newest records, in order.                 *)

\* What the abstract scan has still to yield.
LEMMA LeftFacts == \A k : k \in Scan!Left <=> k \in Keys /\ Newest[k] # Absent /\ k \notin Yielded
BY DEF Scan!Left, Scan!KeysOf, Yielded

\* The steps that leave the records returned and the end alone are stutters.
LEMMA QuietStep ==
    ASSUME IInv, Prime \/ Pop \/ Skip \/ UNCHANGED vars
    PROVE  UNCHANGED Scan!svars
<1>1. /\ tables' = tables /\ out' = out
      /\ pc' = pc \/ (pc \in {"new", "ready"} /\ pc' \in {"ready", "skip"})
    BY DEF Prime, Pop, Skip, vars
<1>2. Newest' = Newest
    BY <1>1 DEF Newest
<1>3. StatusOf(pc') = StatusOf(pc)
    BY <1>1 DEF StatusOf
<1> QED  BY <1>1, <1>2, <1>3 DEF Scan!svars, StatusOf

\* Returning a record is a Yield of the least key that is left.
LEMMA ReturnYields ==
    ASSUME IInv, Return
    PROVE  Scan!Yield
<1> DEFINE K == top.key
           n == top.idx
<1>1. /\ TypeOK /\ pc = "skip" /\ top \in Cursor /\ K \in Keys
      /\ tables \in [Source -> Table]
    BY DEF IInv, TypeOK, Return, Cursor
<1>2. /\ item = [key |-> K, val |-> Newest[K]]
      /\ K \notin Yielded
      /\ \A k \in Keys \ {K} : Untouched(k)
      /\ \A i \in Source : \A k \in KeysOf(rest[i]) : K <= k
    BY <1>1 DEF IInv, InCall
<1>3. Newest[K] # Absent
    <2>1. item \in Record
        BY <1>1 DEF TypeOK
    <2> HIDE DEF K
    <2>2. Newest[K] \in Entry
        BY <1>2, <2>1 DEF Record
    <2> QED  BY <2>2, EntryAssumption DEF Entry
<1>4. /\ out' = Append(out, item) /\ pc' = "ready" /\ tables' = tables
    BY DEF Return
<1> HIDE DEF K, n
<1>5. K \in Scan!Left
    BY <1>1, <1>2, <1>3, LeftFacts
<1>6. ASSUME NEW j \in Scan!Left  PROVE K <= j
    <2>1. j \in Keys /\ Newest[j] # Absent /\ j \notin Yielded
        BY LeftFacts
    <2>2. PICK i \in Source : tables[i][j] # Absent
        BY <1>1, <2>1, NewestFacts
    <2>3. CASE j = K
        BY <1>1, <2>3, KeysAssumption
    <2>4. CASE j # K
        <3>1. rest[i][j] = tables[i][j]
            BY <1>2, <2>1, <2>4 DEF Untouched
        <3>2. j \in KeysOf(rest[i])
            BY <2>1, <2>2, <3>1 DEF KeysOf
        <3> QED  BY <1>2, <3>2
    <2> QED  BY <2>3, <2>4
<1>7. Newest' = Newest
    BY <1>4 DEF Newest
<1>8. StatusOf(pc) = "open" /\ StatusOf(pc') = "open"
    BY <1>1, <1>4 DEF StatusOf
<1>9. out' = Append(out, [key |-> K, val |-> Newest[K]])
    BY <1>2, <1>4
<1> QED  BY <1>5, <1>6, <1>7, <1>8, <1>9 DEF Scan!Yield, StatusOf

\* The heap is empty only when nothing is left to yield.
LEMMA ExhaustedEnds ==
    ASSUME IInv, Exhausted
    PROVE  Scan!End
<1>1. /\ pc = "ready" /\ heap = {} /\ pc' = "done" /\ out' = out /\ tables' = tables
      /\ tables \in [Source -> Table]
    BY DEF Exhausted, IInv, TypeOK
<1>2. Cursors(heap, rest, Source) /\ \A k \in Keys : Untouched(k)
    BY <1>1 DEF IInv, BetweenCalls
<1>3. ASSUME NEW j \in Scan!Left  PROVE FALSE
    <2>1. j \in Keys /\ Newest[j] # Absent /\ j \notin Yielded
        BY LeftFacts
    <2>2. PICK i \in Source : tables[i][j] # Absent
        BY <1>1, <2>1, NewestFacts
    <2>3. rest[i][j] # Absent
        BY <1>2, <2>1, <2>2 DEF Untouched
    <2>4. KeysOf(rest[i]) # {}
        BY <2>1, <2>3 DEF KeysOf
    <2> QED  BY <1>1, <1>2, <2>4 DEF Cursors
<1>4. Scan!Left = {}
    BY <1>3
<1>5. Newest' = Newest
    BY <1>1 DEF Newest
<1>6. StatusOf(pc) = "open" /\ StatusOf(pc') = "end"
    BY <1>1 DEF StatusOf
<1> QED  BY <1>1, <1>4, <1>5, <1>6 DEF Scan!End, StatusOf

\* A read error ends the abstract scan too.
LEMMA ReadFailsFails ==
    ASSUME ReadFails
    PROVE  Scan!Fail
<1>1. pc \in {"new", "ready", "skip"} /\ pc' = "failed" /\ tables' = tables /\ out' = out
    BY DEF ReadFails
<1>2. Newest' = Newest
    BY <1>1 DEF Newest
<1>3. StatusOf(pc) = "open" /\ StatusOf(pc') = "failed"
    BY <1>1 DEF StatusOf
<1> QED  BY <1>1, <1>2, <1>3 DEF Scan!Fail, StatusOf

\* MergeIter implements the scan: next() yields the newest record of every key,
\* tombstones included, once and in key order, and None only after the last.
THEOREM MergeYieldsNewest == Spec => YieldsNewest
<1>1. Init => Scan!SInit
    <2> SUFFICES ASSUME Init  PROVE Scan!SInit
        OBVIOUS
    <2>1. tables \in [Source -> Table] /\ out = <<>> /\ StatusOf(pc) = "open"
        BY DEF Init, StatusOf
    <2>2. \A k \in Keys : Newest[k] \in Entry \cup {Absent}
        BY <2>1, NewestFacts
    <2>3. Newest \in [Keys -> Entry \cup {Absent}]
        <3> DEFINE f(k) == LET hits == {i \in Source : tables[i][k] # Absent}
                           IN  IF hits = {} THEN Absent ELSE tables[Min(hits)][k]
        <3>1. Newest = [k \in Keys |-> f(k)]
            BY DEF Newest
        <3> HIDE DEF f
        <3> QED  BY <2>2, <3>1
    <2> QED  BY <2>1, <2>3 DEF Scan!SInit, Scan!Table, Scan!Entry, Entry, StatusOf
<1>2. IInv /\ [Next]_vars => [Scan!Yield \/ Scan!End \/ Scan!Fail]_Scan!svars
    BY QuietStep, ReturnYields, ExhaustedEnds, ReadFailsFails DEF Next, Step
<1> QED  BY <1>1, <1>2, MergeInvariance, PTL DEF Spec, YieldsNewest, Scan!SSpec
=============================================================================

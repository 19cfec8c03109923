-------------------------- MODULE LsmEngineProofs --------------------------
(***************************************************************************)
(* Theorems about the storage engine, for all keys, limits and bounds:     *)
(* its types, and that the manifest in memory and every state of the       *)
(* directory a crash may leave name only files that are what they say.     *)
(***************************************************************************)
EXTENDS LsmProperties, TableLemmas

-----------------------------------------------------------------------------
(* Tables.                                                                 *)

\* The empty table is a table, and has no key.
LEMMA EmptyTableOK == EmptyTable \in Table /\ KeysOf(EmptyTable) = {}
BY DEF EmptyTable, Table, KeysOf

\* A table with a record is not the empty one, and the other way round.
LEMMA NonEmptyTable ==
    ASSUME NEW t \in Table, t # EmptyTable
    PROVE  KeysOf(t) # {}
BY DEF EmptyTable, Table, KeysOf

\* NewestEntry is the entry of the last table that has one.
LEMMA NewestEntryOf ==
    ASSUME NEW ts \in Seq(Table), NEW k \in Keys
    PROVE  \/ NewestEntry(ts, k) = Absent /\ \A i \in 1 .. Len(ts) : ts[i][k] = Absent
           \/ \E i \in 1 .. Len(ts) :
                /\ k \in KeysOf(ts[i]) /\ ts[i][k] # Absent /\ ts[i][k] \in Entry
                /\ NewestEntry(ts, k) = ts[i][k]
                /\ \A j \in 1 .. Len(ts) : j > i => ts[j][k] = Absent
<1> DEFINE hits == {i \in DOMAIN ts : ts[i][k] # Absent}
<1>1. DOMAIN ts = 1 .. Len(ts) /\ Len(ts) \in Nat
    BY LenProperties
<1>2. CASE hits = {}
    BY <1>1, <1>2 DEF NewestEntry
<1>3. CASE hits # {}
    <2>1. hits \subseteq Int /\ IsFiniteSet(hits)
        <3>1. hits \subseteq 1 .. Len(ts)
            BY <1>1
        <3>2. IsFiniteSet(1 .. Len(ts)) /\ 1 .. Len(ts) \subseteq Int
            BY <1>1, FS_Interval
        <3> HIDE DEF hits
        <3> QED  BY <3>1, <3>2, FS_Subset
    <2>2. Max(hits) \in hits /\ \A j \in hits : Max(hits) >= j
        <3> HIDE DEF hits
        <3> QED  BY <1>3, <2>1, FiniteMax
    <2>3. NewestEntry(ts, k) = ts[Max(hits)][k]
        BY <1>3 DEF NewestEntry
    <2>4. PICK i \in 1 .. Len(ts) : i = Max(hits) /\ ts[i][k] # Absent
        BY <1>1, <2>2
    <2>5. ts[i] \in Table
        BY ElementOfSeq
    <2>6. ASSUME NEW j \in 1 .. Len(ts), j > i, ts[j][k] # Absent  PROVE FALSE
        <3>1. j \in hits
            BY <1>1, <2>6
        <3>2. i >= j /\ i \in Nat /\ j \in Nat
            BY <2>2, <2>4, <3>1
        <3> QED  BY <2>6, <3>2
    <2> QED  BY <2>3, <2>4, <2>5, <2>6 DEF Table, KeysOf
<1> QED  BY <1>2, <1>3

\* The newest-first merge of tables is a table, and its keys are keys of them.
LEMMA MergeKeys ==
    ASSUME NEW ts \in Seq(Table), NEW S \in SUBSET Table
    PROVE  /\ Merge(ts, S) \in Table
           /\ \A k \in KeysOf(Merge(ts, S)) :
                \/ \E i \in 1 .. Len(ts) : k \in KeysOf(ts[i])
                \/ \E t \in S : k \in KeysOf(t)
<1>2. ASSUME NEW k \in Keys
      PROVE  \/ NewestEntry(ts, k) = Absent
             \/ /\ NewestEntry(ts, k) \in Entry
                /\ \E i \in 1 .. Len(ts) : k \in KeysOf(ts[i])
    BY NewestEntryOf
<1>3. ASSUME NEW k \in Keys
      PROVE  \/ AnyEntry(S, k) = Absent
             \/ /\ AnyEntry(S, k) \in Entry
                /\ \E t \in S : k \in KeysOf(t)
    <2> DEFINE hits == {t \in S : t[k] # Absent}
    <2>1. CASE hits = {}
        BY <2>1 DEF AnyEntry
    <2>2. CASE hits # {}
        <3>1. PICK t \in hits : AnyEntry(S, k) = t[k]
            BY <2>2 DEF AnyEntry
        <3> QED  BY <3>1 DEF Table, KeysOf
    <2> QED  BY <2>1, <2>2
<1>4. \A e \in Entry \cup {Absent} : Visible(e) \in Entry \cup {Absent}
    BY DEF Visible
<1>5. Visible(Absent) = Absent
    BY EntryAssumption DEF Visible
<1> QED
    <2>1. Merge(ts, S) \in Table
        BY <1>2, <1>3, <1>4 DEF Merge, Table
    <2>2. \A k \in Keys : Merge(ts, S)[k] =
            Visible(IF NewestEntry(ts, k) # Absent THEN NewestEntry(ts, k) ELSE AnyEntry(S, k))
        BY DEF Merge
    <2> QED  BY <1>2, <1>3, <1>5, <2>1, <2>2 DEF KeysOf

-----------------------------------------------------------------------------
(* The log.                                                                *)

\* The records that put, delete and commit write, and a torn one, are records.
LEMMA RecordsOK ==
    /\ Torn \in Record
    /\ \A k \in Keys, e \in Entry : PutRec(k, e) \in Record
    /\ \A t \in Nat, k \in Keys, e \in Entry : TxRec(t, k, e) \in Record
    /\ \A t \in Nat : BeginRec(t) \in Record /\ CommitRec(t) \in Record
BY DEF Record, Torn, PutRec, TxRec, BeginRec, CommitRec

\* The block of a transaction is a sequence of records, two more than it has
\* entries.
LEMMA TxRecordsOK ==
    ASSUME NEW t \in Nat, NEW b \in Table
    PROVE  TxRecords(t, b) \in Seq(Record) /\ Len(TxRecords(t, b)) = Size(b) + 2
<1> DEFINE key(i) == CHOOSE k \in KeysOf(b) : Rank(b, k) = i
           entries == [i \in 1 .. Size(b) |-> TxRec(t, key(i), b[key(i)])]
<1>1. \A i \in 1 .. Size(b) : key(i) \in KeysOf(b)
    BY RankOnto
<1>2. \A k \in KeysOf(b) : k \in Keys /\ b[k] \in Entry
    BY DEF KeysOf, Table
<1>3. \A i \in 1 .. Size(b) : TxRec(t, key(i), b[key(i)]) \in Record
    <2> HIDE DEF key
    <2> QED  BY <1>1, <1>2, RecordsOK
<1>4. Size(b) \in Nat
    BY TableKeys
<1>5. entries \in [1 .. Size(b) -> Record]
    <2> HIDE DEF key
    <2> QED  BY <1>3
<1>6. TxRecords(t, b) = <<BeginRec(t)>> \o entries \o <<CommitRec(t)>>
    BY DEF TxRecords
<1> HIDE DEF entries
<1>7. entries \in Seq(Record) /\ Len(entries) = Size(b)
    BY <1>4, <1>5, SeqDef
<1>8. /\ <<BeginRec(t)>> \in Seq(Record) /\ Len(<<BeginRec(t)>>) = 1
      /\ <<CommitRec(t)>> \in Seq(Record) /\ Len(<<CommitRec(t)>>) = 1
    BY RecordsOK
<1>9. /\ <<BeginRec(t)>> \o entries \in Seq(Record)
      /\ Len(<<BeginRec(t)>> \o entries) = 1 + Size(b)
    BY <1>7, <1>8, ConcatProperties
<1> QED  BY <1>4, <1>6, <1>8, <1>9, ConcatProperties
\* Replay reads at most the whole log.
LEMMA ReadableOK ==
    ASSUME NEW log \in Seq(Record)
    PROVE  Readable(log) \in 0 .. Len(log)
<1> DEFINE torn == {i \in DOMAIN log : log[i].op = "torn"}
<1>1. DOMAIN log = 1 .. Len(log) /\ Len(log) \in Nat
    BY LenProperties
<1>2. CASE torn = {}
    BY <1>1, <1>2 DEF Readable
<1>3. CASE torn # {}
    <2>1. torn \subseteq 1 .. Len(log)
        BY <1>1
    <2>2. IsFiniteSet(1 .. Len(log)) /\ 1 .. Len(log) \subseteq Int
        BY <1>1, FS_Interval
    <2>3. Readable(log) = Min(torn) - 1
        BY <1>3 DEF Readable
    <2>4. Min(torn) \in torn
        <3> HIDE DEF torn
        <3> QED  BY <1>3, <2>1, <2>2, FS_Subset, FiniteMin
    <2>5. \E i \in 1 .. Len(log) : i = Min(torn)
        <3> HIDE DEF torn
        <3> QED  BY <2>1, <2>4
    <2> QED  BY <1>1, <2>3, <2>5
<1> QED  BY <1>2, <1>3

\* The fields that replay takes from a record, by the record's kind.
LEMMA RecordFields ==
    ASSUME NEW r \in Record
    PROVE  /\ r.op \in {"put", "txput"} => r.tx \in Nat /\ r.key \in Keys /\ r.val \in Entry
           /\ r.op \in {"begin", "commit"} => r.tx \in Nat
BY DEF Record, Torn

\* Replaying a log yields a memtable.
LEMMA ReplayOK ==
    ASSUME NEW log \in Seq(Record)
    PROVE  Replay(log) \in Table
<1> DEFINE applied == {i \in 1 .. Readable(log) : Applies(log[i], Committed(log))}
           ofKey(k) == {i \in applied : log[i].key = k}
<1>1. Readable(log) \in Int /\ Len(log) \in Nat /\ 1 .. Readable(log) \subseteq 1 .. Len(log)
    BY ReadableOK, LenProperties
<1>2. Replay(log) =
        [k \in Keys |-> IF ofKey(k) = {} THEN Absent ELSE log[Max(ofKey(k))].val]
    BY DEF Replay
<1>3. ASSUME NEW k \in Keys, ofKey(k) # {}
      PROVE  log[Max(ofKey(k))].val \in Entry
    <2>1. ofKey(k) \subseteq 1 .. Readable(log) /\ ofKey(k) \subseteq applied
        OBVIOUS
    <2>2. IsFiniteSet(1 .. Readable(log)) /\ 1 .. Readable(log) \subseteq Int
        BY <1>1, FS_Interval
    <2>3. Max(ofKey(k)) \in applied
        <3> HIDE DEF ofKey
        <3>1. IsFiniteSet(ofKey(k)) /\ ofKey(k) \subseteq Int
            BY <2>1, <2>2, FS_Subset
        <3> QED  BY <1>3, <2>1, <3>1, FiniteMax
    <2>4. PICK i \in 1 .. Len(log) : i = Max(ofKey(k)) /\ log[i].op \in {"put", "txput"}
        BY <1>1, <2>3 DEF Applies
    <2>5. log[i] \in Record
        BY ElementOfSeq
    <2> HIDE DEF ofKey
    <2> QED  BY <2>4, <2>5, RecordFields
<1> HIDE DEF ofKey
<1> QED  BY <1>2, <1>3 DEF Table

\* The greatest transaction id of a log is a natural number.
LEMMA MaxTxIdOK ==
    ASSUME NEW log \in Seq(Record)
    PROVE  MaxTxId(log) \in Nat
<1> DEFINE I == {j \in 1 .. Readable(log) : log[j].op \in {"begin", "txput", "commit"}}
           T == {log[i].tx : i \in I}
           f == [i \in I |-> log[i].tx]
<1>1. Readable(log) \in Int /\ 1 .. Readable(log) \subseteq 1 .. Len(log)
    BY ReadableOK, LenProperties
<1>2. IsFiniteSet(I)
    <2>1. I \subseteq 1 .. Readable(log)
        OBVIOUS
    <2>2. IsFiniteSet(1 .. Readable(log))
        BY <1>1, FS_Interval
    <2> HIDE DEF I
    <2> QED  BY <2>1, <2>2, FS_Subset
<1>3. \A i \in I : log[i].tx \in Nat
    <2> SUFFICES ASSUME NEW i \in I  PROVE log[i].tx \in Nat
        OBVIOUS
    <2>1. log[i] \in Record /\ log[i].op \in {"begin", "txput", "commit"}
        BY <1>1, ElementOfSeq
    <2> QED  BY <2>1, RecordFields
<1>4. IsFiniteSet(T) /\ T \subseteq Nat
    <2> HIDE DEF I
    <2>1. f \in Surjection(I, T)
        BY DEF Surjection
    <2>2. T \subseteq Nat
        BY <1>3
    <2> HIDE DEF f, T
    <2> QED  BY <1>2, <2>1, <2>2, FS_Surjection
<1>5. MaxTxId(log) = Max({0} \cup T)
    BY DEF MaxTxId
<1> HIDE DEF T
<1>6. IsFiniteSet({0} \cup T) /\ {0} \cup T \subseteq Nat /\ {0} \cup T # {}
    BY <1>4, FS_AddElement
<1>7. {0} \cup T \subseteq Int
    BY <1>6
<1>8. Max({0} \cup T) \in {0} \cup T
    BY <1>6, <1>7, FiniteMax
<1> QED  BY <1>5, <1>6, <1>8
-----------------------------------------------------------------------------
(* The directory: each operation changes one field.                        *)

\* Saving a manifest changes only MANIFEST.
LEMMA WithManOK ==
    ASSUME NEW d, IsDisk(d), NEW m \in Manifest
    PROVE  LET e == [d EXCEPT !.man = m]
           IN  IsDisk(e) /\ e.man = m /\ e.files = d.files
BY DEF IsDisk

\* Setting the log and its durable prefix changes nothing else.
LEMMA WithLogOK ==
    ASSUME NEW d, IsDisk(d), NEW log \in Seq(Record), NEW n \in 0 .. Len(log)
    PROVE  LET e == WithLog(d, log, n)
           IN  /\ IsDisk(e) /\ e.man = d.man /\ e.files = d.files
               /\ e.wal = log /\ e.synced = n
<1>1. d = [man |-> d.man, files |-> d.files, wal |-> d.wal, synced |-> d.synced]
    BY DEF IsDisk
<1> DEFINE d1 == [d EXCEPT !.wal = log]
<1>2. [d EXCEPT !.wal = log, !.synced = n] = [d1 EXCEPT !.synced = n]
    OBVIOUS
<1>3. d1 = [man |-> d.man, files |-> d.files, wal |-> log, synced |-> d.synced]
    BY <1>1
<1> HIDE DEF d1
<1>4. [d1 EXCEPT !.synced = n] =
        [man |-> d.man, files |-> d.files, wal |-> log, synced |-> n]
    BY <1>3
<1> QED  BY <1>2, <1>4 DEF IsDisk, WithLog

\* Writing one table file changes that file only.
LEMMA WithFileOK ==
    ASSUME NEW d, IsDisk(d), NEW id \in Nat, NEW t \in Table \cup {Broken}
    PROVE  LET e == WithFile(d, id, t)
           IN  /\ IsDisk(e)
               /\ e.man = d.man
               /\ DOMAIN e.files = DOMAIN d.files \cup {id}
               /\ e.files[id] = t
               /\ \A i \in DOMAIN d.files : i # id => e.files[i] = d.files[i]
<1> DEFINE f == [i \in DOMAIN d.files \cup {id} |-> IF i = id THEN t ELSE d.files[i]]
           e == WithFile(d, id, t)
<1>1. e = [d EXCEPT !.files = f]
    BY DEF WithFile
<1>2. IsFileMap(f)
    BY DEF IsDisk, IsFileMap
<1>3. /\ DOMAIN f = DOMAIN d.files \cup {id}
      /\ f[id] = t
      /\ \A i \in DOMAIN d.files : i # id => f[i] = d.files[i]
    OBVIOUS
<1> HIDE DEF f
<1>4. e.files = f /\ e.man = d.man /\ IsDisk(e)
    <2> HIDE DEF e
    <2> QED  BY <1>1, <1>2 DEF IsDisk
<1> QED  BY <1>3, <1>4

\* Removing table files leaves the other ones as they are.
LEMMA WithoutFilesOK ==
    ASSUME NEW d, IsDisk(d), NEW ids
    PROVE  LET e == WithoutFiles(d, ids)
           IN  /\ IsDisk(e)
               /\ e.man = d.man
               /\ DOMAIN e.files = DOMAIN d.files \ ids
               /\ \A i \in DOMAIN e.files : e.files[i] = d.files[i]
<1> DEFINE f == [i \in DOMAIN d.files \ ids |-> d.files[i]]
           e == WithoutFiles(d, ids)
<1>1. e = [d EXCEPT !.files = f]
    BY DEF WithoutFiles
<1>2. IsFileMap(f)
    BY DEF IsDisk, IsFileMap
<1>3. DOMAIN f = DOMAIN d.files \ ids /\ \A i \in DOMAIN f : f[i] = d.files[i]
    OBVIOUS
<1> HIDE DEF f
<1>4. e.files = f /\ e.man = d.man /\ IsDisk(e)
    <2> HIDE DEF e
    <2> QED  BY <1>1, <1>2 DEF IsDisk
<1> QED  BY <1>3, <1>4

\* The files of a directory are tables, or were not written to the end.
LEMMA FilesOK ==
    ASSUME NEW d, IsDisk(d), NEW id \in DOMAIN d.files
    PROVE  id \in Nat /\ d.files[id] \in Table \cup {Broken}
BY DEF IsDisk, IsFileMap

-----------------------------------------------------------------------------
(* Manifests and the files they name.                                      *)

\* The files of f that the manifest m names are what m takes them to be.
Intact(m, f) ==
    /\ Valid(m)
    /\ \A id \in AllIds(m) : id < m.next
    /\ \A id \in AllIds(m) \cap DOMAIN f : f[id] \in Table /\ KeysOf(f[id]) # {}
    /\ \A s \in m.segs : s.id \in DOMAIN f => SegmentOpens(f, s)

\* Every file that the manifest m names exists.
Held(m, f) == AllIds(m) \subseteq DOMAIN f

\* Losing files, or gaining some that m does not name, leaves m intact.
LEMMA IntactFrame ==
    ASSUME NEW m, NEW f, NEW g, Intact(m, f),
           \A id \in AllIds(m) \cap DOMAIN g : id \in DOMAIN f /\ g[id] = f[id]
    PROVE  Intact(m, g)
<1>1. \A s \in m.segs : s.id \in AllIds(m)
    BY DEF AllIds
<1> QED  BY <1>1 DEF Intact, SegmentOpens

\* A manifest that is intact and whose files exist can be opened.
LEMMA IntactOpens ==
    ASSUME NEW d, Intact(d.man, d.files), Held(d.man, d.files)
    PROVE  Opens(d) /\ \A id \in AllIds(d.man) : d.files[id] # Broken
BY BrokenAssumption DEF Intact, Held, Opens, AllIds

-----------------------------------------------------------------------------
(* Reading: what the tables that a manifest names hold of a key.           *)

\* The newest entry of key k below the memtable: L0, then the segments.
TableEntry(m, f, k) ==
    LET l0 == NewestEntry(L0Tables(m, f), k)
    IN  IF l0 # Absent THEN l0 ELSE AnyEntry({f[s.id] : s \in m.segs}, k)

\* Where all tables that hold a key agree on it, AnyEntry is what they hold.
LEMMA AnyEntryOf ==
    ASSUME NEW S, NEW k, NEW t \in S, t[k] # Absent,
           \A u \in S : u[k] # Absent => u[k] = t[k]
    PROVE  AnyEntry(S, k) = t[k]
<1> DEFINE hits == {u \in S : u[k] # Absent}
<1>1. t \in hits
    OBVIOUS
<1>2. AnyEntry(S, k) = (CHOOSE u \in hits : TRUE)[k]
    BY <1>1 DEF AnyEntry
<1>3. (CHOOSE u \in hits : TRUE) \in hits
    BY <1>1
<1> QED  BY <1>2, <1>3

\* Where no table holds a key, it has no entry.
LEMMA AnyEntryNone ==
    ASSUME NEW S, NEW k, \A u \in S : u[k] = Absent
    PROVE  AnyEntry(S, k) = Absent
BY DEF AnyEntry

\* A segment's file is a table whose keys lie within the recorded bounds.
LEMMA SegmentHolds ==
    ASSUME NEW m \in Manifest, NEW f, Intact(m, f), Held(m, f), NEW s \in m.segs
    PROVE  /\ f[s.id] \in Table
           /\ s.min \in Int /\ s.max \in Int /\ s.min <= s.max
           /\ \A k \in KeysOf(f[s.id]) : k \in Int /\ s.min <= k /\ k <= s.max
<1>1. s \in Segment /\ s.id \in AllIds(m)
    BY DEF Manifest, AllIds
<1>2. f[s.id] \in Table /\ SegmentOpens(f, s) /\ s.min <= s.max
    BY <1>1 DEF Intact, Held, Valid
<1>3. s.min \in Int /\ s.max \in Int
    BY <1>1, KeysAssumption DEF Segment
<1>4. \A k \in KeysOf(f[s.id]) : k \in Int /\ s.min <= k /\ k <= s.max
    BY <1>2, TableBounds, TableKeys DEF SegmentOpens
<1> QED  BY <1>2, <1>3, <1>4

\* At most one segment holds a key, and find_segment's search finds it: a key
\* of a segment's file is found in any set of segments with that one.
LEMMA SegmentEntry ==
    ASSUME NEW m \in Manifest, NEW f, Intact(m, f), Held(m, f),
           NEW R \in SUBSET m.segs, NEW s \in R, NEW k \in KeysOf(f[s.id])
    PROVE  /\ AnyEntry({f[r.id] : r \in R}, k) = f[s.id][k]
           /\ s \in FindSegment(m, k)
           /\ \A r \in m.segs : k \in KeysOf(f[r.id]) => r = s
<1>1. \A r \in m.segs :
        /\ r.min \in Int /\ r.max \in Int /\ r.min <= r.max
        /\ \A j \in KeysOf(f[r.id]) : j \in Int /\ r.min <= j /\ j <= r.max
    BY SegmentHolds
<1>2. \A r \in m.segs : r # s => s.max < r.min \/ r.max < s.min
    BY DEF Intact, Valid
<1>3. k \in Int /\ s.min <= k /\ k <= s.max /\ k \in Keys /\ f[s.id][k] # Absent
    BY <1>1 DEF KeysOf
<1>4. \A r \in m.segs : k \in KeysOf(f[r.id]) => r = s
    BY <1>1, <1>2, <1>3
<1>5. \A r \in m.segs : r.min <= k => r.min <= s.min
    BY <1>1, <1>2, <1>3
<1>6. s \in FindSegment(m, k)
    BY <1>3, <1>5 DEF FindSegment
<1>7. \A r \in R : f[r.id][k] # Absent => r = s
    BY <1>3, <1>4 DEF KeysOf
<1>8. AnyEntry({f[r.id] : r \in R}, k) = f[s.id][k]
    <2> DEFINE S == {f[r.id] : r \in R}
    <2>1. f[s.id] \in S /\ \A u \in S : u[k] # Absent => u = f[s.id]
        BY <1>7
    <2> HIDE DEF S
    <2>2. AnyEntry(S, k) = f[s.id][k]
        BY <1>3, <2>1, AnyEntryOf
    <2> QED  BY <2>2 DEF S
<1> QED  BY <1>4, <1>6, <1>8

\* A key that no file of a set of segments holds is not found in them.
LEMMA NoSegmentEntry ==
    ASSUME NEW R, NEW f, NEW k \in Keys, \A r \in R : k \notin KeysOf(f[r.id])
    PROVE  AnyEntry({f[r.id] : r \in R}, k) = Absent
<1> DEFINE S == {f[r.id] : r \in R}
<1>1. \A u \in S : u[k] = Absent
    BY DEF KeysOf
<1> HIDE DEF S
<1>2. AnyEntry(S, k) = Absent
    BY <1>1, AnyEntryNone
<1> QED  BY <1>2 DEF S

\* get() looks at one segment, and returns what looking at all of them would.
LEMMA LookupTables ==
    ASSUME NEW m \in Manifest, NEW f, Intact(m, f), Held(m, f), NEW t, NEW k \in Keys
    PROVE  Lookup(t, m, f, k) = IF t[k] # Absent THEN t[k] ELSE TableEntry(m, f, k)
<1>1. FindSegment(m, k) \subseteq m.segs
    BY DEF FindSegment
<1>2. AnyEntry({f[r.id] : r \in FindSegment(m, k)}, k) = AnyEntry({f[r.id] : r \in m.segs}, k)
    <2>1. CASE \E s \in m.segs : k \in KeysOf(f[s.id])
        <3>1. PICK s \in m.segs : k \in KeysOf(f[s.id])
            BY <2>1
        <3>2. AnyEntry({f[r.id] : r \in m.segs}, k) = f[s.id][k] /\ s \in FindSegment(m, k)
            BY <3>1, SegmentEntry
        <3>3. AnyEntry({f[r.id] : r \in FindSegment(m, k)}, k) = f[s.id][k]
            BY <1>1, <3>1, <3>2, SegmentEntry
        <3> QED  BY <3>2, <3>3
    <2>2. CASE \A s \in m.segs : k \notin KeysOf(f[s.id])
        <3>1. AnyEntry({f[r.id] : r \in m.segs}, k) = Absent
            BY <2>2, NoSegmentEntry
        <3>2. AnyEntry({f[r.id] : r \in FindSegment(m, k)}, k) = Absent
            BY <1>1, <2>2, NoSegmentEntry
        <3> QED  BY <3>1, <3>2
    <2> QED  BY <2>1, <2>2
<1> QED  BY <1>2 DEF Lookup, TableEntry

\* What is read of the tables depends on the manifest's lists and on the files
\* it names, and on nothing else.
LEMMA TableEntryFrame ==
    ASSUME NEW m \in Manifest, NEW n, NEW f, NEW g, n.l0 = m.l0, n.segs = m.segs,
           \A id \in AllIds(m) : g[id] = f[id], NEW k
    PROVE  TableEntry(n, g, k) = TableEntry(m, f, k)
<1>1. DOMAIN m.l0 = 1 .. Len(m.l0) /\ \A i \in DOMAIN m.l0 : m.l0[i] \in Range(m.l0)
    BY RangeEquality DEF Manifest
<1>2. /\ \A i \in DOMAIN m.l0 : g[m.l0[i]] = f[m.l0[i]]
      /\ \A s \in m.segs : g[s.id] = f[s.id]
    BY <1>1 DEF AllIds
<1>3. L0Tables(n, g) = L0Tables(m, f)
    BY <1>2 DEF L0Tables
<1>4. {g[s.id] : s \in n.segs} = {f[s.id] : s \in m.segs}
    BY <1>2
<1> QED  BY <1>3, <1>4 DEF TableEntry

\* The L0 tables of an intact manifest whose files exist are tables.
LEMMA L0TablesOK ==
    ASSUME NEW m \in Manifest, NEW f, Intact(m, f), Held(m, f)
    PROVE  /\ L0Tables(m, f) \in Seq(Table)
           /\ Len(m.l0) \in Nat /\ Len(L0Tables(m, f)) = Len(m.l0)
           /\ \A i \in 1 .. Len(m.l0) :
                L0Tables(m, f)[i] = f[m.l0[i]] /\ m.l0[i] \in Range(m.l0)
<1>1. m.l0 \in Seq(Nat) /\ Len(m.l0) \in Nat /\ DOMAIN m.l0 = 1 .. Len(m.l0)
    BY LenProperties DEF Manifest
<1>2. \A i \in 1 .. Len(m.l0) : m.l0[i] \in Range(m.l0)
    BY <1>1, RangeEquality
<1>3. \A i \in 1 .. Len(m.l0) : f[m.l0[i]] \in Table
    BY <1>2 DEF Intact, Held, AllIds
<1>4. L0Tables(m, f) \in [1 .. Len(m.l0) -> Table]
    BY <1>1, <1>3 DEF L0Tables
<1> QED  BY <1>1, <1>2, <1>4 DEF L0Tables

\* A table added to L0 comes before everything that was there.
LEMMA AddedEntry ==
    ASSUME NEW m \in Manifest, NEW f, Intact(m, f), Held(m, f),
           NEW a \in Manifest, NEW g, Intact(a, g), Held(a, g),
           NEW id, a.l0 = Append(m.l0, id), a.segs = m.segs,
           \A i \in AllIds(m) : g[i] = f[i],
           NEW k \in Keys
    PROVE  TableEntry(a, g, k) =
                IF g[id][k] # Absent THEN g[id][k] ELSE TableEntry(m, f, k)
<1> DEFINE n == Len(m.l0)
           ts == L0Tables(m, f)
           us == L0Tables(a, g)
<1>1. m.l0 \in Seq(Nat) /\ n \in Nat /\ a.l0 \in Seq(Nat)
    BY LenProperties DEF Manifest
<1>2. /\ Len(a.l0) = n + 1 /\ a.l0[n + 1] = id
      /\ \A i \in 1 .. n : a.l0[i] = m.l0[i]
    BY <1>1
<1>3. /\ ts \in Seq(Table) /\ Len(ts) = n
      /\ \A i \in 1 .. n : ts[i] = f[m.l0[i]] /\ m.l0[i] \in Range(m.l0)
    BY L0TablesOK
<1>4. /\ us \in Seq(Table) /\ Len(us) = n + 1
      /\ \A i \in 1 .. n + 1 : us[i] = g[a.l0[i]]
    <2>1. /\ us \in Seq(Table) /\ Len(us) = Len(a.l0)
          /\ \A i \in 1 .. Len(a.l0) : us[i] = g[a.l0[i]]
        BY L0TablesOK
    <2> HIDE DEF us, n
    <2> QED  BY <1>2, <2>1
<1>5. us[n + 1] = g[id] /\ \A i \in 1 .. n : us[i] = ts[i]
    <2>1. \A i \in 1 .. n : g[m.l0[i]] = f[m.l0[i]]
        BY <1>3 DEF AllIds
    <2>2. n + 1 \in 1 .. n + 1 /\ \A i \in 1 .. n : i \in 1 .. n + 1
        BY <1>1
    <2> HIDE DEF us, ts, n
    <2>3. us[n + 1] = g[id]
        BY <1>2, <1>4, <2>2
    <2>4. ASSUME NEW i \in 1 .. n  PROVE us[i] = ts[i]
        <3>1. us[i] = g[a.l0[i]]
            BY <1>4, <2>2
        <3>2. ts[i] = f[m.l0[i]]
            BY <1>3
        <3> QED  BY <1>2, <2>1, <3>1, <3>2
    <2> QED  BY <2>3, <2>4
<1>6. {g[s.id] : s \in a.segs} = {f[s.id] : s \in m.segs}
    BY DEF AllIds
<1>7. /\ TableEntry(a, g, k) = IF NewestEntry(us, k) # Absent THEN NewestEntry(us, k)
                               ELSE AnyEntry({f[s.id] : s \in m.segs}, k)
      /\ TableEntry(m, f, k) = IF NewestEntry(ts, k) # Absent THEN NewestEntry(ts, k)
                               ELSE AnyEntry({f[s.id] : s \in m.segs}, k)
    BY <1>6 DEF TableEntry
<1> HIDE DEF ts, us, n
<1>8. n + 1 \in 1 .. n + 1 /\ \A i \in 1 .. n + 1 : i \in 1 .. n \/ i = n + 1
    BY <1>1
<1>9. CASE g[id][k] # Absent
    <2>1. NewestEntry(us, k) = g[id][k]
        <3>1. ~ \A i \in 1 .. n + 1 : us[i][k] = Absent
            BY <1>5, <1>8, <1>9
        <3>2. PICK i \in 1 .. n + 1 : /\ NewestEntry(us, k) = us[i][k]
                                       /\ \A j \in 1 .. n + 1 : j > i => us[j][k] = Absent
            BY <1>4, <3>1, NewestEntryOf
        <3>3. ~(n + 1 > i)
            BY <1>5, <1>8, <1>9, <3>2
        <3>4. i = n + 1
            BY <1>1, <3>3
        <3> QED  BY <1>5, <3>2, <3>4
    <2> QED  BY <1>7, <1>9, <2>1
<1>10. CASE g[id][k] = Absent
    <2>1. CASE \A i \in 1 .. n : ts[i][k] = Absent
        <3>1. \A i \in 1 .. n + 1 : us[i][k] = Absent
            BY <1>5, <1>8, <1>10, <2>1
        <3>2. NewestEntry(us, k) = Absent
            BY <1>4, <3>1, NewestEntryOf
        <3>3. NewestEntry(ts, k) = Absent
            BY <1>3, <2>1, NewestEntryOf
        <3> QED  BY <1>7, <1>10, <3>2, <3>3
    <2>2. CASE \E i \in 1 .. n : ts[i][k] # Absent
        <3>1. PICK i \in 1 .. n : /\ NewestEntry(ts, k) = ts[i][k] /\ ts[i][k] # Absent
                                   /\ \A j \in 1 .. n : j > i => ts[j][k] = Absent
            BY <1>3, <2>2, NewestEntryOf
        <3>2. i \in 1 .. n + 1 /\ us[i][k] # Absent
            BY <1>1, <1>5, <3>1
        <3>3. PICK h \in 1 .. n + 1 : /\ NewestEntry(us, k) = us[h][k] /\ us[h][k] # Absent
                                       /\ \A j \in 1 .. n + 1 : j > h => us[j][k] = Absent
            BY <1>4, <3>2, NewestEntryOf
        <3>4. h \in 1 .. n /\ us[h] = ts[h]
            BY <1>5, <1>8, <1>10, <3>3
        <3>5. ~(h > i) /\ ~(i > h)
            BY <3>1, <3>2, <3>3, <3>4
        <3>6. h = i
            BY <1>1, <3>4, <3>5
        <3> QED  BY <1>7, <1>10, <3>1, <3>3, <3>4, <3>6
    <2> QED  BY <2>1, <2>2
<1> QED  BY <1>9, <1>10

-----------------------------------------------------------------------------
(* The inductive invariant.                                                *)

\* No gc() is called in a process where saving the manifest may have failed.
Careful == "save" \in Faults => "gc" \notin Calls

\* What a MANIFEST beside the files f must be.
Good(m, f) == Intact(m, f) /\ (Careful => Held(m, f))

\* Every MANIFEST a crash may find is intact with respect to the files that
\* exist beside it, and if gc() is called with care they all exist.
DirectoryInv == \A d \in Images : Good(d.man, d.files)

\* What gc() relies on: the manifest in memory names every file that MANIFEST
\* names, except while flush() has yet to save it.
SavedInv ==
    Careful /\ "gc" \in Calls /\ Running /\ pc # "save"
        => AllIds(disk.man) \subseteq AllIds(man)

\* The manifest in memory is intact, its files exist, and it hands out ids
\* that the MANIFEST on disk does not name.
LiveInv ==
    Running =>
        /\ Intact(man, disk.files)
        /\ Held(man, disk.files)
        /\ disk.man.next <= man.next

\* What the steps of flush() and compact() rely on: the memtable to write and
\* the L0 list to merge are not empty, and no file to delete is still named.
StepInv ==
    /\ pc = "build" => KeysOf(mem) # {}
    /\ pc = "plan" => man.l0 # <<>>
    /\ pc = "delete" => disk.man = man /\ job.old \cap AllIds(man) = {}

\* While segments are written: the manifest that the merge will end with is
\* intact already, the chunks still to write are in order and lie between its
\* segments, and the files to be replaced are none of its files.
WriteInv ==
    pc = "write" =>
        /\ Intact(Compacted, disk.files)
        /\ Held(Compacted, disk.files)
        /\ ChunksOrdered(job.chunks)
        /\ \A s \in Compacted.segs, i \in 1 .. Len(job.chunks) :
              s.max < MinKey(job.chunks[i]) \/ MaxKey(job.chunks[i]) < s.min
        /\ job.old \cap AllIds(Compacted) = {}
        /\ \A id \in job.old : id < man.next

IInv == TypeOK /\ DirectoryInv /\ SavedInv /\ LiveInv /\ StepInv /\ WriteInv

-----------------------------------------------------------------------------
(* Steps that leave the manifest and the table files alone.                *)

\* The empty job has the type of a job.
LEMMA NoJobOK ==
    /\ NoJob.chunks \in Seq(Table) /\ NoJob.new \in SUBSET Segment
    /\ NoJob.keep \in SUBSET Segment /\ NoJob.old \in SUBSET Nat
    /\ NoJob = [chunks |-> NoJob.chunks, new |-> NoJob.new, keep |-> NoJob.keep,
                old |-> NoJob.old]
BY DEF NoJob

\* The manifest of a new directory is a manifest.
LEMMA NewManifestOK == NewManifest \in Manifest
BY DEF NewManifest, Manifest

\* A step to a pc outside compact() that at most writes to the log or goes
\* back to an earlier state of the directory preserves the invariant.
LEMMA Frame ==
    ASSUME IInv, ControlOK', HandleOK', JobOK',
           \A d \in Images' :
                IsDisk(d) /\ \E e \in Images : d.man = e.man /\ d.files = e.files,
           Running' => /\ Running
                       /\ man' = man
                       /\ disk'.man = disk.man /\ disk'.files = disk.files,
           Running' /\ pc = "save" => "save" \in Faults,
           pc' \notin {"write", "delete"},
           pc' = "build" => KeysOf(mem') # {},
           pc' = "plan" => man'.l0 # <<>>
    PROVE  IInv'
<1>1. TypeOK'
    BY DEF TypeOK
<1>2. DirectoryInv'
    BY DEF IInv, DirectoryInv
<1>3. LiveInv'
    BY DEF IInv, LiveInv
<1>4. StepInv' /\ WriteInv'
    BY DEF StepInv, WriteInv
<1>5. SavedInv'
    BY DEF IInv, SavedInv, Careful
<1> QED  BY <1>1, <1>2, <1>3, <1>4, <1>5 DEF IInv

\* The state of a database that is not open.
LEMMA ProcessEndsOK ==
    ASSUME ProcessEnds, nCalls' \in 0 .. MaxCalls, nCrashes' \in 0 .. MaxCrashes
    PROVE  ControlOK' /\ HandleOK' /\ JobOK' /\ ~Running'
BY EmptyTableOK, NewManifestOK, NoJobOK
   DEF ProcessEnds, ControlOK, HandleOK, JobOK, NoTx, Running

\* Appending to the log changes nothing else, and no image of older.
LEMMA LoggedOK ==
    ASSUME IInv, NEW records \in Seq(Record), disk' = Logged(records), older' = older
    PROVE  /\ \A d \in Images' :
                IsDisk(d) /\ \E e \in Images : d.man = e.man /\ d.files = e.files
           /\ disk'.man = disk.man /\ disk'.files = disk.files
<1>1. IsDisk(disk) /\ \A d \in Images : IsDisk(d)
    BY DEF IInv, TypeOK, Images
<1>2. disk.wal \in Seq(Record) /\ disk.synced \in 0 .. Len(disk.wal)
    BY <1>1 DEF IsDisk
<1>3. disk.wal \o records \in Seq(Record) /\ disk.synced \in 0 .. Len(disk.wal \o records)
    BY <1>2, ConcatProperties, LenProperties
<1>4. IsDisk(disk') /\ disk'.man = disk.man /\ disk'.files = disk.files
    BY <1>1, <1>3 DEF Logged, IsDisk
<1> QED  BY <1>1, <1>4 DEF Images

-----------------------------------------------------------------------------
(* Writes and transactions.                                                *)

\* flush_if_over_limit goes to flush() only with a record to write.
LEMMA FlushIfOverLimitOK ==
    ASSUME FlushIfOverLimit
    PROVE  /\ pc' \in {"idle", "build"} /\ cont' = "flush"
           /\ pc' = "build" => KeysOf(mem') # {}
<1>1. Size(mem') \in Nat /\ (KeysOf(mem') # {} <=> Size(mem') >= 1)
    BY TableKeys
<1> QED  BY <1>1, LimitAssumption DEF FlushIfOverLimit, Goto

\* put() and delete() preserve the invariant.
LEMMA PutStep ==
    ASSUME IInv, NEW k \in Keys, NEW e \in Entry, Put(k, e)
    PROVE  IInv'
<1>1. <<PutRec(k, e)>> \in Seq(Record)
    BY RecordsOK
<1>2. disk' = Logged(<<PutRec(k, e)>>) /\ older' = older
    BY DEF Put
<1>3. mem' \in Table
    BY DEF IInv, TypeOK, HandleOK, Put, Table
<1>4. ControlOK' /\ HandleOK' /\ JobOK'
    BY <1>3, FlushIfOverLimitOK, LimitAssumption
       DEF IInv, TypeOK, ControlOK, HandleOK, JobOK, Put, CountCall
<1>5. /\ Running /\ man' = man /\ pc # "save"
      /\ pc' \notin {"write", "delete", "plan"}
      /\ pc' = "build" => KeysOf(mem') # {}
    BY FlushIfOverLimitOK DEF Put, Running
<1> QED  BY <1>1, <1>2, <1>4, <1>5, LoggedOK, Frame

\* A failed append preserves the invariant.
LEMMA PutFailsStep ==
    ASSUME IInv, PutFails
    PROVE  IInv'
<1>1. <<Torn>> \in Seq(Record) /\ disk' = Logged(<<Torn>>) /\ older' = older
    BY RecordsOK DEF PutFails
<1>2. ControlOK' /\ HandleOK' /\ JobOK'
    BY LimitAssumption
       DEF IInv, TypeOK, ControlOK, HandleOK, JobOK, PutFails, CountCall, local
<1>3. Running /\ man' = man /\ pc # "save" /\ pc' = "idle"
    BY DEF PutFails, local, Running
<1> QED  BY <1>1, <1>2, <1>3, LoggedOK, Frame
\* A step that leaves the directory alone has nothing to show about it.
LEMMA SameDirectory ==
    ASSUME IInv, UNCHANGED <<disk, older>>
    PROVE  /\ \A d \in Images' :
                IsDisk(d) /\ \E e \in Images : d.man = e.man /\ d.files = e.files
           /\ disk'.man = disk.man /\ disk'.files = disk.files
BY DEF IInv, TypeOK, Images

\* What is left of the block of a commit that failed part way is a log too.
LEMMA LogBlockOK ==
    ASSUME IInv, NEW t \in [id : Nat, batch : Table], LogBlock(t)
    PROVE  /\ \A d \in Images' :
                IsDisk(d) /\ \E e \in Images : d.man = e.man /\ d.files = e.files
           /\ disk'.man = disk.man /\ disk'.files = disk.files
           /\ pc' \in {"commit", "failed"} /\ cont' = "flush" /\ tx' = t
<1>1. TxRecords(t.id, t.batch) \in Seq(Record) /\ Len(TxRecords(t.id, t.batch)) = Size(t.batch) + 2
    BY TxRecordsOK
<1>2. older' = older /\ tx' = t
    BY DEF LogBlock
<1>3. CASE disk' = Logged(TxRecords(t.id, t.batch)) /\ Goto("commit", "flush")
    BY <1>1, <1>2, <1>3, LoggedOK DEF Goto
<1>4. CASE \E n \in 0 .. Size(t.batch) + 1 :
             /\ disk' = Logged(Append(SubSeq(TxRecords(t.id, t.batch), 1, n), Torn))
             /\ Goto("failed", "flush")
    <2>1. PICK n \in 0 .. Size(t.batch) + 1 :
             /\ disk' = Logged(Append(SubSeq(TxRecords(t.id, t.batch), 1, n), Torn))
             /\ Goto("failed", "flush")
        BY <1>4
    <2>2. Size(t.batch) \in Nat
        BY TableKeys
    <2>3. \A i \in 1 .. n : TxRecords(t.id, t.batch)[i] \in Record
        BY <1>1, <2>2, ElementOfSeq
    <2>4. SubSeq(TxRecords(t.id, t.batch), 1, n) \in Seq(Record)
        BY <2>2, <2>3, SubSeqProperties
    <2>5. Append(SubSeq(TxRecords(t.id, t.batch), 1, n), Torn) \in Seq(Record)
        BY <2>4, RecordsOK, AppendProperties
    <2> QED  BY <1>2, <2>1, <2>5, LoggedOK DEF Goto
<1> QED  BY <1>3, <1>4 DEF LogBlock

\* Logging a transaction's block preserves the invariant.
LEMMA StartCommitStep ==
    ASSUME IInv, NEW b \in Batches, StartCommit(b)
    PROVE  IInv'
<1> DEFINE t == [id |-> nextTx, batch |-> b]
<1>1. t \in [id : Nat, batch : Table] /\ LogBlock(t)
    BY BatchesAssumption DEF IInv, TypeOK, HandleOK, StartCommit
<1> HIDE DEF t
<1>2. pc' \in {"commit", "failed"} /\ cont' = "flush" /\ tx' = t
    BY <1>1, LogBlockOK
<1>3. ControlOK' /\ HandleOK' /\ JobOK'
    BY <1>1, <1>2, LimitAssumption
       DEF IInv, TypeOK, ControlOK, HandleOK, JobOK, StartCommit, LogBlock, CountCall
<1>4. Running /\ man' = man /\ pc # "save"
    BY <1>1 DEF StartCommit, LogBlock, Running
<1> QED  BY <1>1, <1>2, <1>3, <1>4, LogBlockOK, Frame

\* A second commit() preserves the invariant.
LEMMA RetryCommitStep ==
    ASSUME IInv, RetryCommit
    PROVE  IInv'
<1>1. tx \in [id : Nat, batch : Table] /\ LogBlock(tx)
    BY DEF IInv, TypeOK, HandleOK, RetryCommit
<1>2. pc' \in {"commit", "failed"} /\ cont' = "flush" /\ tx' = tx
    BY <1>1, LogBlockOK
<1>3. ControlOK' /\ HandleOK' /\ JobOK'
    BY <1>1, <1>2, LimitAssumption
       DEF IInv, TypeOK, ControlOK, HandleOK, JobOK, RetryCommit, LogBlock, CountCall
<1>4. Running /\ man' = man /\ pc # "save"
    BY <1>1 DEF RetryCommit, LogBlock, Running
<1> QED  BY <1>1, <1>2, <1>3, <1>4, LogBlockOK, Frame

\* An fsync of the log settles what an earlier state of the directory held.
LEMMA SyncedOK ==
    ASSUME IInv, disk' = [disk EXCEPT !.synced = Len(disk.wal)], older' = {}
    PROVE  /\ \A d \in Images' :
                IsDisk(d) /\ \E e \in Images : d.man = e.man /\ d.files = e.files
           /\ disk'.man = disk.man /\ disk'.files = disk.files
<1>1. IsDisk(disk)
    BY DEF IInv, TypeOK, Images
<1>2. Len(disk.wal) \in Nat
    BY <1>1, LenProperties DEF IsDisk
<1>3. IsDisk(disk') /\ disk'.man = disk.man /\ disk'.files = disk.files
    BY <1>1, <1>2 DEF IsDisk
<1> QED  BY <1>3 DEF Images

\* The fsync of commit() and the update of the memtable preserve it.
LEMMA SyncCommitStep ==
    ASSUME IInv, SyncCommit
    PROVE  IInv'
<1>1. disk' = [disk EXCEPT !.synced = Len(disk.wal)] /\ older' = {}
    BY DEF SyncCommit
<1>2. mem' \in Table
    BY DEF IInv, TypeOK, HandleOK, SyncCommit, Over, Table
<1>3. NoTx \in [id : Nat, batch : Table]
    BY EmptyTableOK DEF NoTx
<1>4. ControlOK' /\ HandleOK' /\ JobOK'
    BY <1>2, <1>3, FlushIfOverLimitOK
       DEF IInv, TypeOK, ControlOK, HandleOK, JobOK, SyncCommit, counters
<1>5. /\ Running /\ man' = man /\ pc # "save"
      /\ pc' \notin {"write", "delete", "plan"}
      /\ pc' = "build" => KeysOf(mem') # {}
    BY FlushIfOverLimitOK DEF SyncCommit, Running
<1> QED  BY <1>1, <1>4, <1>5, SyncedOK, Frame

\* A failed fsync in commit() preserves the invariant.
LEMMA SyncCommitFailsStep ==
    ASSUME IInv, SyncCommitFails
    PROVE  IInv'
<1>1. ControlOK' /\ HandleOK' /\ JobOK'
    BY DEF IInv, TypeOK, ControlOK, HandleOK, JobOK, SyncCommitFails, Goto, local, counters
<1>2. Running /\ man' = man /\ pc # "save" /\ pc' = "failed" /\ UNCHANGED <<disk, older>>
    BY DEF SyncCommitFails, Goto, local, Running
<1> QED  BY <1>1, <1>2, SameDirectory, Frame

\* abort() preserves the invariant.
LEMMA AbortStep ==
    ASSUME IInv, Abort
    PROVE  IInv'
<1>1. NoTx \in [id : Nat, batch : Table] /\ tx.id \in Nat
    BY EmptyTableOK DEF NoTx, IInv, TypeOK, HandleOK
<1>2. ControlOK' /\ HandleOK' /\ JobOK'
    BY <1>1 DEF IInv, TypeOK, ControlOK, HandleOK, JobOK, Abort, Goto, counters
<1>3. Running /\ man' = man /\ pc # "save" /\ pc' = "idle" /\ UNCHANGED <<disk, older>>
    BY DEF Abort, Goto, Running
<1> QED  BY <1>2, <1>3, SameDirectory, Frame
-----------------------------------------------------------------------------
(* Calls, failures and returns that change nothing but the control.        *)

\* flush() returns to the caller, to compact_full(), or to the fsync of the log.
LEMMA AfterFlushOK ==
    ASSUME NEW c \in {"flush", "full", "close", "drop"}
    PROVE  AfterFlush(c) \in {"idle", "full", "sync"}
BY DEF AfterFlush

\* A failed file operation ends the call; in Drop the fsync follows.
LEMMA FailsOK ==
    ASSUME NEW fault, Fails(fault), ControlOK
    PROVE  pc' \in {"idle", "sync"} /\ cont' \in {"flush", "full", "close", "drop"}
BY DEF Fails, Goto, ControlOK

\* A step that only ends a call, or goes on with the next part of it,
\* preserves the invariant, unless it skips the save that flush() owes.
LEMMA QuietStep ==
    ASSUME IInv, Running, UNCHANGED <<local, disk, older, counters>>,
           pc = "save" => "save" \in Faults,
           pc' \in {"idle", "sync", "full", "closing"},
           cont' \in {"flush", "full", "close", "drop"}
    PROVE  IInv'
<1>1. ControlOK' /\ HandleOK' /\ JobOK'
    BY DEF IInv, TypeOK, ControlOK, HandleOK, JobOK, local, counters
<1>2. man' = man
    BY DEF local
<1> QED  BY <1>1, <1>2, SameDirectory, Frame

\* The failures that leave the directory alone preserve the invariant.
LEMMA FailureSteps ==
    ASSUME IInv, SaveL0Fails \/ TruncateFails \/ PlanFails \/ SaveAndCloseFails
    PROVE  IInv'
<1>1. ControlOK
    BY DEF IInv, TypeOK
<1> QED
    BY <1>1, FailsOK, QuietStep
       DEF SaveL0Fails, TruncateFails, PlanFails, SaveAndCloseFails, Running, Fails

\* The start of flush(), compact_full(), close() and Drop preserves it.
LEMMA CallStep ==
    ASSUME IInv, NEW c \in Calls, Call(c)
    PROVE  IInv'
<1>1. c \in {"flush", "full", "close", "drop"}
    BY CallsAssumption DEF Call
<1>2. pc' \in {"idle", "full", "sync"} \/ (pc' = "build" /\ mem # EmptyTable)
    BY <1>1, AfterFlushOK DEF Call, Goto
<1>3. cont' \in {"flush", "full", "close", "drop"}
    BY <1>1 DEF Call, Goto
<1>4. ControlOK' /\ HandleOK' /\ JobOK'
    BY <1>2, <1>3, LimitAssumption
       DEF IInv, TypeOK, ControlOK, HandleOK, JobOK, Call, CountCall, local
<1>5. Running /\ man' = man /\ pc # "save" /\ mem' = mem /\ UNCHANGED <<disk, older>>
    BY DEF Call, local, Running
<1>6. pc' = "build" => KeysOf(mem') # {}
    <2>1. mem \in Table
        BY DEF IInv, TypeOK, HandleOK
    <2> QED  BY <1>2, <1>5, <2>1, NonEmptyTable
<1> QED  BY <1>2, <1>4, <1>5, <1>6, SameDirectory, Frame

\* A second close() preserves the invariant.
LEMMA CloseAgainStep ==
    ASSUME IInv, CloseAgain
    PROVE  IInv'
<1>1. ControlOK' /\ HandleOK' /\ JobOK'
    BY LimitAssumption
       DEF IInv, TypeOK, ControlOK, HandleOK, JobOK, CloseAgain, CountCall, local
<1>2. Running /\ man' = man /\ pc # "save" /\ pc' = "idle" /\ UNCHANGED <<disk, older>>
    BY DEF CloseAgain, local, Running
<1> QED  BY <1>1, <1>2, SameDirectory, Frame

\* After flush() has truncated the log: compact() if L0 is long enough.
LEMMA TruncateStep ==
    ASSUME IInv, Truncate
    PROVE  IInv'
<1>1. IsDisk(disk) /\ \A d \in Images : IsDisk(d)
    BY DEF IInv, TypeOK, Images
<1>2. <<>> \in Seq(Record) /\ 0 \in 0 .. Len(<<>>)
    BY EmptySeq
<1>3. IsDisk(disk') /\ disk'.man = disk.man /\ disk'.files = disk.files
    BY <1>1, <1>2, WithLogOK DEF Truncate
<1>4. \A d \in Images' : IsDisk(d) /\ \E e \in Images : d.man = e.man /\ d.files = e.files
    BY <1>1, <1>3 DEF Truncate, Images, Lagging
<1>5. pc' \in {"idle", "full", "sync", "plan"} /\ cont' \in {"flush", "full", "close", "drop"}
    BY AfterFlushOK DEF IInv, TypeOK, ControlOK, Truncate, FlushReturns, Goto
<1>6. pc' = "plan" => man.l0 # <<>>
    <2>1. man.l0 \in Seq(Nat)
        BY DEF IInv, TypeOK, HandleOK, Manifest
    <2>2. Len(man.l0) >= L0Threshold => man.l0 # <<>>
        BY <2>1, EmptySeq, LimitAssumption
    <2>3. pc' = "plan" => Len(man.l0) >= L0Threshold
        BY AfterFlushOK DEF IInv, TypeOK, ControlOK, Truncate, FlushReturns, Goto
    <2> QED  BY <2>2, <2>3
<1>7. ControlOK' /\ HandleOK' /\ JobOK'
    BY <1>5, EmptyTableOK
       DEF IInv, TypeOK, ControlOK, HandleOK, JobOK, Truncate, counters
<1>8. Running /\ man' = man /\ pc # "save"
    BY DEF Truncate, Running
<1> QED  BY <1>3, <1>4, <1>5, <1>6, <1>7, <1>8, Frame

-----------------------------------------------------------------------------
(* The end of the process.                                                 *)

\* The end of the process preserves the invariant if what is left is the
\* manifest and the files of a state that a crash could already have left.
LEMMA DownFrame ==
    ASSUME IInv, ProcessEnds, nCalls' \in 0 .. MaxCalls, nCrashes' \in 0 .. MaxCrashes,
           \A d \in Images' :
                IsDisk(d) /\ \E e \in Images : d.man = e.man /\ d.files = e.files
    PROVE  IInv'
<1>1. ControlOK' /\ HandleOK' /\ JobOK' /\ ~Running'
    BY ProcessEndsOK
<1>2. pc' = "down"
    BY DEF ProcessEnds
<1> QED  BY <1>1, <1>2, Frame

\* Drop after close() preserves the invariant.
LEMMA DropClosedStep ==
    ASSUME IInv, DropClosed
    PROVE  IInv'
<1>1. nCalls' \in 0 .. MaxCalls /\ nCrashes' \in 0 .. MaxCrashes
    BY LimitAssumption DEF IInv, TypeOK, ControlOK, DropClosed, CountCall
<1>2. ProcessEnds /\ UNCHANGED <<disk, older>>
    BY DEF DropClosed
<1> QED  BY <1>1, <1>2, SameDirectory, DownFrame

\* The fsync of the log in close() and Drop preserves the invariant.
LEMMA SyncLogStep ==
    ASSUME IInv, SyncLog
    PROVE  IInv'
<1>1. disk' = [disk EXCEPT !.synced = Len(disk.wal)] /\ older' = {}
    BY DEF SyncLog
<1>2. CASE cont = "close"
    <2>1. ControlOK' /\ HandleOK' /\ JobOK'
        BY <1>2 DEF IInv, TypeOK, ControlOK, HandleOK, JobOK, SyncLog, Goto, local, counters
    <2>2. Running /\ man' = man /\ pc # "save" /\ pc' = "closing"
        BY <1>2 DEF SyncLog, Goto, local, Running
    <2> QED  BY <1>1, <2>1, <2>2, SyncedOK, Frame
<1>3. CASE cont # "close"
    <2>1. nCalls' \in 0 .. MaxCalls /\ nCrashes' \in 0 .. MaxCrashes
        BY DEF IInv, TypeOK, ControlOK, SyncLog, counters
    <2>2. ProcessEnds
        BY <1>3 DEF SyncLog
    <2> QED  BY <1>1, <2>1, <2>2, SyncedOK, DownFrame
<1> QED  BY <1>2, <1>3

\* A failed fsync of the log in close() and Drop preserves it.
LEMMA SyncLogFailsStep ==
    ASSUME IInv, SyncLogFails
    PROVE  IInv'
<1>1. CASE cont = "close"
    <2>1. pc' = "idle" /\ cont' = "flush" /\ UNCHANGED <<local, disk, older, counters>>
        BY <1>1 DEF SyncLogFails, Goto
    <2> QED  BY <2>1, QuietStep DEF SyncLogFails, Running
<1>2. CASE cont # "close"
    <2>1. nCalls' \in 0 .. MaxCalls /\ nCrashes' \in 0 .. MaxCrashes
        BY DEF IInv, TypeOK, ControlOK, SyncLogFails, counters
    <2>2. ProcessEnds /\ UNCHANGED <<disk, older>>
        BY <1>2 DEF SyncLogFails
    <2> QED  BY <2>1, <2>2, SameDirectory, DownFrame
<1> QED  BY <1>1, <1>2

\* What a crash leaves of the log is a log, and no shorter than what it cuts to.
LEMMA CutLogsOK ==
    ASSUME NEW d, IsDisk(d), NEW n \in d.synced .. Len(d.wal), NEW log \in CutLogs(d, n)
    PROVE  log \in Seq(Record) /\ Len(log) \in Nat /\ d.synced <= Len(log)
<1>1. d.wal \in Seq(Record) /\ d.synced \in Nat /\ Len(d.wal) \in Nat /\ n \in Nat
    BY LenProperties DEF IsDisk
<1>2. \A i \in 1 .. n : d.wal[i] \in Record
    BY <1>1, ElementOfSeq
<1>3. SubSeq(d.wal, 1, n) \in Seq(Record) /\ Len(SubSeq(d.wal, 1, n)) = n
    BY <1>1, <1>2, SubSeqProperties
<1>4. /\ Append(SubSeq(d.wal, 1, n), Torn) \in Seq(Record)
      /\ Len(Append(SubSeq(d.wal, 1, n), Torn)) = n + 1
    BY <1>3, RecordsOK, AppendProperties
<1>5. log = SubSeq(d.wal, 1, n) \/ log = Append(SubSeq(d.wal, 1, n), Torn)
    BY DEF CutLogs
<1> QED  BY <1>1, <1>3, <1>4, <1>5

\* The end of the process without Drop preserves the invariant.
LEMMA KillStep ==
    ASSUME IInv, Kill
    PROVE  IInv'
<1>1. IsDisk(disk) /\ \A d \in Images : IsDisk(d)
    BY DEF IInv, TypeOK, Images
<1>2. PICK n \in disk.synced .. Len(disk.wal) : \E log \in CutLogs(disk, n) :
        disk' = [disk EXCEPT !.wal = log]
    BY DEF Kill
<1>3. PICK log \in CutLogs(disk, n) : disk' = [disk EXCEPT !.wal = log]
    BY <1>2
<1>4. log \in Seq(Record) /\ disk.synced \in 0 .. Len(log)
    BY <1>1, CutLogsOK DEF IsDisk
<1>5. IsDisk(disk') /\ disk'.man = disk.man /\ disk'.files = disk.files
    BY <1>1, <1>3, <1>4 DEF IsDisk
<1>6. \A d \in Images' : IsDisk(d) /\ \E e \in Images : d.man = e.man /\ d.files = e.files
    BY <1>1, <1>5 DEF Kill, Images
<1>7. nCalls' \in 0 .. MaxCalls /\ nCrashes' \in 0 .. MaxCrashes /\ ProcessEnds
    BY LimitAssumption DEF IInv, TypeOK, ControlOK, Kill, CountCrash
<1> QED  BY <1>6, <1>7, DownFrame

\* A power loss preserves the invariant.
LEMMA LosePowerStep ==
    ASSUME IInv, LosePower
    PROVE  IInv'
<1>1. \A d \in Images : IsDisk(d)
    BY DEF IInv, TypeOK
<1>2. PICK d \in Images : \E n \in d.synced .. Len(d.wal) : \E log \in CutLogs(d, n) :
        disk' = WithLog(d, log, Len(log))
    BY DEF LosePower
<1>3. PICK n \in d.synced .. Len(d.wal) : \E log \in CutLogs(d, n) :
        disk' = WithLog(d, log, Len(log))
    BY <1>2
<1>4. PICK log \in CutLogs(d, n) : disk' = WithLog(d, log, Len(log))
    BY <1>3
<1>5. IsDisk(d) /\ log \in Seq(Record) /\ Len(log) \in 0 .. Len(log)
    BY <1>1, CutLogsOK
<1>6. IsDisk(disk') /\ disk'.man = d.man /\ disk'.files = d.files
    BY <1>4, <1>5, WithLogOK
<1>7. \A x \in Images' : IsDisk(x) /\ \E e \in Images : x.man = e.man /\ x.files = e.files
    BY <1>6 DEF LosePower, Images
<1>8. nCalls' \in 0 .. MaxCalls /\ nCrashes' \in 0 .. MaxCrashes /\ ProcessEnds
    BY LimitAssumption DEF IInv, TypeOK, ControlOK, LosePower, CountCrash
<1> QED  BY <1>7, <1>8, DownFrame
-----------------------------------------------------------------------------
(* A new table file.                                                       *)

\* The fields of a manifest, and what taking an id does to them.
LEMMA ManifestFacts ==
    ASSUME NEW m \in Manifest
    PROVE  /\ m.next \in Nat /\ m.l0 \in Seq(Nat) /\ m.segs \in SUBSET Segment
           /\ AllIds(m) \subseteq Nat
           /\ Range(m.l0) = {m.l0[i] : i \in 1 .. Len(m.l0)} /\ DOMAIN m.l0 = 1 .. Len(m.l0)
           /\ TakeId(m) \in Manifest
           /\ TakeId(m).next = m.next + 1 /\ TakeId(m).l0 = m.l0 /\ TakeId(m).segs = m.segs
<1>1. m.next \in Nat /\ m.l0 \in Seq(Nat) /\ m.segs \in SUBSET Segment
    BY DEF Manifest
<1>2. Range(m.l0) \subseteq Nat
    BY <1>1, RangeOfSeq
<1>3. AllIds(m) \subseteq Nat
    BY <1>1, <1>2 DEF AllIds, Segment
<1>4. Range(m.l0) = {m.l0[i] : i \in 1 .. Len(m.l0)} /\ DOMAIN m.l0 = 1 .. Len(m.l0)
    BY <1>1, RangeEquality, LenProperties
<1>5. /\ TakeId(m) \in Manifest
      /\ TakeId(m).next = m.next + 1 /\ TakeId(m).l0 = m.l0 /\ TakeId(m).segs = m.segs
    BY <1>1 DEF TakeId, Manifest
<1> QED  BY <1>1, <1>3, <1>4, <1>5

\* Taking an id leaves a manifest intact.
LEMMA TakeIdIntact ==
    ASSUME NEW m \in Manifest, NEW f, Intact(m, f)
    PROVE  /\ Intact(TakeId(m), f)
           /\ AllIds(TakeId(m)) = AllIds(m)
           /\ m.next \notin AllIds(m)
<1>1. /\ TakeId(m).l0 = m.l0 /\ TakeId(m).segs = m.segs /\ TakeId(m).next = m.next + 1
      /\ m.next \in Nat /\ AllIds(m) \subseteq Nat
    BY ManifestFacts
<1>2. AllIds(TakeId(m)) = AllIds(m) /\ (Valid(m) => Valid(TakeId(m)))
    BY <1>1 DEF AllIds, Valid
<1>3. \A id \in AllIds(m) : id < m.next
    BY DEF Intact
<1> HIDE DEF TakeId
<1> QED  BY <1>1, <1>2, <1>3 DEF Intact

\* Writing the file of a fresh id disturbs no manifest, in memory or on disk.
LEMMA FreshFile ==
    ASSUME IInv, Running, NEW t \in Table \cup {Broken},
           disk' = WithFile(disk, man.next, t), older' \subseteq Images
    PROVE  /\ \A d \in Images' : IsDisk(d) /\ Good(d.man, d.files)
           /\ disk'.man = disk.man
           /\ DOMAIN disk'.files = DOMAIN disk.files \cup {man.next}
           /\ disk'.files[man.next] = t
           /\ \A i \in DOMAIN disk.files : i # man.next => disk'.files[i] = disk.files[i]
           /\ Intact(man, disk'.files) /\ Held(man, disk'.files)
<1>1. /\ \A d \in Images : IsDisk(d) /\ Good(d.man, d.files)
      /\ disk \in Images
      /\ man \in Manifest /\ Intact(man, disk.files) /\ Held(man, disk.files)
      /\ disk.man.next <= man.next
    BY DEF IInv, TypeOK, HandleOK, DirectoryInv, LiveInv, Images
<1>2. man.next \in Nat /\ disk.man \in Manifest
    BY <1>1, ManifestFacts DEF IsDisk
<1>3. /\ IsDisk(disk') /\ disk'.man = disk.man
      /\ DOMAIN disk'.files = DOMAIN disk.files \cup {man.next}
      /\ disk'.files[man.next] = t
      /\ \A i \in DOMAIN disk.files : i # man.next => disk'.files[i] = disk.files[i]
    BY <1>1, <1>2, WithFileOK
<1>4. man.next \notin AllIds(man)
    BY <1>1, TakeIdIntact
<1>5. man.next \notin AllIds(disk.man)
    <2>1. \A id \in AllIds(disk.man) : id \in Nat /\ id < disk.man.next
        BY <1>1, <1>2, ManifestFacts DEF Intact, Good
    <2>2. disk.man.next \in Nat
        BY <1>2, ManifestFacts
    <2> QED  BY <1>1, <1>2, <2>1, <2>2
<1>6. Intact(man, disk'.files) /\ Intact(disk.man, disk'.files)
    BY <1>1, <1>3, <1>4, <1>5, IntactFrame DEF Good
<1>7. Held(man, disk'.files) /\ (Careful => Held(disk.man, disk'.files))
    BY <1>1, <1>3 DEF Held, Good
<1>8. Good(disk.man, disk'.files)
    BY <1>6, <1>7 DEF Good
<1> QED  BY <1>1, <1>3, <1>6, <1>7, <1>8 DEF Images
\* The table of a fresh id enters L0.
LEMMA AddL0OK ==
    ASSUME NEW m \in Manifest, NEW f, Intact(m, f), Held(m, f),
           NEW id \in Nat, id \notin AllIds(m), id < m.next,
           id \in DOMAIN f, f[id] \in Table, KeysOf(f[id]) # {}
    PROVE  /\ AddL0(m, id) \in Manifest
           /\ AddL0(m, id).next = m.next
           /\ AllIds(AddL0(m, id)) = AllIds(m) \cup {id}
           /\ Intact(AddL0(m, id), f) /\ Held(AddL0(m, id), f)
<1> DEFINE a == AddL0(m, id)
           n == Len(m.l0)
<1>1. /\ m.next \in Nat /\ m.l0 \in Seq(Nat) /\ m.segs \in SUBSET Segment
      /\ Range(m.l0) = {m.l0[i] : i \in 1 .. n} /\ DOMAIN m.l0 = 1 .. n
    BY ManifestFacts
<1>2. n \in Nat
    BY <1>1, LenProperties
<1>3. a \in Manifest /\ a.next = m.next /\ a.segs = m.segs /\ a.l0 = Append(m.l0, id)
    BY <1>1, AppendProperties DEF AddL0, Manifest
<1> HIDE DEF a
<1>4. /\ a.l0 \in Seq(Nat) /\ Len(a.l0) = n + 1 /\ a.l0[n + 1] = id
      /\ \A i \in 1 .. n : a.l0[i] = m.l0[i]
    BY <1>1, <1>3, AppendProperties
<1>5. DOMAIN a.l0 = 1 .. n + 1 /\ Range(a.l0) = {a.l0[i] : i \in 1 .. n + 1}
    BY <1>3, <1>4, ManifestFacts
<1>6. Range(a.l0) = Range(m.l0) \cup {id}
    <2>1. Range(a.l0) \subseteq Range(m.l0) \cup {id}
        <3> SUFFICES ASSUME NEW i \in 1 .. n + 1
                     PROVE  a.l0[i] \in Range(m.l0) \cup {id}
            BY <1>5
        <3>1. CASE i \in 1 .. n
            BY <1>1, <1>4, <3>1
        <3>2. CASE i = n + 1
            BY <1>4, <3>2
        <3> QED  BY <1>2, <3>1, <3>2
    <2>2. ASSUME NEW i \in 1 .. n  PROVE m.l0[i] \in Range(a.l0)
        BY <1>2, <1>4, <1>5
    <2>3. id \in Range(a.l0)
        BY <1>2, <1>4, <1>5
    <2> QED  BY <1>1, <2>1, <2>2, <2>3
<1>7. AllIds(a) = AllIds(m) \cup {id}
    BY <1>3, <1>6 DEF AllIds
<1>8. Valid(a)
    <2>1. Valid(m) /\ \A s \in m.segs : s.id # id
        BY DEF Intact, AllIds
    <2>2. ASSUME NEW i \in 1 .. n + 1, NEW j \in 1 .. n + 1, i # j
          PROVE  a.l0[i] # a.l0[j]
        <3>1. \A x \in 1 .. n : m.l0[x] # id
            BY <1>1 DEF AllIds
        <3>2. \A x, y \in 1 .. n : x # y => m.l0[x] # m.l0[y]
            BY <1>1, <2>1 DEF Valid
        <3>3. \A x \in 1 .. n + 1 : x \in 1 .. n \/ x = n + 1
            BY <1>2
        <3> QED  BY <1>4, <2>2, <3>1, <3>2, <3>3
    <2> QED  BY <1>3, <1>5, <1>6, <2>1, <2>2 DEF Valid
<1>9. Intact(a, f) /\ Held(a, f)
    BY <1>3, <1>7, <1>8 DEF Intact, Held
<1> QED  BY <1>3, <1>7, <1>9 DEF a

\* Writing the memtable to a new L0 file preserves the invariant.
LEMMA BuildL0Step ==
    ASSUME IInv, BuildL0
    PROVE  IInv'
<1> DEFINE m == TakeId(man)
<1>1. Running /\ disk' = WithFile(disk, man.next, mem) /\ older' \subseteq Images
    BY DEF BuildL0, Running
<1>2. mem \in Table /\ KeysOf(mem) # {} /\ man \in Manifest
    BY DEF IInv, TypeOK, HandleOK, StepInv, BuildL0
<1>3. /\ \A d \in Images' : IsDisk(d) /\ Good(d.man, d.files)
      /\ disk'.man = disk.man
      /\ man.next \in DOMAIN disk'.files /\ disk'.files[man.next] = mem
      /\ Intact(man, disk'.files) /\ Held(man, disk'.files)
    BY <1>1, <1>2, FreshFile
<1>4. /\ m \in Manifest /\ m.next = man.next + 1 /\ man.next \in Nat
      /\ Intact(m, disk'.files) /\ Held(m, disk'.files) /\ man.next \notin AllIds(m)
    BY <1>2, <1>3, ManifestFacts, TakeIdIntact DEF Held
<1> HIDE DEF m
<1>5. man' = AddL0(m, man.next)
    BY DEF BuildL0, m
<1>6. /\ man' \in Manifest /\ man'.next = man.next + 1
      /\ Intact(man', disk'.files) /\ Held(man', disk'.files)
    BY <1>2, <1>3, <1>4, <1>5, AddL0OK
<1>7. pc' = "save" /\ UNCHANGED <<mem, job, tx, nextTx, aborted, closed, counters>> /\ cont' = cont
    BY DEF BuildL0, Goto
<1>8. TypeOK'
    BY <1>3, <1>6, <1>7 DEF IInv, TypeOK, ControlOK, HandleOK, JobOK, counters
<1>9. LiveInv'
    <2>1. disk.man.next <= man.next /\ disk.man.next \in Nat
        <3>1. disk.man \in Manifest
            BY DEF IInv, TypeOK, Images, IsDisk
        <3> QED  BY <1>1, <3>1, ManifestFacts DEF IInv, LiveInv
    <2> QED  BY <1>3, <1>4, <1>6, <2>1 DEF LiveInv
<1>10. DirectoryInv' /\ SavedInv' /\ StepInv' /\ WriteInv'
    BY <1>3, <1>7 DEF DirectoryInv, SavedInv, StepInv, WriteInv
<1> QED  BY <1>8, <1>9, <1>10 DEF IInv

\* Failing to write the L0 file preserves the invariant.
LEMMA BuildL0FailsStep ==
    ASSUME IInv, BuildL0Fails
    PROVE  IInv'
<1>1. Running /\ disk' = WithFile(disk, man.next, Broken) /\ older' \subseteq Images
    BY DEF BuildL0Fails, Running, Lagging, Images
<1>2. man \in Manifest /\ man' = TakeId(man)
    BY DEF IInv, TypeOK, HandleOK, BuildL0Fails
<1>3. /\ \A d \in Images' : IsDisk(d) /\ Good(d.man, d.files)
      /\ disk'.man = disk.man
      /\ Intact(man, disk'.files) /\ Held(man, disk'.files)
    BY <1>1, FreshFile
<1>4. /\ man' \in Manifest /\ man'.next = man.next + 1 /\ man.next \in Nat
      /\ Intact(man', disk'.files) /\ Held(man', disk'.files)
    BY <1>2, <1>3, ManifestFacts, TakeIdIntact DEF Held
<1>5. /\ pc' \in {"idle", "sync"} /\ cont' \in {"flush", "full", "close", "drop"}
      /\ UNCHANGED <<mem, job, tx, nextTx, aborted, closed, counters>>
    BY FailsOK DEF IInv, TypeOK, BuildL0Fails
<1>6. TypeOK'
    BY <1>3, <1>4, <1>5 DEF IInv, TypeOK, ControlOK, HandleOK, JobOK, counters
<1>7. LiveInv'
    <2>1. disk.man.next <= man.next /\ disk.man.next \in Nat
        <3>1. disk.man \in Manifest
            BY DEF IInv, TypeOK, Images, IsDisk
        <3> QED  BY <1>1, <3>1, ManifestFacts DEF IInv, LiveInv
    <2> QED  BY <1>3, <1>4, <2>1 DEF LiveInv
<1>8. DirectoryInv' /\ StepInv' /\ WriteInv'
    BY <1>3, <1>5 DEF DirectoryInv, StepInv, WriteInv
<1>9. SavedInv'
    BY <1>1, <1>2, <1>3, TakeIdIntact DEF IInv, SavedInv, BuildL0Fails
<1> QED  BY <1>6, <1>7, <1>8, <1>9 DEF IInv
-----------------------------------------------------------------------------
(* Saving the manifest.                                                    *)

\* Saving an intact manifest leaves every image intact.
LEMMA SavedOK ==
    ASSUME IInv, NEW m \in Manifest, Intact(m, disk.files), Held(m, disk.files),
           disk' = [disk EXCEPT !.man = m], older' \subseteq Images
    PROVE  /\ \A d \in Images' : IsDisk(d) /\ Good(d.man, d.files)
           /\ disk'.man = m /\ disk'.files = disk.files
<1>1. \A d \in Images : IsDisk(d) /\ Good(d.man, d.files)
    BY DEF IInv, TypeOK, DirectoryInv
<1>2. IsDisk(disk)
    BY <1>1 DEF Images
<1>3. IsDisk(disk') /\ disk'.man = m /\ disk'.files = disk.files
    BY <1>2, WithManOK
<1> QED  BY <1>1, <1>3 DEF Images, Good

\* Saving the manifest in flush() and close() preserves the invariant.
LEMMA SaveStep ==
    ASSUME IInv, SaveL0 \/ SaveAndClose
    PROVE  IInv'
<1>1. /\ Running /\ disk' = [disk EXCEPT !.man = man] /\ older' \subseteq Images
      /\ pc' \in {"truncate", "idle"} /\ cont' \in {cont, "flush"}
      /\ UNCHANGED <<mem, man, job, tx, nextTx, aborted, counters>>
      /\ closed' \in {closed, TRUE}
    BY DEF SaveL0, SaveAndClose, Goto, Images, Running, local
<1>2. man \in Manifest /\ Intact(man, disk.files) /\ Held(man, disk.files)
    BY <1>1 DEF IInv, TypeOK, HandleOK, LiveInv
<1>3. /\ \A d \in Images' : IsDisk(d) /\ Good(d.man, d.files)
      /\ disk'.man = man /\ disk'.files = disk.files
    BY <1>1, <1>2, SavedOK
<1>4. TypeOK'
    BY <1>1, <1>3 DEF IInv, TypeOK, ControlOK, HandleOK, JobOK, counters
<1>5. LiveInv'
    BY <1>1, <1>2, <1>3, ManifestFacts DEF LiveInv
<1>6. DirectoryInv' /\ SavedInv' /\ StepInv' /\ WriteInv'
    BY <1>1, <1>3 DEF DirectoryInv, SavedInv, StepInv, WriteInv
<1> QED  BY <1>4, <1>5, <1>6 DEF IInv

\* The manifest that a finished merge leaves.
LEMMA CompactedOK ==
    ASSUME IInv, pc = "write"
    PROVE  /\ Compacted \in Manifest /\ Compacted.next = man.next
           /\ Intact(Compacted, disk.files) /\ Held(Compacted, disk.files)
           /\ disk.man.next <= man.next
           /\ job.old \cap AllIds(Compacted) = {}
<1>1. man \in Manifest /\ job.keep \in SUBSET Segment /\ job.new \in SUBSET Segment
    BY DEF IInv, TypeOK, HandleOK, JobOK
<1>2. Compacted \in Manifest /\ Compacted.next = man.next
    BY <1>1, EmptySeq DEF Compacted, Manifest
<1>3. Running
    BY DEF Running
<1> QED  BY <1>2, <1>3 DEF IInv, LiveInv, WriteInv

\* Replacing the manifest at the end of a merge preserves the invariant.
LEMMA SwapManifestStep ==
    ASSUME IInv, SwapManifest
    PROVE  IInv'
<1>1. /\ pc = "write" /\ man' = Compacted
      /\ disk' = [disk EXCEPT !.man = Compacted] /\ older' \subseteq Images
      /\ UNCHANGED <<mem, tx, nextTx, aborted, closed, counters>>
    BY DEF SwapManifest, Images
<1>2. /\ Compacted \in Manifest
      /\ Intact(Compacted, disk.files) /\ Held(Compacted, disk.files)
      /\ job.old \cap AllIds(Compacted) = {}
    BY <1>1, CompactedOK
<1>3. /\ \A d \in Images' : IsDisk(d) /\ Good(d.man, d.files)
      /\ disk'.man = Compacted /\ disk'.files = disk.files
    BY <1>1, <1>2, SavedOK
<1>4. /\ \/ pc' \in {"idle", "full", "sync"} /\ job' = NoJob
         \/ pc' = "delete" /\ job' = [NoJob EXCEPT !.old = job.old]
      /\ cont' \in {"flush", "full", "close", "drop"}
    BY AfterFlushOK DEF SwapManifest, FlushReturns, Goto, IInv, TypeOK, ControlOK
<1>5. JobOK' /\ (pc' = "delete" => job'.old = job.old)
    BY <1>4, NoJobOK DEF JobOK, NoJob, IInv, TypeOK
<1>6. TypeOK'
    BY <1>1, <1>2, <1>3, <1>4, <1>5 DEF IInv, TypeOK, ControlOK, HandleOK, counters
<1>7. LiveInv'
    BY <1>1, <1>2, <1>3, ManifestFacts DEF LiveInv
<1>8. StepInv'
    BY <1>1, <1>2, <1>3, <1>4, <1>5 DEF StepInv
<1>9. DirectoryInv' /\ SavedInv' /\ WriteInv'
    BY <1>1, <1>3, <1>4 DEF DirectoryInv, SavedInv, WriteInv
<1> QED  BY <1>6, <1>7, <1>8, <1>9 DEF IInv

\* A failed save at the end of a merge preserves the invariant.
LEMMA SwapManifestFailsStep ==
    ASSUME IInv, SwapManifestFails
    PROVE  IInv'
<1>1. /\ pc = "write" /\ man' = Compacted /\ job' = NoJob
      /\ UNCHANGED <<mem, tx, nextTx, aborted, closed, disk, older, counters>>
    BY DEF SwapManifestFails
<1>2. pc' \in {"idle", "sync"} /\ cont' \in {"flush", "full", "close", "drop"}
    BY FailsOK DEF SwapManifestFails, IInv, TypeOK
<1>3. /\ Compacted \in Manifest /\ Compacted.next = man.next
      /\ Intact(Compacted, disk.files) /\ Held(Compacted, disk.files)
      /\ disk.man.next <= man.next
    BY <1>1, CompactedOK
<1>4. JobOK'
    BY <1>1, NoJobOK DEF JobOK
<1>5. TypeOK'
    BY <1>1, <1>2, <1>3, <1>4 DEF IInv, TypeOK, ControlOK, HandleOK, Images, counters
<1>6. LiveInv'
    BY <1>1, <1>3 DEF LiveInv
<1>7. DirectoryInv' /\ SavedInv' /\ StepInv' /\ WriteInv'
    BY <1>1, <1>2
       DEF IInv, DirectoryInv, SavedInv, Careful, Images, StepInv, WriteInv,
           SwapManifestFails, Fails
<1> QED  BY <1>5, <1>6, <1>7 DEF IInv

-----------------------------------------------------------------------------
(* Removing files.                                                         *)

\* Removing files that the manifest in memory does not name.
LEMMA RemovedOK ==
    ASSUME IInv, Running, NEW ids, ids \cap AllIds(man) = {},
           Careful => ids \cap AllIds(disk.man) = {}
    PROVE  LET e == WithoutFiles(disk, ids)
           IN  /\ IsDisk(e) /\ e.man = disk.man
               /\ Good(e.man, e.files)
               /\ Intact(man, e.files) /\ Held(man, e.files)
<1> DEFINE e == WithoutFiles(disk, ids)
<1>1. /\ IsDisk(disk) /\ Good(disk.man, disk.files)
      /\ Intact(man, disk.files) /\ Held(man, disk.files)
    BY DEF IInv, TypeOK, DirectoryInv, LiveInv, Images
<1>2. /\ IsDisk(e) /\ e.man = disk.man
      /\ DOMAIN e.files = DOMAIN disk.files \ ids
      /\ \A i \in DOMAIN e.files : e.files[i] = disk.files[i]
    BY <1>1, WithoutFilesOK
<1> HIDE DEF e
<1>3. Intact(disk.man, e.files) /\ Intact(man, e.files)
    BY <1>1, <1>2, IntactFrame DEF Good
<1>4. Held(man, e.files) /\ (Careful => Held(disk.man, e.files))
    BY <1>1, <1>2 DEF Held, Good
<1>5. Good(e.man, e.files)
    BY <1>2, <1>3, <1>4 DEF Good
<1> QED  BY <1>2, <1>3, <1>4, <1>5 DEF e

\* Removing a file that a merge replaced preserves the invariant.
LEMMA DeleteOldStep ==
    ASSUME IInv, NEW id \in job.old, DeleteOld(id)
    PROVE  IInv'
<1>1. /\ pc = "delete" /\ Running
      /\ UNCHANGED <<mem, man, tx, nextTx, aborted, closed, counters>>
    BY DEF DeleteOld, Running
<1>2. disk.man = man /\ job.old \cap AllIds(man) = {} /\ {id} \cap AllIds(man) = {}
    BY <1>1 DEF IInv, StepInv
<1>3. /\ \/ disk' = WithoutFiles(disk, {id}) /\ older' = Lagging
         \/ disk' = disk /\ older' = older
      /\ older' \subseteq Images
    BY DEF DeleteOld, Lagging, Images
<1>4. /\ \A d \in Images : IsDisk(d) /\ Good(d.man, d.files)
      /\ Intact(man, disk.files) /\ Held(man, disk.files) /\ man \in Manifest
    BY <1>1 DEF IInv, TypeOK, HandleOK, DirectoryInv, LiveInv
<1>5. /\ IsDisk(disk') /\ disk'.man = disk.man /\ Good(disk'.man, disk'.files)
      /\ Intact(man, disk'.files) /\ Held(man, disk'.files)
    BY <1>1, <1>2, <1>3, <1>4, RemovedOK DEF Images
<1>6. \A d \in Images' : IsDisk(d) /\ Good(d.man, d.files)
    BY <1>3, <1>4, <1>5 DEF Images
<1>7. /\ \/ pc' \in {"idle", "full", "sync"} /\ job' = NoJob
         \/ pc' = "delete" /\ job' = [job EXCEPT !.old = @ \ {id}]
      /\ cont' \in {"flush", "full", "close", "drop"}
    BY AfterFlushOK, <1>1 DEF DeleteOld, FlushReturns, Goto, IInv, TypeOK, ControlOK
<1>8. JobOK' /\ (pc' = "delete" => job'.old \subseteq job.old)
    <2>1. CASE job' = NoJob /\ pc' # "delete"
        BY <2>1, NoJobOK DEF JobOK
    <2>2. CASE job' = [job EXCEPT !.old = @ \ {id}]
        BY <2>2 DEF IInv, TypeOK, JobOK
    <2> QED  BY <1>7, <2>1, <2>2
<1>9. TypeOK'
    BY <1>1, <1>6, <1>7, <1>8 DEF IInv, TypeOK, ControlOK, HandleOK, counters
<1>10. LiveInv'
    BY <1>1, <1>2, <1>4, <1>5, ManifestFacts DEF LiveInv
<1>11. StepInv'
    BY <1>1, <1>2, <1>5, <1>7, <1>8 DEF StepInv
<1>12. DirectoryInv' /\ SavedInv' /\ WriteInv'
    BY <1>1, <1>2, <1>5, <1>6, <1>7 DEF DirectoryInv, SavedInv, WriteInv
<1> QED  BY <1>9, <1>10, <1>11, <1>12 DEF IInv

\* gc() preserves the invariant; it needs SavedInv.
LEMMA GcStep ==
    ASSUME IInv, Gc
    PROVE  IInv'
<1>1. pc = "idle" /\ Running /\ UNCHANGED <<pc, cont, local>>
    BY DEF Gc, Running
<1>2. PICK gone \in SUBSET Orphans :
        /\ disk' = WithoutFiles(disk, gone)
        /\ older' = IF PowerLoss
                    THEN older \cup {WithoutFiles(disk, some) : some \in SUBSET gone}
                    ELSE {}
    BY DEF Gc
<1>3. \A some \in SUBSET gone :
        some \cap AllIds(man) = {} /\ (Careful => some \cap AllIds(disk.man) = {})
    BY <1>1 DEF Orphans, IInv, SavedInv, Gc
<1>4. \A some \in SUBSET gone :
        LET e == WithoutFiles(disk, some)
        IN  /\ IsDisk(e) /\ e.man = disk.man
            /\ Good(e.man, e.files)
            /\ Intact(man, e.files) /\ Held(man, e.files)
    BY <1>1, <1>3, RemovedOK
<1>5. \A d \in Images : IsDisk(d) /\ Good(d.man, d.files)
    BY DEF IInv, TypeOK, DirectoryInv
<1>6. \A d \in Images' : IsDisk(d) /\ Good(d.man, d.files)
    BY <1>2, <1>4, <1>5 DEF Images
<1>7. TypeOK'
    BY <1>1, <1>6, LimitAssumption
       DEF Gc, IInv, TypeOK, ControlOK, HandleOK, JobOK, CountCall, local
<1>8. LiveInv'
    <2>1. disk'.man = disk.man /\ Intact(man, disk'.files) /\ Held(man, disk'.files)
        BY <1>2, <1>4
    <2> QED  BY <1>1, <2>1 DEF IInv, LiveInv, local
<1>9. DirectoryInv' /\ SavedInv' /\ StepInv' /\ WriteInv'
    <2>1. disk'.man = disk.man
        BY <1>2, <1>4
    <2> QED
        BY <1>1, <1>6, <2>1 DEF IInv, DirectoryInv, SavedInv, StepInv, WriteInv, local
<1> QED  BY <1>7, <1>8, <1>9 DEF IInv

-----------------------------------------------------------------------------
(* Opening.                                                                *)

\* open() preserves the invariant.
LEMMA OpenStep ==
    ASSUME IInv, Open
    PROVE  IInv'
<1>1. UNCHANGED <<disk, older, job, tx, aborted, closed, counters>> /\ Images' = Images
    BY DEF Open, Images
<1>2. IsDisk(disk) /\ Intact(disk.man, disk.files)
    BY DEF IInv, TypeOK, DirectoryInv, Good, Images
<1>3. CASE Opens(disk)
    <2>1. /\ pc' = "idle" /\ cont' = "flush"
          /\ mem' = Replay(disk.wal) /\ man' = disk.man /\ nextTx' = MaxTxId(disk.wal) + 1
        BY <1>3 DEF Open, Goto
    <2>2. mem' \in Table /\ nextTx' \in Nat /\ man' \in Manifest
        BY <1>2, <2>1, ReplayOK, MaxTxIdOK DEF IsDisk
    <2>3. Held(man', disk'.files)
        BY <1>1, <1>3, <2>1 DEF Opens, Held, AllIds, SegmentOpens
    <2>4. TypeOK'
        BY <1>1, <2>1, <2>2 DEF IInv, TypeOK, ControlOK, HandleOK, JobOK, counters
    <2>5. LiveInv'
        BY <1>1, <1>2, <2>1, <2>2, <2>3, ManifestFacts DEF LiveInv
    <2> QED
        BY <1>1, <2>1, <2>4, <2>5 DEF IInv, DirectoryInv, SavedInv, StepInv, WriteInv
<1>4. CASE ~Opens(disk)
    <2>1. UNCHANGED <<pc, cont, mem, man, nextTx>> /\ pc = "down"
        BY <1>4 DEF Open
    <2>2. TypeOK'
        BY <1>1, <2>1 DEF IInv, TypeOK, ControlOK, HandleOK, JobOK, counters
    <2> QED
        BY <1>1, <2>1, <2>2
           DEF IInv, DirectoryInv, SavedInv, LiveInv, StepInv, WriteInv, Running
<1> QED  BY <1>3, <1>4
-----------------------------------------------------------------------------
(* Planning a merge.                                                       *)

Merged(merged) == Merge(L0Tables(man, disk.files), {disk.files[s.id] : s \in merged})

\* The tables a merge reads are tables, and a key of its result lies in an L0
\* table or in the range of a merged segment.
LEMMA MergedOK ==
    ASSUME IInv, Running, NEW merged \in SUBSET man.segs
    PROVE  /\ Merged(merged) \in Table
           /\ BatchKeys \subseteq Keys
           /\ man.l0 # <<>> => BatchKeys # {}
           /\ \A k \in KeysOf(Merged(merged)) :
                k \in BatchKeys \/ \E s \in merged : s.min <= k /\ k <= s.max
<1> DEFINE ts == L0Tables(man, disk.files)
           S == {disk.files[s.id] : s \in merged}
<1>1. man \in Manifest /\ Intact(man, disk.files) /\ Held(man, disk.files)
    BY DEF IInv, TypeOK, HandleOK, LiveInv
<1>2. /\ man.l0 \in Seq(Nat) /\ Len(man.l0) \in Nat /\ DOMAIN man.l0 = 1 .. Len(man.l0)
      /\ Range(man.l0) = {man.l0[i] : i \in 1 .. Len(man.l0)}
    BY <1>1, ManifestFacts, LenProperties
<1>3. \A id \in Range(man.l0) : disk.files[id] \in Table /\ KeysOf(disk.files[id]) # {}
    BY <1>1 DEF Intact, Held, AllIds
<1>4. \A s \in man.segs : disk.files[s.id] \in Table /\ SegmentOpens(disk.files, s)
    BY <1>1 DEF Intact, Held, AllIds
<1>5. /\ ts \in Seq(Table) /\ Len(ts) = Len(man.l0)
      /\ \A i \in 1 .. Len(man.l0) : ts[i] = disk.files[man.l0[i]]
    <2>1. ts \in [1 .. Len(man.l0) -> Table]
        BY <1>2, <1>3 DEF L0Tables
    <2> QED  BY <1>2, <2>1 DEF L0Tables
<1>6. S \in SUBSET Table
    BY <1>4
<1>7. BatchKeys \subseteq Keys
    BY DEF BatchKeys, KeysOf
<1>8. ASSUME man.l0 # <<>>  PROVE BatchKeys # {}
    <2>1. 1 \in 1 .. Len(man.l0)
        BY <1>2, <1>8, EmptySeq
    <2>2. man.l0[1] \in Range(man.l0)
        BY <1>2, <2>1
    <2> QED  BY <1>3, <2>2 DEF BatchKeys
<1>9. \A i \in 1 .. Len(ts) : KeysOf(ts[i]) \subseteq BatchKeys
    BY <1>2, <1>5 DEF BatchKeys
<1>10. ASSUME NEW s \in merged, NEW k \in KeysOf(disk.files[s.id])
       PROVE  s.min <= k /\ k <= s.max
    <2>1. s.min = MinKey(disk.files[s.id]) /\ s.max = MaxKey(disk.files[s.id])
        BY <1>4 DEF SegmentOpens
    <2> QED  BY <2>1, TableBounds
<1> HIDE DEF ts, S
<1>11. /\ Merge(ts, S) \in Table
       /\ \A k \in KeysOf(Merge(ts, S)) :
            (\E i \in 1 .. Len(ts) : k \in KeysOf(ts[i])) \/ (\E t \in S : k \in KeysOf(t))
    BY <1>5, <1>6, MergeKeys
<1>12. Merged(merged) = Merge(ts, S)
    BY DEF Merged, ts, S
<1>13. \A t \in S : \E s \in merged : t = disk.files[s.id]
    BY DEF S
<1> QED  BY <1>7, <1>8, <1>9, <1>10, <1>11, <1>12, <1>13

\* A merge whose result lies wholly on one side of every retained segment
\* starts with the invariant.
LEMMA PlanOK ==
    ASSUME IInv, pc \in {"plan", "full"}, NEW merged \in SUBSET man.segs,
           job' = Compaction(merged), pc' = "write",
           cont' \in {"flush", "full", "close", "drop"},
           UNCHANGED <<mem, man, disk, older, tx, nextTx, aborted, closed, counters>>,
           \A s \in man.segs \ merged :
                \/ \A k \in KeysOf(Merged(merged)) : s.max < k
                \/ \A k \in KeysOf(Merged(merged)) : k < s.min
    PROVE  IInv'
<1> DEFINE cs == Chunks(Merged(merged))
           old == Range(man.l0) \cup {s.id : s \in merged}
<1>1. Merged(merged) \in Table
    BY MergedOK DEF Running
<1>2. /\ cs \in Seq(Table) /\ ChunksOrdered(cs)
      /\ \A i \in 1 .. Len(cs) : KeysOf(cs[i]) \subseteq KeysOf(Merged(merged))
    BY <1>1, ChunksProper
<1> HIDE DEF cs
<1>3. job' = [chunks |-> cs, new |-> {}, keep |-> man.segs \ merged, old |-> old]
    BY DEF Compaction, Merged, cs
<1>4. man \in Manifest /\ Intact(man, disk.files) /\ Held(man, disk.files)
    BY DEF IInv, TypeOK, HandleOK, LiveInv, Running
<1>5. man.segs \in SUBSET Segment /\ old \subseteq AllIds(man) /\ AllIds(man) \subseteq Nat
    BY <1>4, ManifestFacts DEF AllIds
<1>6. JobOK'
    BY <1>2, <1>3, <1>5 DEF JobOK
<1>7. TypeOK' /\ DirectoryInv' /\ SavedInv' /\ LiveInv' /\ StepInv'
    BY <1>6
       DEF IInv, TypeOK, ControlOK, HandleOK, DirectoryInv, SavedInv, LiveInv, StepInv,
           Images, Running, counters
<1>8. Compacted' = [next |-> man.next, l0 |-> <<>>, segs |-> man.segs \ merged]
    BY <1>3 DEF Compacted
<1> DEFINE c == [next |-> man.next, l0 |-> <<>>, segs |-> man.segs \ merged]
<1>9. /\ c.next = man.next /\ c.l0 = <<>> /\ c.segs = man.segs \ merged
      /\ AllIds(c) = {s.id : s \in man.segs \ merged}
    BY DEF AllIds, Range
<1> HIDE DEF c
<1>10. /\ Valid(c) /\ AllIds(c) \subseteq AllIds(man)
       /\ old \cap AllIds(c) = {}
    <2>1. Valid(man)
        BY <1>4 DEF Intact
    <2>2. DOMAIN c.l0 = {} /\ Range(c.l0) = {}
        BY <1>9 DEF Range
    <2>3. Valid(c)
        BY <1>9, <2>1, <2>2 DEF Valid
    <2> QED  BY <1>9, <2>1, <2>3 DEF Valid, AllIds
<1>11. Intact(c, disk.files) /\ Held(c, disk.files)
    BY <1>4, <1>9, <1>10 DEF Intact, Held
<1>12. ASSUME NEW s \in c.segs, NEW i \in 1 .. Len(cs)
       PROVE  s.max < MinKey(cs[i]) \/ MaxKey(cs[i]) < s.min
    <2>1. MinKey(cs[i]) \in KeysOf(Merged(merged)) /\ MaxKey(cs[i]) \in KeysOf(Merged(merged))
        BY <1>2, TableBounds DEF ChunksOrdered
    <2> QED  BY <1>9, <2>1
<1>13. \A id \in old : id < man.next
    BY <1>4, <1>5 DEF Intact
<1>14. WriteInv'
    <2>1. job'.chunks = cs /\ job'.old = old /\ disk' = disk /\ man' = man
        BY <1>3
    <2>2. Compacted' = c
        BY <1>8 DEF c
    <2> HIDE DEF old
    <2> QED  BY <1>2, <1>10, <1>11, <1>12, <1>13, <2>1, <2>2 DEF WriteInv
<1> QED  BY <1>7, <1>14 DEF IInv

\* compact_full() starts its merge in the invariant.
LEMMA PlanFullStep ==
    ASSUME IInv, PlanFull
    PROVE  IInv'
<1>1. /\ pc = "full" /\ job' = Compaction(man.segs) /\ pc' = "write" /\ cont' = "flush"
      /\ UNCHANGED <<mem, man, disk, older, tx, nextTx, aborted, closed, counters>>
    BY DEF PlanFull, Goto
<1> QED  BY <1>1, PlanOK

\* compact(): the span of the L0 tables is contiguous, so what overlaps it and
\* what does not are separated, whatever the segments between hold.
LEMMA PlanCompactionStep ==
    ASSUME IInv, PlanCompaction
    PROVE  IInv'
<1> DEFINE merged == {s \in man.segs : Overlaps(s)}
           lo == Min(BatchKeys)
           hi == Max(BatchKeys)
<1>1. /\ pc = "plan" /\ Running /\ job' = Compaction(merged) /\ pc' = "write" /\ cont' = cont
      /\ UNCHANGED <<mem, man, disk, older, tx, nextTx, aborted, closed, counters>>
    BY DEF PlanCompaction, Goto, Running
<1>2. man.l0 # <<>> /\ man \in Manifest /\ Valid(man)
    BY <1>1 DEF IInv, TypeOK, HandleOK, StepInv, LiveInv, Intact
<1>3. /\ BatchKeys \subseteq Keys /\ BatchKeys # {}
      /\ \A k \in KeysOf(Merged(merged)) :
            k \in BatchKeys \/ \E s \in merged : s.min <= k /\ k <= s.max
    BY <1>1, <1>2, MergedOK
<1>4. BatchKeys \subseteq Int /\ IsFiniteSet(BatchKeys)
    BY <1>3, KeysAssumption, FS_Subset
<1>5. lo \in BatchKeys /\ hi \in BatchKeys /\ \A k \in BatchKeys : lo <= k /\ hi >= k
    BY <1>3, <1>4, FiniteMin, FiniteMax
<1> HIDE DEF lo, hi
<1>6. \A s \in man.segs : s.min \in Int /\ s.max \in Int /\ s.min <= s.max
    BY <1>2, KeysAssumption, ManifestFacts DEF Valid, Segment
<1>7. \A s \in man.segs : s \in merged <=> s.min <= hi /\ s.max >= lo
    BY DEF Overlaps, lo, hi
<1> HIDE DEF merged
<1>8. merged \subseteq man.segs
    BY DEF merged
<1>9. \A k \in KeysOf(Merged(merged)) : k \in Int
    BY TableKeys
<1>10. ASSUME NEW s \in man.segs \ merged
       PROVE  \/ \A k \in KeysOf(Merged(merged)) : s.max < k
              \/ \A k \in KeysOf(Merged(merged)) : k < s.min
    <2>1. \A r \in merged : s.max < r.min \/ r.max < s.min
        BY <1>2, <1>8 DEF Valid
    <2>2. lo \in Int /\ hi \in Int /\ \A k \in BatchKeys : k \in Int
        BY <1>4, <1>5
    <2>3. CASE s.min > hi
        <3> SUFFICES ASSUME NEW k \in KeysOf(Merged(merged))  PROVE k < s.min
            OBVIOUS
        <3>1. CASE k \in BatchKeys
            BY <1>5, <1>6, <2>2, <2>3, <3>1
        <3>2. ASSUME NEW r \in merged, r.min <= k, k <= r.max  PROVE k < s.min
            <4>1. r.min <= hi /\ r.min \in Int /\ r.max \in Int /\ k \in Int
                BY <1>6, <1>7, <1>8, <1>9
            <4> QED  BY <1>6, <2>1, <2>2, <2>3, <3>2, <4>1
        <3> QED  BY <1>3, <3>1, <3>2
    <2>4. CASE s.max < lo
        <3> SUFFICES ASSUME NEW k \in KeysOf(Merged(merged))  PROVE s.max < k
            OBVIOUS
        <3>1. CASE k \in BatchKeys
            BY <1>5, <1>6, <2>2, <2>4, <3>1
        <3>2. ASSUME NEW r \in merged, r.min <= k, k <= r.max  PROVE s.max < k
            <4>1. r.max >= lo /\ r.min \in Int /\ r.max \in Int /\ k \in Int
                BY <1>6, <1>7, <1>8, <1>9
            <4> QED  BY <1>6, <2>1, <2>2, <2>4, <3>2, <4>1
        <3> QED  BY <1>3, <3>1, <3>2
    <2> QED  BY <1>6, <1>7, <2>2, <2>3, <2>4
<1>11. cont' \in {"flush", "full", "close", "drop"}
    BY <1>1 DEF IInv, TypeOK, ControlOK
<1> QED  BY <1>1, <1>8, <1>10, <1>11, PlanOK
-----------------------------------------------------------------------------
(* Writing segments.                                                       *)

\* What is left of ordered chunks once the first is taken.
LEMMA TailOrdered ==
    ASSUME NEW cs \in Seq(Table), cs # <<>>, ChunksOrdered(cs)
    PROVE  /\ Head(cs) \in Table /\ Head(cs) = cs[1] /\ KeysOf(Head(cs)) # {}
           /\ Tail(cs) \in Seq(Table) /\ ChunksOrdered(Tail(cs))
           /\ \A i \in 1 .. Len(Tail(cs)) :
                i + 1 \in 1 .. Len(cs) /\ Tail(cs)[i] = cs[i + 1] /\ MaxKey(Head(cs)) < MinKey(Tail(cs)[i])
<1>1. /\ Head(cs) \in Table /\ Tail(cs) \in Seq(Table) /\ Len(Tail(cs)) = Len(cs) - 1
      /\ \A i \in 1 .. Len(Tail(cs)) : Tail(cs)[i] = cs[i + 1]
    BY HeadTailProperties
<1>2. Len(cs) \in Nat \ {0} /\ Head(cs) = cs[1]
    BY EmptySeq
<1>3. \A i \in 1 .. Len(Tail(cs)) : i \in Nat /\ i + 1 \in 1 .. Len(cs) /\ 1 < i + 1
    BY <1>1, <1>2
<1>4. 1 \in 1 .. Len(cs)
    BY <1>2
<1> QED  BY <1>1, <1>2, <1>3, <1>4 DEF ChunksOrdered

\* The files g are the files f and file id with contents t.
Grown(f, id, t, g) ==
    /\ DOMAIN g = DOMAIN f \cup {id}
    /\ g[id] = t
    /\ \A i \in DOMAIN f : i # id => g[i] = f[i]

\* The segments lie wholly below or above the table t.
Apart(segs, t) == \A s \in segs : s.max < MinKey(t) \/ MaxKey(t) < s.min

\* A new segment joins the result of the merge.
LEMMA AddSegmentOK ==
    ASSUME NEW m, NEW f, m.next \in Nat, m.l0 = <<>>, Intact(m, f), Held(m, f),
           m.segs \in SUBSET Segment,
           NEW t \in Table, KeysOf(t) # {},
           NEW g, Grown(f, m.next, t, g), Apart(m.segs, t),
           NEW e, e.next = m.next + 1, e.l0 = <<>>,
           e.segs = m.segs \cup {SegmentOf(m.next, t)}
    PROVE  Intact(e, g) /\ Held(e, g)
<1> DEFINE seg == SegmentOf(m.next, t)
<1> USE DEF Grown, Apart
<1>1. /\ MinKey(t) \in KeysOf(t) /\ MaxKey(t) \in KeysOf(t) /\ MinKey(t) <= MaxKey(t)
      /\ MinKey(t) \in Int /\ MaxKey(t) \in Int
    BY TableBounds, TableKeys
<1>2. seg.id = m.next /\ seg.min = MinKey(t) /\ seg.max = MaxKey(t)
    BY DEF SegmentOf
<1> HIDE DEF seg
<1>3. e.segs = m.segs \cup {seg}
    BY DEF seg
<1>4. DOMAIN e.l0 = {} /\ Range(e.l0) = {} /\ Range(m.l0) = {}
    BY DEF Range
<1>5. AllIds(e) = AllIds(m) \cup {m.next}
    BY <1>2, <1>3, <1>4 DEF AllIds
<1>6. \A id \in AllIds(m) : id \in Nat /\ id < m.next /\ id \in DOMAIN f /\ id # m.next
    BY <1>4 DEF Intact, Held, AllIds, Segment
<1>7. Valid(e)
    <2>1. Valid(m) /\ \A s \in m.segs : s.id # seg.id
        BY <1>2, <1>6 DEF Intact, AllIds
    <2> QED  BY <1>1, <1>2, <1>3, <1>4, <2>1 DEF Valid
<1>8. Intact(m, g)
    BY <1>6, IntactFrame
<1>9. SegmentOpens(g, seg)
    BY <1>2, BrokenAssumption DEF SegmentOpens
<1>10. \A id \in AllIds(e) : id < e.next
    BY <1>5, <1>6
<1>11. Intact(e, g)
    BY <1>2, <1>3, <1>5, <1>7, <1>8, <1>9, <1>10 DEF Intact
<1>12. Held(e, g)
    BY <1>5 DEF Held
<1> QED  BY <1>11, <1>12

\* Writing the next segment of a merge preserves the invariant.
LEMMA WriteSegmentStep ==
    ASSUME IInv, WriteSegment
    PROVE  IInv'
<1> DEFINE t == Head(job.chunks)
           seg == SegmentOf(man.next, t)
<1>1. /\ pc = "write" /\ job.chunks # <<>>
      /\ disk' = WithFile(disk, man.next, t) /\ older' = {} /\ man' = TakeId(man)
      /\ job' = [chunks |-> Tail(job.chunks), new |-> job.new \cup {seg},
                 keep |-> job.keep, old |-> job.old]
      /\ UNCHANGED <<pc, cont, mem, tx, nextTx, aborted, closed, counters>>
    BY DEF WriteSegment
<1>2. /\ man \in Manifest /\ man.next \in Nat
      /\ job.chunks \in Seq(Table)
      /\ job.new \in SUBSET Segment /\ job.keep \in SUBSET Segment /\ job.old \in SUBSET Nat
    BY ManifestFacts DEF IInv, TypeOK, HandleOK, JobOK
<1>3. /\ Intact(Compacted, disk.files) /\ Held(Compacted, disk.files)
      /\ ChunksOrdered(job.chunks)
      /\ \A s \in Compacted.segs, i \in 1 .. Len(job.chunks) :
              s.max < MinKey(job.chunks[i]) \/ MaxKey(job.chunks[i]) < s.min
      /\ job.old \cap AllIds(Compacted) = {}
      /\ \A id \in job.old : id < man.next
    BY <1>1 DEF IInv, WriteInv
<1>4. /\ t \in Table /\ t = job.chunks[1] /\ KeysOf(t) # {}
      /\ Tail(job.chunks) \in Seq(Table) /\ ChunksOrdered(Tail(job.chunks))
      /\ \A i \in 1 .. Len(Tail(job.chunks)) :
            /\ i + 1 \in 1 .. Len(job.chunks) /\ Tail(job.chunks)[i] = job.chunks[i + 1]
            /\ MaxKey(t) < MinKey(Tail(job.chunks)[i])
    BY <1>1, <1>2, <1>3, TailOrdered
<1>5. 1 \in 1 .. Len(job.chunks)
    BY <1>1, <1>2, EmptySeq
<1>6. MinKey(t) \in Keys /\ MaxKey(t) \in Keys /\ seg \in Segment
    <2>1. MinKey(t) \in Keys /\ MaxKey(t) \in Keys
        <3> HIDE DEF t
        <3> QED  BY <1>4, TableBounds, TableKeys
    <2> QED  BY <1>2, <2>1 DEF Segment, SegmentOf
<1> HIDE DEF t
<1>7. seg.id = man.next /\ seg.min = MinKey(t) /\ seg.max = MaxKey(t)
    BY DEF SegmentOf
<1>8. /\ \A d \in Images' : IsDisk(d) /\ Good(d.man, d.files)
      /\ disk'.man = disk.man
      /\ DOMAIN disk'.files = DOMAIN disk.files \cup {man.next}
      /\ disk'.files[man.next] = t
      /\ \A i \in DOMAIN disk.files : i # man.next => disk'.files[i] = disk.files[i]
      /\ Intact(man, disk'.files) /\ Held(man, disk'.files)
    BY <1>1, <1>4, FreshFile DEF Running
<1>9. /\ man' \in Manifest /\ man'.next = man.next + 1
      /\ Intact(man', disk'.files) /\ Held(man', disk'.files)
    BY <1>1, <1>2, <1>8, ManifestFacts, TakeIdIntact DEF Held
<1>10. /\ job'.chunks = Tail(job.chunks) /\ job'.new = job.new \cup {seg}
       /\ job'.keep = job.keep /\ job'.old = job.old
    BY <1>1
<1>11. JobOK'
    <2>1. job' = [chunks |-> job'.chunks, new |-> job'.new, keep |-> job'.keep, old |-> job'.old]
        BY <1>1
    <2> HIDE DEF seg
    <2> QED  BY <1>2, <1>4, <1>6, <1>10, <2>1 DEF JobOK
<1>12. /\ Compacted.next = man.next /\ Compacted.l0 = <<>>
       /\ Compacted.segs = job.keep \cup job.new
       /\ Compacted'.next = man.next + 1 /\ Compacted'.l0 = <<>>
       /\ Compacted'.segs = Compacted.segs \cup {seg}
    <2> HIDE DEF seg
    <2> QED  BY <1>9, <1>10 DEF Compacted
<1>13. /\ Intact(Compacted', disk'.files) /\ Held(Compacted', disk'.files)
       /\ AllIds(Compacted') = AllIds(Compacted) \cup {man.next}
    <2>1. Compacted.segs \in SUBSET Segment
        BY <1>2, <1>12
    <2>2. \A s \in Compacted.segs : s.max < MinKey(t) \/ MaxKey(t) < s.min
        BY <1>3, <1>4, <1>5
    <2> DEFINE m == Compacted
               e == Compacted'
               f == disk.files
               g == disk'.files
    <2>3. /\ m.next = man.next /\ m.next \in Nat /\ m.l0 = <<>>
          /\ Intact(m, f) /\ Held(m, f) /\ m.segs \in SUBSET Segment
        BY <1>2, <1>3, <1>12, <2>1
    <2>4. Grown(f, man.next, t, g) /\ Apart(m.segs, t)
        BY <1>8, <2>2 DEF Grown, Apart
    <2>5. e.next = m.next + 1 /\ e.l0 = <<>> /\ e.segs = m.segs \cup {SegmentOf(m.next, t)}
        BY <1>12
    <2>6. t \in Table /\ KeysOf(t) # {}
        BY <1>4
    <2> HIDE DEF m, e, f, g
    <2>7. Intact(e, g) /\ Held(e, g)
        BY <2>3, <2>4, <2>5, <2>6, AddSegmentOK
    <2>8. AllIds(e) = AllIds(m) \cup {man.next}
        <3>1. Range(e.l0) = {} /\ Range(m.l0) = {}
            BY <2>3, <2>5 DEF Range
        <3>2. SegmentOf(m.next, t).id = man.next
            BY <2>3 DEF SegmentOf
        <3> QED  BY <2>3, <2>5, <3>1, <3>2 DEF AllIds
    <2> QED  BY <2>7, <2>8 DEF m, e, f, g
<1>14. ASSUME NEW s \in Compacted'.segs, NEW i \in 1 .. Len(job'.chunks)
       PROVE  s.max < MinKey(job'.chunks[i]) \/ MaxKey(job'.chunks[i]) < s.min
    <2>1. CASE s \in Compacted.segs
        BY <1>3, <1>4, <1>10, <2>1
    <2>2. CASE s = seg
        BY <1>4, <1>7, <1>10, <2>2
    <2> QED  BY <1>12, <2>1, <2>2
<1>15. WriteInv'
    <2>1. job'.old \cap AllIds(Compacted') = {} /\ \A id \in job'.old : id < man'.next
        BY <1>2, <1>3, <1>9, <1>10, <1>13
    <2>2. ChunksOrdered(job'.chunks)
        BY <1>4, <1>10
    <2> QED  BY <1>13, <1>14, <2>1, <2>2 DEF WriteInv
<1>16. TypeOK'
    BY <1>1, <1>8, <1>9, <1>11 DEF IInv, TypeOK, ControlOK, HandleOK, counters
<1>17. LiveInv'
    <2>1. disk.man.next <= man.next /\ disk.man.next \in Nat
        <3>1. disk.man \in Manifest
            BY DEF IInv, TypeOK, Images, IsDisk
        <3> QED  BY <1>1, <3>1, ManifestFacts DEF IInv, LiveInv, Running
    <2> QED  BY <1>2, <1>8, <1>9, <2>1 DEF LiveInv
<1>18. DirectoryInv' /\ SavedInv' /\ StepInv'
    <2>1. AllIds(man') = AllIds(man)
        BY <1>1, <1>2, <1>8, TakeIdIntact
    <2> QED  BY <1>1, <1>8, <2>1 DEF IInv, DirectoryInv, SavedInv, StepInv, Running
<1> QED  BY <1>15, <1>16, <1>17, <1>18 DEF IInv

\* Failing to write a segment preserves the invariant.
LEMMA WriteSegmentFailsStep ==
    ASSUME IInv, WriteSegmentFails
    PROVE  IInv'
<1>1. Running /\ disk' = WithFile(disk, man.next, Broken) /\ older' \subseteq Images
    BY DEF WriteSegmentFails, Running, Lagging, Images
<1>2. man \in Manifest /\ man' = TakeId(man) /\ job' = NoJob
    BY DEF IInv, TypeOK, HandleOK, WriteSegmentFails
<1>3. /\ \A d \in Images' : IsDisk(d) /\ Good(d.man, d.files)
      /\ disk'.man = disk.man
      /\ Intact(man, disk'.files) /\ Held(man, disk'.files)
    BY <1>1, FreshFile
<1>4. /\ man' \in Manifest /\ man'.next = man.next + 1 /\ man.next \in Nat
      /\ Intact(man', disk'.files) /\ Held(man', disk'.files)
    BY <1>2, <1>3, ManifestFacts, TakeIdIntact DEF Held
<1>5. /\ pc' \in {"idle", "sync"} /\ cont' \in {"flush", "full", "close", "drop"}
      /\ UNCHANGED <<mem, tx, nextTx, aborted, closed, counters>>
    BY FailsOK DEF IInv, TypeOK, WriteSegmentFails
<1>6. JobOK'
    BY <1>2, NoJobOK DEF JobOK
<1>7. TypeOK'
    BY <1>3, <1>4, <1>5, <1>6 DEF IInv, TypeOK, ControlOK, HandleOK, counters
<1>8. LiveInv'
    <2>1. disk.man.next <= man.next /\ disk.man.next \in Nat
        <3>1. disk.man \in Manifest
            BY DEF IInv, TypeOK, Images, IsDisk
        <3> QED  BY <1>1, <3>1, ManifestFacts DEF IInv, LiveInv
    <2> QED  BY <1>3, <1>4, <2>1 DEF LiveInv
<1>9. DirectoryInv' /\ StepInv' /\ WriteInv'
    BY <1>3, <1>5 DEF DirectoryInv, StepInv, WriteInv
<1>10. SavedInv'
    BY <1>1, <1>2, <1>3, TakeIdIntact DEF IInv, SavedInv, WriteSegmentFails
<1> QED  BY <1>7, <1>8, <1>9, <1>10 DEF IInv
-----------------------------------------------------------------------------
(* The theorems.                                                           *)

\* A new directory that no process has opened satisfies the invariant.
LEMMA InitInvariant == Init => IInv
<1> SUFFICES ASSUME Init  PROVE IInv
    OBVIOUS
<1>1. /\ pc = "down" /\ cont = "flush" /\ mem = EmptyTable /\ man = NewManifest
      /\ disk = NewDisk /\ older = {} /\ job = NoJob /\ tx = NoTx /\ nextTx = 0
      /\ aborted = {} /\ closed = FALSE /\ nCalls = 0 /\ nCrashes = 0
    BY DEF Init
<1>2. NewManifest \in Manifest /\ NewManifest.l0 = <<>> /\ NewManifest.segs = {}
    BY NewManifestOK DEF NewManifest
<1>3. ControlOK /\ HandleOK /\ JobOK
    <2>1. ControlOK
        <3>1. /\ pc = "down" /\ cont = "flush" /\ closed = FALSE
              /\ nCalls = 0 /\ nCrashes = 0
            BY <1>1
        <3>2. 0 \in 0 .. MaxCalls /\ 0 \in 0 .. MaxCrashes
            BY LimitAssumption
        <3> QED  BY <3>1, <3>2 DEF ControlOK
    <2>2. NoTx \in [id : Nat, batch : Table]
        BY EmptyTableOK DEF NoTx
    <2>3. HandleOK
        BY <1>1, <1>2, <2>2, EmptyTableOK DEF HandleOK
    <2>4. JobOK
        BY <1>1, NoJobOK DEF JobOK
    <2> QED  BY <2>1, <2>3, <2>4
<1>4. /\ disk.man = NewManifest /\ disk.files = <<>> /\ disk.wal = <<>> /\ disk.synced = 0
      /\ disk = [man |-> disk.man, files |-> disk.files, wal |-> disk.wal,
                 synced |-> disk.synced]
    BY <1>1 DEF NewDisk
<1>5. DOMAIN disk.files = {} /\ disk.files = [i \in DOMAIN disk.files |-> disk.files[i]]
    BY <1>4
<1>6. IsDisk(disk)
    <2>1. disk.wal \in Seq(Record) /\ Len(disk.wal) = 0
        BY <1>4, EmptySeq
    <2>2. IsFileMap(disk.files)
        BY <1>5 DEF IsFileMap
    <2> QED  BY <1>2, <1>4, <2>1, <2>2 DEF IsDisk
<1>7. AllIds(NewManifest) = {} /\ DOMAIN NewManifest.l0 = {}
    BY <1>2 DEF AllIds, Range
<1>8. Valid(NewManifest)
    BY <1>2, <1>7 DEF Valid
<1>9. Good(disk.man, disk.files)
    BY <1>2, <1>4, <1>7, <1>8 DEF Good, Intact, Held
<1> QED
    BY <1>1, <1>3, <1>6, <1>9
       DEF IInv, TypeOK, DirectoryInv, SavedInv, LiveInv, StepInv, WriteInv, Images, Running

\* A step that changes nothing preserves the invariant.
LEMMA StutterInvariant ==
    ASSUME IInv, UNCHANGED vars
    PROVE  IInv'
<1>1. /\ UNCHANGED <<pc, cont, mem, man, disk, older>>
      /\ UNCHANGED <<job, tx, nextTx, aborted, closed, nCalls, nCrashes>>
    BY DEF vars, local, counters
<1>2. TypeOK' /\ DirectoryInv' /\ SavedInv' /\ LiveInv'
    BY <1>1
       DEF IInv, TypeOK, ControlOK, HandleOK, JobOK, DirectoryInv, SavedInv, LiveInv,
           Images, Running
<1>3. StepInv' /\ WriteInv'
    BY <1>1 DEF IInv, StepInv, WriteInv, Compacted
<1> QED  BY <1>2, <1>3 DEF IInv

\* Every step of the engine preserves the invariant.
LEMMA NextInvariant == IInv /\ [Next]_vars => IInv'
<1> SUFFICES ASSUME IInv, [Next]_vars  PROVE IInv'
    OBVIOUS
<1>1. CASE \E k \in Keys, e \in Entry : Put(k, e)
    BY <1>1, PutStep
<1>2. CASE PutFails \/ SyncCommit \/ SyncCommitFails \/ RetryCommit \/ Abort
    BY <1>2, PutFailsStep, SyncCommitStep, SyncCommitFailsStep, RetryCommitStep, AbortStep
<1>3. CASE \E b \in Batches : StartCommit(b)
    BY <1>3, StartCommitStep
<1>4. CASE \E c \in Calls : Call(c)
    BY <1>4, CallStep
<1>5. CASE BuildL0 \/ BuildL0Fails \/ SaveL0 \/ SaveL0Fails \/ Truncate \/ TruncateFails
    BY <1>5, BuildL0Step, BuildL0FailsStep, SaveStep, FailureSteps, TruncateStep
<1>6. CASE PlanCompaction \/ PlanFull \/ PlanFails \/ WriteSegment \/ WriteSegmentFails
    BY <1>6, PlanCompactionStep, PlanFullStep, FailureSteps, WriteSegmentStep,
       WriteSegmentFailsStep
<1>7. CASE SwapManifest \/ SwapManifestFails
    BY <1>7, SwapManifestStep, SwapManifestFailsStep
<1>8. CASE \E id \in job.old : DeleteOld(id)
    BY <1>8, DeleteOldStep
<1>9. CASE Gc \/ CloseAgain \/ DropClosed \/ SyncLog \/ SyncLogFails
    BY <1>9, GcStep, CloseAgainStep, DropClosedStep, SyncLogStep, SyncLogFailsStep
<1>10. CASE SaveAndClose \/ SaveAndCloseFails \/ Kill \/ LosePower \/ Open
    BY <1>10, SaveStep, FailureSteps, KillStep, LosePowerStep, OpenStep
<1>11. CASE Get \/ UNCHANGED vars
    BY <1>11, StutterInvariant DEF Get
<1> QED
    BY <1>1, <1>2, <1>3, <1>4, <1>5, <1>6, <1>7, <1>8, <1>9, <1>10, <1>11 DEF Next

\* The inductive invariant holds in every state that Database::open_with,
\* its calls, failing file operations and crashes can reach (src/lib.rs).
THEOREM Invariance == Spec => []IInv
BY InitInvariant, NextInvariant, PTL DEF Spec

\* Every variable keeps its type (all of src/lib.rs's Database and its WAL,
\* manifest and files), whatever operation fails and wherever a crash hits.
THEOREM TypeCorrect == Spec => []TypeOK
<1>1. IInv => TypeOK
    BY DEF IInv
<1> QED  BY <1>1, Invariance, PTL

\* The manifest in memory names only whole files in disjoint ranges at every
\* step of flush(), compact(), compact_full(), gc() and close(), under every
\* failure: neither get nor a merge meets a missing or partial file.
THEOREM LiveTablesAlwaysReadable == Spec => []LiveTablesReadable
<1>1. IInv => LiveTablesReadable
    <2> SUFFICES ASSUME IInv, Running
                 PROVE  /\ Opens([disk EXCEPT !.man = man])
                        /\ \A id \in AllIds(man) : disk.files[id] # Broken
                        /\ \A id \in AllIds(man) : id < man.next
        BY DEF LiveTablesReadable
    <2> DEFINE d == [disk EXCEPT !.man = man]
    <2>1. Intact(man, disk.files) /\ Held(man, disk.files)
        BY DEF IInv, LiveInv
    <2>2. IsDisk(disk) /\ man \in Manifest
        BY DEF IInv, TypeOK, HandleOK, Images
    <2>3. d.man = man /\ d.files = disk.files
        BY <2>2, WithManOK
    <2> HIDE DEF d
    <2>4. Opens(d) /\ \A id \in AllIds(d.man) : d.files[id] # Broken
        BY <2>1, <2>3, IntactOpens
    <2> QED  BY <2>1, <2>3, <2>4 DEF d, Intact
<1> QED  BY <1>1, Invariance, PTL

\* Whatever a crash or a power loss leaves of the directory opens again, as
\* long as gc() is not called where saving the manifest may fail; the run
\* gc_after_failed_save shows that the condition is needed.
THEOREM OpensAfterEveryCrash == Careful => (Spec => []AlwaysOpens)
<1> SUFFICES ASSUME Careful  PROVE Spec => []AlwaysOpens
    OBVIOUS
<1>1. IInv => AlwaysOpens
    BY IntactOpens DEF IInv, DirectoryInv, Good, AlwaysOpens
<1> QED  BY <1>1, Invariance, PTL

-----------------------------------------------------------------------------
(* What the steps do to the files, and the files that nothing names.       *)

\* MANIFEST names the tables that the manifest in memory names, except while
\* flush() has yet to save it.
ListsInv ==
    "save" \notin Faults /\ Running /\ pc # "save"
        => disk.man.l0 = man.l0 /\ disk.man.segs = man.segs

\* compact() is the only user of the job, and it replaces what it does not keep.
JobInv ==
    /\ pc \notin {"write", "delete"} => job = NoJob
    /\ pc = "delete" => job.new = {}
    /\ pc = "write" => AllIds(man) \subseteq job.old \cup {s.id : s \in job.keep}

\* Where no operation fails and no process ends early, every file is named by
\* the manifest or belongs to the merge under way.
FilesInv ==
    nCrashes = 0 /\ Faults = {} =>
        IF Running
        THEN DOMAIN disk.files \subseteq AllIds(man) \cup {s.id : s \in job.new} \cup job.old
        ELSE DOMAIN disk.files \subseteq AllIds(disk.man)

FInv == ListsInv /\ JobInv /\ FilesInv

\* The steps between file operations on tables and manifests.
QuietAction ==
    \/ \E k \in Keys, e \in Entry : Put(k, e)
    \/ PutFails
    \/ \E b \in Batches : StartCommit(b)
    \/ SyncCommit \/ SyncCommitFails \/ RetryCommit \/ Abort
    \/ \E c \in Calls : Call(c)
    \/ SaveL0Fails \/ Truncate \/ TruncateFails \/ PlanFails
    \/ CloseAgain \/ SyncLog \/ SyncLogFails \/ SaveAndCloseFails

\* Those steps leave tables and manifests alone.
LEMMA QuietFiles ==
    ASSUME IInv, QuietAction, Running'
    PROVE  /\ Running /\ UNCHANGED <<man, job, nCrashes>>
           /\ disk'.man = disk.man /\ disk'.files = disk.files
           /\ pc = "save" => "save" \in Faults
           /\ pc \notin {"write", "delete"}
           /\ pc' \notin {"write", "delete", "save", "truncate"}
<1>1. IsDisk(disk)
    BY DEF IInv, TypeOK, Images
<1>2. \A log : LET d == [disk EXCEPT !.wal = log] IN d.man = disk.man /\ d.files = disk.files
    BY <1>1 DEF IsDisk
<1>3. \A n : LET d == [disk EXCEPT !.synced = n] IN d.man = disk.man /\ d.files = disk.files
    BY <1>1 DEF IsDisk
<1>4. ControlOK
    BY DEF IInv, TypeOK
<1>5. AfterFlush(cont) \in {"idle", "full", "sync"}
    BY <1>4, AfterFlushOK DEF ControlOK
<1>6. \A records : /\ Logged(records).man = disk.man
                   /\ Logged(records).files = disk.files
    BY <1>2 DEF Logged
<1>7. CASE \E k \in Keys, e \in Entry : Put(k, e)
    BY <1>6, <1>7, FlushIfOverLimitOK DEF Put, CountCall, Running
<1>8. CASE PutFails
    BY <1>6, <1>8 DEF PutFails, CountCall, Running, local
<1>9. ASSUME NEW t, LogBlock(t)
      PROVE  /\ UNCHANGED <<man, job>> /\ pc' \in {"commit", "failed"}
             /\ disk'.man = disk.man /\ disk'.files = disk.files
    BY <1>6, <1>9 DEF LogBlock, Goto
<1>10. CASE (\E b \in Batches : StartCommit(b)) \/ RetryCommit
    BY <1>9, <1>10 DEF StartCommit, RetryCommit, CountCall, Running
<1>11. CASE SyncCommit
    BY <1>3, <1>11, FlushIfOverLimitOK DEF SyncCommit, Running, counters
<1>12. CASE SyncCommitFails \/ Abort
    BY <1>12 DEF SyncCommitFails, Abort, Running, counters, local, Goto
<1>13. CASE \E c \in Calls : Call(c)
    <2>1. PICK c \in Calls : Call(c)
        BY <1>13
    <2>2. AfterFlush(c) \in {"idle", "full", "sync"}
        BY <2>1, CallsAssumption, AfterFlushOK DEF Call
    <2> QED  BY <2>1, <2>2 DEF Call, Goto, CountCall, Running, local
<1>14. CASE SaveL0Fails \/ TruncateFails \/ PlanFails \/ SaveAndCloseFails
    BY <1>4, <1>14, FailsOK
       DEF SaveL0Fails, TruncateFails, PlanFails, SaveAndCloseFails, Fails, Running, counters,
           local
<1>15. CASE Truncate
    <2>1. disk' = WithLog(disk, <<>>, 0) /\ pc = "truncate" /\ UNCHANGED <<man, job, counters>>
        BY <1>15 DEF Truncate
    <2>2. disk'.man = disk.man /\ disk'.files = disk.files
        <3>1. <<>> \in Seq(Record) /\ 0 \in 0 .. Len(<<>>)
            BY EmptySeq
        <3> QED  BY <1>1, <2>1, <3>1, WithLogOK
    <2>3. pc' \in {"plan", "idle", "full", "sync"}
        BY <1>5, <1>15 DEF Truncate, FlushReturns, Goto
    <2> QED  BY <2>1, <2>2, <2>3 DEF counters, Running
<1>16. CASE CloseAgain
    BY <1>16 DEF CloseAgain, CountCall, Running, local
<1>17. CASE SyncLog \/ SyncLogFails
    <2>1. cont = "close"
        BY <1>17 DEF SyncLog, SyncLogFails, ProcessEnds, Running
    <2>2. pc = "sync" /\ pc' \in {"closing", "idle"}
        BY <1>17, <2>1 DEF SyncLog, SyncLogFails, Goto
    <2> QED
        BY <1>3, <1>17, <2>1, <2>2
           DEF SyncLog, SyncLogFails, Running, counters, local
<1> QED
    BY <1>7, <1>8, <1>10, <1>11, <1>12, <1>13, <1>14, <1>15, <1>16, <1>17 DEF QuietAction

\* They preserve the invariant about the files.
LEMMA QuietFInv ==
    ASSUME IInv, FInv, QuietAction, Running'
    PROVE  FInv'
<1>1. /\ Running /\ UNCHANGED <<man, job, nCrashes>>
      /\ disk'.man = disk.man /\ disk'.files = disk.files
      /\ pc = "save" => "save" \in Faults
      /\ pc \notin {"write", "delete"} /\ pc' \notin {"write", "delete"}
    BY QuietFiles
<1> QED  BY <1>1 DEF FInv, ListsInv, JobInv, FilesInv

\* Saving the manifest in flush() and close() preserves it.
LEMMA SaveFInv ==
    ASSUME IInv, FInv, SaveL0 \/ SaveAndClose
    PROVE  FInv'
<1>1. /\ disk' = [disk EXCEPT !.man = man] /\ UNCHANGED <<man, job, nCrashes>>
      /\ pc \in {"save", "closing"} /\ pc' \in {"truncate", "idle"} /\ Running /\ Running'
    BY DEF SaveL0, SaveAndClose, Goto, Running, local, counters
<1>2. IsDisk(disk) /\ man \in Manifest
    BY DEF IInv, TypeOK, HandleOK, Images
<1>3. disk'.man = man /\ disk'.files = disk.files
    BY <1>1, <1>2, WithManOK
<1> QED  BY <1>1, <1>3 DEF FInv, ListsInv, JobInv, FilesInv

\* A new L0 table preserves it, and changes no file the manifest names.
LEMMA BuildFInv ==
    ASSUME IInv, FInv, BuildL0
    PROVE  FInv' /\ \A id \in AllIds(man) : disk'.files[id] = disk.files[id]
<1>1. /\ disk' = WithFile(disk, man.next, mem) /\ older' = {} /\ Running /\ Running'
      /\ man' = AddL0(TakeId(man), man.next)
      /\ pc = "build" /\ pc' = "save" /\ UNCHANGED <<job, nCrashes>>
    BY DEF BuildL0, Goto, Running, counters
<1>2. mem \in Table /\ man \in Manifest /\ Intact(man, disk.files) /\ Held(man, disk.files)
    BY <1>1 DEF IInv, TypeOK, HandleOK, LiveInv
<1>3. /\ disk'.man = disk.man
      /\ DOMAIN disk'.files = DOMAIN disk.files \cup {man.next}
      /\ \A i \in DOMAIN disk.files : i # man.next => disk'.files[i] = disk.files[i]
    BY <1>1, <1>2, FreshFile
<1>4. man.next \notin AllIds(man) /\ AllIds(man) \subseteq DOMAIN disk.files
    BY <1>2, TakeIdIntact DEF Held
<1>5. AllIds(man') = AllIds(man) \cup {man.next}
    <2> DEFINE m == TakeId(man)
    <2>1. mem \in Table /\ KeysOf(mem) # {}
        BY <1>1, <1>2 DEF IInv, StepInv
    <2>2. man.next \in DOMAIN disk'.files /\ disk'.files[man.next] = mem
        BY <1>1, <1>2, FreshFile
    <2>3. Intact(man, disk'.files) /\ Held(man, disk'.files)
        BY <1>1, <1>2, FreshFile
    <2>4. /\ m \in Manifest /\ m.next = man.next + 1 /\ man.next \in Nat
          /\ Intact(m, disk'.files) /\ Held(m, disk'.files)
          /\ AllIds(m) = AllIds(man) /\ man.next \notin AllIds(m)
        BY <1>2, <2>3, ManifestFacts, TakeIdIntact DEF Held
    <2> HIDE DEF m
    <2>5. man' = AddL0(m, man.next)
        BY <1>1 DEF m
    <2> QED  BY <2>1, <2>2, <2>4, <2>5, AddL0OK
<1>6. FInv'
    BY <1>1, <1>3, <1>5 DEF FInv, ListsInv, JobInv, FilesInv
<1> QED  BY <1>3, <1>4, <1>6

\* So do the tables of a flush or merge that are not written to the end.
LEMMA BuildFailsFInv ==
    ASSUME IInv, FInv, BuildL0Fails \/ WriteSegmentFails
    PROVE  FInv' /\ \A id \in AllIds(man) : disk'.files[id] = disk.files[id]
<1>1. /\ disk' = WithFile(disk, man.next, Broken) /\ older' \subseteq Images
      /\ Running /\ Running' /\ man' = TakeId(man) /\ Faults # {}
      /\ pc \in {"build", "write"} /\ pc' \in {"idle", "sync"}
      /\ job' = NoJob \/ (pc = "build" /\ job' = job)
    BY DEF BuildL0Fails, WriteSegmentFails, Fails, Goto, Running, Lagging, Images
<1>2. man \in Manifest /\ Intact(man, disk.files) /\ Held(man, disk.files)
    BY <1>1 DEF IInv, TypeOK, HandleOK, LiveInv
<1>3. /\ disk'.man = disk.man
      /\ \A i \in DOMAIN disk.files : i # man.next => disk'.files[i] = disk.files[i]
    BY <1>1, FreshFile
<1>4. man.next \notin AllIds(man) /\ AllIds(man) \subseteq DOMAIN disk.files
    BY <1>2, TakeIdIntact DEF Held
<1>5. man'.l0 = man.l0 /\ man'.segs = man.segs
    BY <1>1, <1>2, ManifestFacts
<1>6. ListsInv' /\ JobInv'
    BY <1>1, <1>3, <1>5 DEF FInv, ListsInv, JobInv
<1>7. FilesInv'
    BY <1>1 DEF FilesInv
<1> QED  BY <1>3, <1>4, <1>6, <1>7 DEF FInv

\* Planning a merge preserves it: what is not kept is replaced.
LEMMA PlanFInv ==
    ASSUME IInv, FInv, PlanCompaction \/ PlanFull
    PROVE  FInv' /\ disk'.files = disk.files
<1>1. PICK merged \in SUBSET man.segs : job' = Compaction(merged)
    BY DEF PlanCompaction, PlanFull
<1>2. /\ UNCHANGED <<man, disk, nCrashes>> /\ pc \in {"plan", "full"} /\ pc' = "write"
      /\ Running /\ Running'
    BY DEF PlanCompaction, PlanFull, Goto, Running, counters
<1>3. /\ job'.old = Range(man.l0) \cup {s.id : s \in merged}
      /\ job'.keep = man.segs \ merged /\ job'.new = {}
    BY <1>1 DEF Compaction
<1>4. AllIds(man) \subseteq job'.old \cup {s.id : s \in job'.keep}
    BY <1>3 DEF AllIds
<1>5. job = NoJob
    BY <1>2 DEF FInv, JobInv
<1> QED
    BY <1>2, <1>3, <1>4, <1>5 DEF FInv, ListsInv, JobInv, FilesInv, NoJob

\* A new segment preserves it.
LEMMA WriteFInv ==
    ASSUME IInv, FInv, WriteSegment
    PROVE  FInv' /\ \A id \in AllIds(man) : disk'.files[id] = disk.files[id]
<1> DEFINE t == Head(job.chunks)
<1>1. /\ disk' = WithFile(disk, man.next, t) /\ older' = {} /\ Running /\ Running'
      /\ man' = TakeId(man) /\ pc = "write" /\ pc' = "write" /\ UNCHANGED nCrashes
      /\ job'.new = job.new \cup {SegmentOf(man.next, t)}
      /\ job'.keep = job.keep /\ job'.old = job.old /\ job.chunks # <<>>
    BY DEF WriteSegment, Running, counters
<1>2. /\ man \in Manifest /\ Intact(man, disk.files) /\ Held(man, disk.files)
      /\ job.chunks \in Seq(Table)
    BY <1>1 DEF IInv, TypeOK, HandleOK, JobOK, LiveInv
<1>3. t \in Table
    BY <1>1, <1>2, HeadTailProperties
<1> HIDE DEF t
<1>4. /\ disk'.man = disk.man
      /\ DOMAIN disk'.files = DOMAIN disk.files \cup {man.next}
      /\ \A i \in DOMAIN disk.files : i # man.next => disk'.files[i] = disk.files[i]
    BY <1>1, <1>3, FreshFile
<1>5. man.next \notin AllIds(man) /\ AllIds(man) \subseteq DOMAIN disk.files
    BY <1>2, TakeIdIntact DEF Held
<1>6. man'.l0 = man.l0 /\ man'.segs = man.segs /\ AllIds(man') = AllIds(man)
    BY <1>1, <1>2, ManifestFacts DEF AllIds
<1>7. man.next \in {s.id : s \in job'.new} /\ {s.id : s \in job.new} \subseteq {s.id : s \in job'.new}
    BY <1>1 DEF SegmentOf
<1>8. FInv'
    BY <1>1, <1>4, <1>6, <1>7 DEF FInv, ListsInv, JobInv, FilesInv
<1> QED  BY <1>4, <1>5, <1>8

\* The end of a merge preserves it: what is replaced is still to be deleted.
LEMMA SwapFInv ==
    ASSUME IInv, FInv, SwapManifest \/ SwapManifestFails
    PROVE  FInv' /\ disk'.files = disk.files
<1>1. /\ pc = "write" /\ man' = Compacted /\ Running /\ UNCHANGED nCrashes
    BY DEF SwapManifest, SwapManifestFails, Running, counters
<1>2. Compacted.l0 = <<>> /\ Compacted.segs = job.keep \cup job.new
    BY DEF Compacted
<1>3. AllIds(Compacted) = {s.id : s \in job.keep} \cup {s.id : s \in job.new}
    BY <1>2 DEF AllIds, Range
<1>4. IsDisk(disk) /\ Compacted \in Manifest
    BY <1>1, CompactedOK DEF IInv, TypeOK, Images
<1>5. CASE SwapManifest
    <2>1. disk' = [disk EXCEPT !.man = Compacted]
        BY <1>1, <1>5 DEF SwapManifest
    <2>2. disk'.man = Compacted /\ disk'.files = disk.files
        BY <1>4, <2>1, WithManOK
    <2>3. /\ \/ pc' \in {"idle", "full", "sync"} /\ job' = NoJob /\ job.old = {}
             \/ pc' = "delete" /\ job' = [NoJob EXCEPT !.old = job.old]
          /\ Running'
        BY <1>5, AfterFlushOK
           DEF SwapManifest, FlushReturns, Goto, IInv, TypeOK, ControlOK, Running
    <2>4. job'.new = {} /\ job'.old = job.old
        <3>1. CASE job' = NoJob /\ job.old = {}
            BY <3>1 DEF NoJob
        <3>2. CASE job' = [NoJob EXCEPT !.old = job.old]
            BY <3>2 DEF NoJob
        <3> QED  BY <2>3, <3>1, <3>2
    <2>5. ListsInv' /\ JobInv'
        BY <1>1, <2>2, <2>3, <2>4 DEF ListsInv, JobInv
    <2>6. FilesInv'
        BY <1>1, <1>3, <2>2, <2>3, <2>4 DEF FInv, FilesInv, JobInv
    <2> QED  BY <2>2, <2>5, <2>6 DEF FInv
<1>6. CASE SwapManifestFails
    <2>1. disk' = disk /\ "save" \in Faults /\ job' = NoJob /\ pc' \in {"idle", "sync"}
        BY <1>6 DEF SwapManifestFails, Fails, Goto
    <2> QED  BY <2>1 DEF FInv, ListsInv, JobInv, FilesInv
<1> QED  BY <1>5, <1>6

\* Removing files that nothing names preserves it.
LEMMA RemoveFInv ==
    ASSUME IInv, FInv, (\E id \in job.old : DeleteOld(id)) \/ Gc
    PROVE  FInv' /\ \A id \in AllIds(man) : disk'.files[id] = disk.files[id]
<1>1. Running /\ IsDisk(disk) /\ Held(man, disk.files)
    BY DEF DeleteOld, Gc, Running, IInv, TypeOK, LiveInv, Images
<1>2. ASSUME NEW ids, disk' = WithoutFiles(disk, ids), ids \cap AllIds(man) = {}
      PROVE  /\ disk'.man = disk.man /\ DOMAIN disk'.files = DOMAIN disk.files \ ids
             /\ \A id \in AllIds(man) : disk'.files[id] = disk.files[id]
    BY <1>1, <1>2, WithoutFilesOK DEF Held
<1>3. CASE \E id \in job.old : DeleteOld(id)
    <2>1. PICK id \in job.old : DeleteOld(id)
        BY <1>3
    <2>2. /\ pc = "delete" /\ UNCHANGED <<man, nCrashes>> /\ disk.man = man
          /\ {id} \cap AllIds(man) = {} /\ job.new = {}
        BY <2>1 DEF DeleteOld, IInv, StepInv, counters, FInv, JobInv
    <2>3. disk' = WithoutFiles(disk, {id}) \/ (disk' = disk /\ Faults # {})
        BY <2>1 DEF DeleteOld
    <2>4. /\ disk'.man = disk.man
          /\ DOMAIN disk'.files = DOMAIN disk.files \ {id} \/ Faults # {}
          /\ \A i \in AllIds(man) : disk'.files[i] = disk.files[i]
        BY <1>2, <2>2, <2>3
    <2>5. /\ Running'
          /\ \/ pc' \in {"idle", "full", "sync"} /\ job' = NoJob /\ job.old = {id}
             \/ pc' = "delete" /\ job' = [job EXCEPT !.old = @ \ {id}]
        BY <2>1, <2>2, AfterFlushOK
           DEF DeleteOld, FlushReturns, Goto, IInv, TypeOK, ControlOK, Running
    <2>6. job'.new = {} /\ job'.old = job.old \ {id}
        <3>1. job = [chunks |-> job.chunks, new |-> job.new, keep |-> job.keep,
                     old |-> job.old]
            BY DEF IInv, TypeOK, JobOK
        <3> QED  BY <2>2, <2>5, <3>1 DEF NoJob
    <2>7. ListsInv' /\ JobInv'
        BY <2>2, <2>4, <2>5, <2>6 DEF ListsInv, JobInv
    <2>8. FilesInv'
        BY <1>1, <2>2, <2>4, <2>5, <2>6 DEF FInv, FilesInv
    <2> QED  BY <2>4, <2>7, <2>8 DEF FInv
<1>4. CASE Gc
    <2>1. PICK gone \in SUBSET Orphans : disk' = WithoutFiles(disk, gone)
        BY <1>4 DEF Gc
    <2>2. gone \cap AllIds(man) = {}
        BY DEF Orphans
    <2>3. /\ UNCHANGED <<pc, man, job, nCrashes>>
        BY <1>4 DEF Gc, CountCall, local
    <2>4. /\ disk'.man = disk.man /\ DOMAIN disk'.files = DOMAIN disk.files \ gone
          /\ \A id \in AllIds(man) : disk'.files[id] = disk.files[id]
        BY <1>2, <2>1, <2>2
    <2>5. FInv'
        BY <2>3, <2>4 DEF FInv, ListsInv, JobInv, FilesInv, Running
    <2> QED  BY <2>4, <2>5
<1> QED  BY <1>3, <1>4

\* The end of the process and opening preserve it.
LEMMA DownFInv ==
    ASSUME IInv, FInv, DropClosed \/ SyncLog \/ SyncLogFails \/ Kill \/ LosePower \/ Open,
           Running' => Open
    PROVE  FInv'
<1>1. IsDisk(disk)
    BY DEF IInv, TypeOK, Images
<1>2. CASE Kill \/ LosePower
    <2>1. nCrashes \in Nat /\ nCrashes' = nCrashes + 1 /\ ProcessEnds
        BY <1>2 DEF Kill, LosePower, CountCrash, IInv, TypeOK, ControlOK
    <2>2. nCrashes' # 0 /\ pc' = "down" /\ job' = NoJob
        BY <2>1 DEF ProcessEnds
    <2> QED  BY <2>2 DEF FInv, ListsInv, JobInv, FilesInv, Running
<1>3. CASE (DropClosed \/ SyncLog \/ SyncLogFails) /\ ~Running'
    <2>1. /\ ProcessEnds /\ pc \in {"idle", "sync"} /\ nCrashes' = nCrashes
          /\ disk'.man = disk.man /\ disk'.files = disk.files
        <3>1. CASE DropClosed
            BY <3>1 DEF DropClosed, CountCall
        <3>2. CASE SyncLog
            <4>1. disk' = [disk EXCEPT !.synced = Len(disk.wal)]
                BY <3>2 DEF SyncLog
            <4>2. disk'.man = disk.man /\ disk'.files = disk.files
                BY <1>1, <4>1 DEF IsDisk
            <4> QED  BY <1>3, <3>2, <4>2 DEF SyncLog, Goto, Running, counters
        <3>3. CASE SyncLogFails
            BY <1>3, <3>3 DEF SyncLogFails, Goto, Running, counters
        <3> QED  BY <1>3, <3>1, <3>2, <3>3
    <2>2. pc' = "down" /\ job' = NoJob
        BY <2>1 DEF ProcessEnds
    <2>3. /\ Running /\ job.new = {} /\ job.old = {}
        BY <2>1 DEF Running, FInv, JobInv, NoJob
    <2>4. "save" \notin Faults => AllIds(disk.man) = AllIds(man)
        BY <2>1, <2>3 DEF FInv, ListsInv, AllIds
    <2> QED  BY <2>1, <2>2, <2>3, <2>4 DEF FInv, ListsInv, JobInv, FilesInv, Running
<1>4. CASE Open
    <2>1. UNCHANGED <<disk, job, nCrashes>> /\ pc = "down" /\ pc' \in {"down", "idle"}
        BY <1>4 DEF Open, Goto, counters
    <2>2. pc' = "idle" => man' = disk.man
        BY <1>4, <2>1 DEF Open
    <2> QED  BY <2>1, <2>2 DEF FInv, ListsInv, JobInv, FilesInv, Running
<1> QED  BY <1>2, <1>3, <1>4

\* Every step of the engine preserves it.
LEMMA NextFInv == IInv /\ FInv /\ [Next]_vars => FInv'
<1> SUFFICES ASSUME IInv, FInv, [Next]_vars  PROVE FInv'
    OBVIOUS
<1>1. CASE QuietAction /\ Running'
    BY <1>1, QuietFInv
<1>2. CASE QuietAction /\ ~Running'
    <2>1. SyncLog \/ SyncLogFails
        <3>1. ControlOK
            BY DEF IInv, TypeOK
        <3>2. \A c \in Calls : Call(c) => Running'
            BY CallsAssumption, AfterFlushOK DEF Call, Goto, Running
        <3>3. \A t : LogBlock(t) => Running'
            BY DEF LogBlock, Goto, Running
        <3>4. Truncate => Running'
            BY <3>1, AfterFlushOK DEF Truncate, FlushReturns, Goto, Running, ControlOK
        <3>5. SaveL0Fails \/ TruncateFails \/ PlanFails \/ SaveAndCloseFails => Running'
            BY <3>1, FailsOK
               DEF SaveL0Fails, TruncateFails, PlanFails, SaveAndCloseFails, Running
        <3>6. PutFails \/ SyncCommitFails \/ Abort \/ CloseAgain => Running'
            BY DEF PutFails, SyncCommitFails, Abort, CloseAgain, Goto, Running
        <3>7. SyncCommit \/ (\E k \in Keys, e \in Entry : Put(k, e)) => Running'
            BY FlushIfOverLimitOK DEF SyncCommit, Put, Running
        <3> QED
            BY <1>2, <3>2, <3>3, <3>4, <3>5, <3>6, <3>7
               DEF QuietAction, StartCommit, RetryCommit
    <2> QED  BY <1>2, <2>1, DownFInv
<1>3. CASE SaveL0 \/ SaveAndClose
    BY <1>3, SaveFInv
<1>4. CASE BuildL0 \/ BuildL0Fails \/ WriteSegmentFails \/ WriteSegment
    BY <1>4, BuildFInv, BuildFailsFInv, WriteFInv
<1>5. CASE PlanCompaction \/ PlanFull \/ SwapManifest \/ SwapManifestFails
    BY <1>5, PlanFInv, SwapFInv
<1>6. CASE (\E id \in job.old : DeleteOld(id)) \/ Gc
    BY <1>6, RemoveFInv
<1>7. CASE DropClosed \/ Kill \/ LosePower \/ Open
    <2>1. DropClosed \/ Kill \/ LosePower => ~Running'
        BY DEF DropClosed, Kill, LosePower, ProcessEnds, Running
    <2> QED  BY <1>7, <2>1, DownFInv
<1>8. CASE Get \/ UNCHANGED vars
    <2>1. UNCHANGED <<pc, man, disk, job, nCrashes>>
        BY <1>8 DEF Get, vars, local, counters
    <2> QED  BY <2>1 DEF FInv, ListsInv, JobInv, FilesInv, Running
<1> QED
    BY <1>1, <1>2, <1>3, <1>4, <1>5, <1>6, <1>7, <1>8 DEF Next, QuietAction

\* It holds initially.
LEMMA InitFInv == Init => FInv
<1> SUFFICES ASSUME Init  PROVE FInv
    OBVIOUS
<1>1. pc = "down" /\ job = NoJob /\ disk.files = <<>>
    BY DEF Init, NewDisk
<1>2. DOMAIN disk.files = {}
    BY <1>1
<1> QED  BY <1>1, <1>2 DEF FInv, ListsInv, JobInv, FilesInv, Running

\* Both invariants together hold in every reachable state (src/lib.rs).
THEOREM FilesInvariance == Spec => [](IInv /\ FInv)
<1>1. Init => IInv /\ FInv
    BY InitInvariant, InitFInv
<1>2. IInv /\ FInv /\ [Next]_vars => (IInv /\ FInv)'
    BY NextInvariant, NextFInv
<1> QED  BY <1>1, <1>2, PTL DEF Spec

\* Where no operation fails and no process ends early, no call leaves a table
\* file that the manifest does not name (compact, compact_full, close, drop).
THEOREM NoOrphansWithoutFailures == Spec => []OrphansOnlyFromFailures
<1>1. FInv => OrphansOnlyFromFailures
    <2> SUFFICES ASSUME FInv, pc = "idle", nCrashes = 0, Faults = {}
                 PROVE  Orphans = {}
        BY DEF OrphansOnlyFromFailures
    <2>1. job.new = {} /\ job.old = {} /\ Running
        BY DEF FInv, JobInv, NoJob, Running
    <2> QED  BY <2>1 DEF FInv, FilesInv, Orphans
<1> QED  BY <1>1, FilesInvariance, PTL

\* A step of a running process changes no table that the manifest names before
\* and after it: what lets table_cache keep its readers (src/lib.rs get).
THEOREM TablesNeverChange == Spec => TablesImmutable
<1>1. ASSUME IInv, FInv, [Next]_vars, Running, Running'
      PROVE  \A id \in AllIds(man) \cap AllIds(man') : disk'.files[id] = disk.files[id]
    <2>1. CASE QuietAction
        BY <1>1, <2>1, QuietFiles
    <2>2. CASE SaveL0 \/ SaveAndClose
        <3>1. disk' = [disk EXCEPT !.man = man]
            BY <2>2 DEF SaveL0, SaveAndClose
        <3>2. IsDisk(disk) /\ man \in Manifest
            BY <1>1 DEF IInv, TypeOK, HandleOK, Images
        <3> QED  BY <3>1, <3>2, WithManOK
    <2>3. CASE BuildL0 \/ BuildL0Fails \/ WriteSegmentFails \/ WriteSegment
        BY <1>1, <2>3, BuildFInv, BuildFailsFInv, WriteFInv
    <2>4. CASE PlanCompaction \/ PlanFull \/ SwapManifest \/ SwapManifestFails
        BY <1>1, <2>4, PlanFInv, SwapFInv
    <2>5. CASE (\E id \in job.old : DeleteOld(id)) \/ Gc
        BY <1>1, <2>5, RemoveFInv
    <2>6. CASE DropClosed \/ Kill \/ LosePower \/ Open
        BY <1>1, <2>6 DEF DropClosed, Kill, LosePower, Open, ProcessEnds, Running
    <2>7. CASE Get \/ UNCHANGED vars
        BY <2>7 DEF Get, vars
    <2> QED
        BY <1>1, <2>1, <2>2, <2>3, <2>4, <2>5, <2>6, <2>7 DEF Next, QuietAction
<1>2. IInv /\ FInv /\ [Next]_vars
        => [Running /\ Running' =>
              \A id \in AllIds(man) \cap AllIds(man') : disk'.files[id] = disk.files[id]]_vars
    BY <1>1
<1> QED  BY <1>2, FilesInvariance, PTL DEF Spec, TablesImmutable
=============================================================================

-------------------------- MODULE DurabilityProofs --------------------------
(***************************************************************************)
(* Theorems about what the storage engine returns: that no flush, merge,   *)
(* garbage collection or close changes it, whatever fails; where the log   *)
(* loses nothing it accepted, that a crash returns what was promised; and  *)
(* that a complete backup does.                                            *)
(***************************************************************************)
EXTENDS Backup, LsmEngineProofs

-----------------------------------------------------------------------------
(* What is read, key by key.                                               *)

\* An entry, as get returns it when the memtable is t and, where that has none,
\* the tables of the manifest m.
Seen(t, m, f, k) == Visible(IF t[k] # Absent THEN t[k] ELSE TableEntry(m, f, k))

\* get() returns the memtable's entry, or the newest one of the tables.
LEMMA ViewSeen ==
    ASSUME NEW m \in Manifest, NEW f, Intact(m, f), Held(m, f), NEW t
    PROVE  ViewOf(t, m, f) = [k \in Keys |-> Seen(t, m, f, k)]
<1>1. \A k \in Keys : Lookup(t, m, f, k) = IF t[k] # Absent THEN t[k] ELSE TableEntry(m, f, k)
    BY LookupTables
<1> QED  BY <1>1 DEF ViewOf, Seen

\* The same of an open database.
LEMMA CurrentSeen ==
    ASSUME IInv, Running
    PROVE  Current = [k \in Keys |-> Seen(mem, man, disk.files, k)]
<1>1. man \in Manifest /\ Intact(man, disk.files) /\ Held(man, disk.files)
    BY DEF IInv, TypeOK, HandleOK, LiveInv
<1>2. ViewOf(mem, man, disk.files) = [k \in Keys |-> Seen(mem, man, disk.files, k)]
    BY <1>1, ViewSeen
<1> QED  BY <1>2 DEF Current

\* Two states in which every key reads the same show the same map.
LEMMA SameCurrent ==
    ASSUME IInv, IInv', Running, Running',
           \A k \in Keys : Seen(mem', man', disk'.files, k) = Seen(mem, man, disk.files, k)
    PROVE  Current' = Current
<1>1. Current = [k \in Keys |-> Seen(mem, man, disk.files, k)]
    BY CurrentSeen
<1>2. man' \in Manifest /\ Intact(man', disk'.files) /\ Held(man', disk'.files)
    BY DEF IInv, TypeOK, HandleOK, LiveInv
<1>3. ViewOf(mem', man', disk'.files) = [k \in Keys |-> Seen(mem', man', disk'.files, k)]
    BY <1>2, ViewSeen
<1>4. Current' = ViewOf(mem', man', disk'.files)
    BY DEF Current
<1> QED  BY <1>1, <1>3, <1>4

-----------------------------------------------------------------------------
(* What flush() and the merges rely on.                                    *)

\* Once its L0 file is written, the memtable is the newest table, and when the
\* log is about to be dropped MANIFEST says so.
FlushedInv ==
    /\ pc \in {"save", "truncate"} =>
            man.l0 # <<>> /\ disk.files[man.l0[Len(man.l0)]] = mem
    /\ pc = "truncate" => disk.man = man

\* What the tables hold of key k, as a client sees it.
Stored(m, f, k) == Visible(TableEntry(m, f, k))

\* A merge loses nothing and uncovers nothing: each chunk still to write has the
\* visible entries of its keys, and every other key reads from the manifest that
\* the merge will end with as it does from the one it started with.
MergeInv ==
    pc = "write" =>
        \A k \in Keys :
            /\ \A i \in 1 .. Len(job.chunks) :
                 k \in KeysOf(job.chunks[i]) => job.chunks[i][k] = Stored(man, disk.files, k)
            /\ (\A i \in 1 .. Len(job.chunks) : k \notin KeysOf(job.chunks[i])) =>
                 Stored(Compacted, disk.files, k) = Stored(man, disk.files, k)

VInv == FlushedInv /\ MergeInv

\* Below the memtable, a manifest without L0 tables shows its segments.
LEMMA NoL0Entry ==
    ASSUME NEW m, NEW f, m.l0 = <<>>, NEW k
    PROVE  TableEntry(m, f, k) = AnyEntry({f[s.id] : s \in m.segs}, k)
<1>1. DOMAIN L0Tables(m, f) = {}
    BY DEF L0Tables
<1>2. NewestEntry(L0Tables(m, f), k) = Absent
    BY <1>1 DEF NewestEntry
<1> QED  BY <1>2 DEF TableEntry

\* It shows the entry of the one segment that holds the key, if there is one.
LEMMA SegmentsShown ==
    ASSUME NEW m \in Manifest, NEW f, Intact(m, f), Held(m, f), m.l0 = <<>>, NEW k \in Keys
    PROVE  /\ \A s \in m.segs : k \in KeysOf(f[s.id]) => TableEntry(m, f, k) = f[s.id][k]
           /\ (\A s \in m.segs : k \notin KeysOf(f[s.id])) => TableEntry(m, f, k) = Absent
<1> DEFINE R == m.segs
<1>1. R \in SUBSET m.segs /\ R = m.segs
    OBVIOUS
<1> HIDE DEF R
<1>2. TableEntry(m, f, k) = AnyEntry({f[r.id] : r \in R}, k)
    BY NoL0Entry DEF R
<1>3. ASSUME NEW s \in R, k \in KeysOf(f[s.id])
      PROVE  TableEntry(m, f, k) = f[s.id][k]
    BY <1>1, <1>2, <1>3, SegmentEntry
<1>4. ASSUME \A r \in R : k \notin KeysOf(f[r.id])
      PROVE  TableEntry(m, f, k) = Absent
    BY <1>2, <1>4, NoSegmentEntry
<1> QED  BY <1>1, <1>3, <1>4

\* The newest L0 table is read before the others.
LEMMA NewestFirst ==
    ASSUME NEW m \in Manifest, NEW f, Intact(m, f), Held(m, f), m.l0 # <<>>,
           NEW k \in Keys, f[m.l0[Len(m.l0)]][k] # Absent
    PROVE  TableEntry(m, f, k) = f[m.l0[Len(m.l0)]][k]
<1> DEFINE ts == L0Tables(m, f)
           n == Len(m.l0)
<1>1. /\ ts \in Seq(Table) /\ n \in Nat /\ Len(ts) = n
      /\ \A i \in 1 .. n : ts[i] = f[m.l0[i]]
    BY L0TablesOK
<1>2. n \in 1 .. n
    <2>1. m.l0 \in Seq(Nat)
        BY DEF Manifest
    <2> QED  BY <1>1, <2>1, EmptySeq
<1> HIDE DEF ts, n
<1>3. ts[n][k] # Absent
    BY <1>1, <1>2 DEF n
<1>4. PICK i \in 1 .. n : /\ NewestEntry(ts, k) = ts[i][k] /\ ts[i][k] # Absent
                            /\ \A j \in 1 .. n : j > i => ts[j][k] = Absent
    BY <1>1, <1>2, <1>3, NewestEntryOf
<1>5. i = n
    BY <1>1, <1>2, <1>3, <1>4
<1> QED  BY <1>1, <1>2, <1>4, <1>5 DEF TableEntry, ts, n

\* What a client sees of an entry it sees of that again, and of nothing nothing.
LEMMA VisibleTwice ==
    /\ \A e : Visible(Visible(e)) = Visible(e)
    /\ Visible(Absent) = Absent
    /\ \A e \in Entry \cup {Absent} : Visible(e) \in Values \cup {Absent}
BY EntryAssumption DEF Visible, Entry

\* The merge of all L0 tables with some segments, none of the others holding a
\* key of an L0 table: what it has of a key is what a client saw, and what it
\* has not is seen in the others (merge_ids, with its tombstones dropped).
LEMMA MergeShows ==
    ASSUME IInv, Running, NEW merged \in SUBSET man.segs, NEW k \in Keys,
           k \in BatchKeys => \A s \in man.segs \ merged : k \notin KeysOf(disk.files[s.id])
    PROVE  LET M == Merged(merged)
               e == Stored(man, disk.files, k)
           IN  /\ M[k] # Absent => M[k] = e
               /\ M[k] = Absent =>
                    Visible(AnyEntry({disk.files[s.id] : s \in man.segs \ merged}, k)) = e
<1> DEFINE f == disk.files
           l0 == NewestEntry(L0Tables(man, f), k)
           ofSegs == AnyEntry({f[s.id] : s \in man.segs}, k)
           ofMerged == AnyEntry({f[s.id] : s \in merged}, k)
           ofKept == AnyEntry({f[s.id] : s \in man.segs \ merged}, k)
<1>1. man \in Manifest /\ Intact(man, f) /\ Held(man, f)
    BY DEF IInv, TypeOK, HandleOK, LiveInv
<1>2. Merged(merged)[k] = Visible(IF l0 # Absent THEN l0 ELSE ofMerged)
    BY DEF Merged, Merge
<1>3. Stored(man, f, k) = Visible(IF l0 # Absent THEN l0 ELSE ofSegs)
    BY DEF Stored, TableEntry
<1>4. l0 # Absent => k \in BatchKeys
    <2>1. /\ L0Tables(man, f) \in Seq(Table) /\ Len(L0Tables(man, f)) = Len(man.l0)
          /\ \A i \in 1 .. Len(man.l0) :
                L0Tables(man, f)[i] = f[man.l0[i]] /\ man.l0[i] \in Range(man.l0)
        BY <1>1, L0TablesOK
    <2>2. l0 # Absent => \E i \in 1 .. Len(man.l0) : k \in KeysOf(L0Tables(man, f)[i])
        BY <2>1, NewestEntryOf
    <2>3. \A i \in 1 .. Len(man.l0) : KeysOf(f[man.l0[i]]) \subseteq BatchKeys
        BY <2>1 DEF BatchKeys
    <2> QED  BY <2>1, <2>2, <2>3
<1>5. (\A s \in man.segs \ merged : k \notin KeysOf(f[s.id])) => ofKept = Absent
    BY NoSegmentEntry
<1>6. (\A s \in merged : k \notin KeysOf(f[s.id])) => ofMerged = Absent
    BY NoSegmentEntry
<1>7. (\A s \in man.segs : k \notin KeysOf(f[s.id])) => ofSegs = Absent
    BY NoSegmentEntry
<1>8. ASSUME NEW s \in merged, k \in KeysOf(f[s.id])
      PROVE  /\ ofMerged = f[s.id][k] /\ ofSegs = f[s.id][k]
             /\ \A r \in man.segs \ merged : k \notin KeysOf(f[r.id])
    BY <1>1, <1>8, SegmentEntry
<1>9. ASSUME NEW s \in man.segs \ merged, k \in KeysOf(f[s.id])
      PROVE  ofKept = f[s.id][k] /\ ofSegs = f[s.id][k]
    <2> DEFINE R == man.segs \ merged
    <2>1. R \in SUBSET man.segs /\ s \in R /\ s \in man.segs
        OBVIOUS
    <2> HIDE DEF R
    <2>2. AnyEntry({f[r.id] : r \in R}, k) = f[s.id][k]
        BY <1>1, <1>9, <2>1, SegmentEntry
    <2>3. ofSegs = f[s.id][k]
        BY <1>1, <1>9, <2>1, SegmentEntry
    <2> QED  BY <2>2, <2>3 DEF R
<1> HIDE DEF l0, ofSegs, ofMerged, ofKept
<1>10. CASE l0 # Absent
    BY <1>2, <1>3, <1>4, <1>5, <1>10, VisibleTwice DEF f, ofKept
<1>11. CASE l0 = Absent
    <2>1. CASE \E s \in merged : k \in KeysOf(f[s.id])
        BY <1>2, <1>3, <1>5, <1>8, <1>11, <2>1, VisibleTwice DEF f, ofKept
    <2>2. CASE \A s \in merged : k \notin KeysOf(f[s.id])
        <3>1. ofKept = ofSegs
            BY <1>5, <1>7, <1>9, <2>2
        <3> QED  BY <1>2, <1>3, <1>6, <1>11, <2>2, <3>1, VisibleTwice DEF f, ofKept
    <2> QED  BY <2>1, <2>2
<1> QED  BY <1>10, <1>11

\* A merge of all L0 tables with the segments that hold keys of theirs starts
\* with MergeInv.
LEMMA PlanShows ==
    ASSUME IInv, Running, NEW merged \in SUBSET man.segs,
           \A s \in man.segs \ merged : \A k \in BatchKeys : k \notin KeysOf(disk.files[s.id]),
           job' = Compaction(merged), UNCHANGED <<man, disk>>
    PROVE  MergeInv'
<1> DEFINE M == Merged(merged)
           cs == Chunks(M)
<1>1. M \in Table
    BY MergedOK
<1>2. /\ \A k \in KeysOf(M) : \E i \in 1 .. Len(cs) : k \in KeysOf(cs[i])
      /\ \A i \in 1 .. Len(cs) : \A k \in KeysOf(cs[i]) : cs[i][k] = M[k]
    BY <1>1, ChunksCover
<1>3. job'.chunks = cs /\ job'.keep = man.segs \ merged /\ job'.new = {}
    BY DEF Compaction, Merged
<1>4. Compacted'.l0 = <<>> /\ Compacted'.segs = man.segs \ merged
    BY <1>3 DEF Compacted
<1>5. ASSUME NEW k \in Keys
      PROVE  /\ M[k] # Absent => M[k] = Stored(man, disk.files, k)
             /\ M[k] = Absent =>
                  Visible(AnyEntry({disk.files[s.id] : s \in man.segs \ merged}, k))
                    = Stored(man, disk.files, k)
    BY MergeShows
<1>6. ASSUME NEW k \in Keys
      PROVE  Stored(Compacted', disk.files, k) =
                Visible(AnyEntry({disk.files[s.id] : s \in man.segs \ merged}, k))
    <2> DEFINE c == Compacted'
    <2>1. c.l0 = <<>> /\ c.segs = man.segs \ merged
        BY <1>4
    <2> HIDE DEF c
    <2>2. TableEntry(c, disk.files, k) = AnyEntry({disk.files[s.id] : s \in c.segs}, k)
        BY <2>1, NoL0Entry
    <2> QED  BY <2>1, <2>2 DEF Stored, c
<1> HIDE DEF M, cs
<1>7. ASSUME NEW k \in Keys, NEW i \in 1 .. Len(cs), k \in KeysOf(cs[i])
      PROVE  cs[i][k] = Stored(man, disk.files, k)
    BY <1>2, <1>5, <1>7 DEF KeysOf
<1>8. ASSUME NEW k \in Keys, \A i \in 1 .. Len(cs) : k \notin KeysOf(cs[i])
      PROVE  Stored(Compacted', disk.files, k) = Stored(man, disk.files, k)
    BY <1>2, <1>5, <1>6, <1>8 DEF KeysOf
<1> QED  BY <1>3, <1>7, <1>8 DEF MergeInv

\* Planning either merge does: what compact() does not merge lies outside the
\* span of the L0 tables, and compact_full() merges everything.
LEMMA PlanVInv ==
    ASSUME IInv, PlanCompaction \/ PlanFull
    PROVE  VInv' /\ UNCHANGED <<mem, man, disk>>
<1>1. /\ Running /\ UNCHANGED <<mem, man, disk>> /\ pc' = "write"
    BY DEF PlanCompaction, PlanFull, Goto, Running
<1>2. man \in Manifest /\ Intact(man, disk.files) /\ Held(man, disk.files)
    BY <1>1 DEF IInv, TypeOK, HandleOK, LiveInv
<1>3. CASE PlanCompaction
    <2> DEFINE merged == {s \in man.segs : Overlaps(s)}
    <2>1. ASSUME NEW s \in man.segs \ merged, NEW k \in BatchKeys
          PROVE  k \notin KeysOf(disk.files[s.id])
        <3>1. BatchKeys \subseteq Int /\ IsFiniteSet(BatchKeys) /\ BatchKeys # {}
            <4>1. BatchKeys \subseteq Keys
                BY DEF BatchKeys, KeysOf
            <4> QED  BY <4>1, KeysAssumption, FS_Subset
        <3>2. Min(BatchKeys) <= k /\ Max(BatchKeys) >= k /\ k \in Int
              /\ Min(BatchKeys) \in Int /\ Max(BatchKeys) \in Int
            BY <3>1, FiniteMin, FiniteMax
        <3>3. ~(s.min <= Max(BatchKeys) /\ s.max >= Min(BatchKeys))
            BY DEF Overlaps
        <3>4. /\ s.min \in Int /\ s.max \in Int
              /\ \A j \in KeysOf(disk.files[s.id]) : s.min <= j /\ j <= s.max
            BY <1>2, SegmentHolds
        <3> QED  BY <3>2, <3>3, <3>4
    <2>2. job' = Compaction(merged)
        BY <1>3 DEF PlanCompaction
    <2>3. merged \in SUBSET man.segs
        OBVIOUS
    <2> HIDE DEF merged
    <2>4. MergeInv'
        BY <1>1, <2>1, <2>2, <2>3, PlanShows
    <2> QED  BY <1>1, <2>4 DEF VInv, FlushedInv
<1>4. CASE PlanFull
    <2>1. job' = Compaction(man.segs)
        BY <1>4 DEF PlanFull
    <2>2. man.segs \in SUBSET man.segs /\ man.segs \ man.segs = {}
        OBVIOUS
    <2>3. MergeInv'
        BY <1>1, <2>1, <2>2, PlanShows
    <2> QED  BY <1>1, <2>3 DEF VInv, FlushedInv
<1> QED  BY <1>1, <1>3, <1>4

\* A table file with a fresh id is not read yet.
LEMMA FreshFileUnread ==
    ASSUME IInv, Running, NEW t \in Table \cup {Broken},
           disk' = WithFile(disk, man.next, t), older' \subseteq Images,
           NEW n, n.l0 = man.l0, n.segs = man.segs, NEW k
    PROVE  TableEntry(n, disk'.files, k) = TableEntry(man, disk.files, k)
<1>1. man \in Manifest /\ Intact(man, disk.files) /\ Held(man, disk.files)
    BY DEF IInv, TypeOK, HandleOK, LiveInv
<1>2. \A i \in DOMAIN disk.files : i # man.next => disk'.files[i] = disk.files[i]
    BY FreshFile
<1>3. man.next \notin AllIds(man)
    BY <1>1, TakeIdIntact
<1>4. \A id \in AllIds(man) : disk'.files[id] = disk.files[id]
    BY <1>1, <1>2, <1>3 DEF Held
<1> QED  BY <1>1, <1>4, TableEntryFrame

\* A segment that joins others hides none of their keys and shows its own.
LEMMA JoinedEntry ==
    ASSUME NEW m \in Manifest, NEW f, Intact(m, f), Held(m, f), m.l0 = <<>>,
           NEW e \in Manifest, NEW g, Intact(e, g), Held(e, g), e.l0 = <<>>,
           NEW seg, e.segs = m.segs \cup {seg},
           \A s \in m.segs : g[s.id] = f[s.id],
           NEW k \in Keys
    PROVE  /\ k \in KeysOf(g[seg.id]) => TableEntry(e, g, k) = g[seg.id][k]
           /\ k \notin KeysOf(g[seg.id]) => TableEntry(e, g, k) = TableEntry(m, f, k)
<1>1. /\ \A s \in e.segs : k \in KeysOf(g[s.id]) => TableEntry(e, g, k) = g[s.id][k]
      /\ (\A s \in e.segs : k \notin KeysOf(g[s.id])) => TableEntry(e, g, k) = Absent
    BY SegmentsShown
<1>2. /\ \A s \in m.segs : k \in KeysOf(f[s.id]) => TableEntry(m, f, k) = f[s.id][k]
      /\ (\A s \in m.segs : k \notin KeysOf(f[s.id])) => TableEntry(m, f, k) = Absent
    BY SegmentsShown
<1>3. CASE k \in KeysOf(g[seg.id])
    BY <1>1, <1>3
<1>4. CASE k \notin KeysOf(g[seg.id])
    <2>1. CASE \E s \in m.segs : k \in KeysOf(f[s.id])
        BY <1>1, <1>2, <1>4, <2>1
    <2>2. CASE \A s \in m.segs : k \notin KeysOf(f[s.id])
        <3>1. \A s \in e.segs : k \notin KeysOf(g[s.id])
            BY <1>4, <2>2
        <3> QED  BY <1>1, <1>2, <1>4, <2>2, <3>1
    <2> QED  BY <2>1, <2>2
<1> QED  BY <1>3, <1>4

\* Writing the next segment of a merge keeps the two halves of MergeInv in step.
LEMMA WriteVInv ==
    ASSUME IInv, IInv', VInv, WriteSegment
    PROVE  /\ VInv' /\ mem' = mem
           /\ \A k \in Keys : TableEntry(man', disk'.files, k) = TableEntry(man, disk.files, k)
<1> DEFINE t == Head(job.chunks)
           seg == SegmentOf(man.next, t)
           e == Compacted'
           g == disk'.files
<1>1. /\ pc = "write" /\ pc' = "write" /\ Running /\ job.chunks # <<>> /\ mem' = mem
      /\ disk' = WithFile(disk, man.next, t) /\ older' = {} /\ man' = TakeId(man)
      /\ job'.chunks = Tail(job.chunks) /\ job'.new = job.new \cup {seg} /\ job'.keep = job.keep
    BY DEF WriteSegment, Running
<1>2. /\ man \in Manifest /\ job.chunks \in Seq(Table)
      /\ Intact(man, disk.files) /\ Held(man, disk.files)
      /\ ChunksOrdered(job.chunks)
    BY <1>1 DEF IInv, TypeOK, HandleOK, JobOK, LiveInv, WriteInv
<1>3. /\ t \in Table /\ t = job.chunks[1]
      /\ \A i \in 1 .. Len(Tail(job.chunks)) :
            i + 1 \in 1 .. Len(job.chunks) /\ Tail(job.chunks)[i] = job.chunks[i + 1]
    BY <1>1, <1>2, TailOrdered
<1>4. /\ Len(job.chunks) \in Nat /\ Len(Tail(job.chunks)) = Len(job.chunks) - 1
      /\ 1 \in 1 .. Len(job.chunks)
    BY <1>1, <1>2, EmptySeq, HeadTailProperties
<1>5. seg.id = man.next
    BY DEF SegmentOf
<1> HIDE DEF t, seg
<1>6. /\ g[man.next] = t
      /\ \A i \in DOMAIN disk.files : i # man.next => g[i] = disk.files[i]
    BY <1>1, <1>3, FreshFile
<1>7. /\ Compacted \in Manifest /\ Compacted.next = man.next
      /\ Intact(Compacted, disk.files) /\ Held(Compacted, disk.files)
    BY <1>1, CompactedOK
<1>8. /\ Compacted.l0 = <<>> /\ Compacted.segs = job.keep \cup job.new
      /\ e.l0 = <<>> /\ e.segs = Compacted.segs \cup {seg}
    BY <1>1 DEF Compacted
<1>9. e \in Manifest /\ Intact(e, g) /\ Held(e, g)
    <2>1. man' \in Manifest /\ job'.keep \in SUBSET Segment /\ job'.new \in SUBSET Segment
        BY DEF IInv, TypeOK, HandleOK, JobOK
    <2>2. e \in Manifest
        BY <2>1, EmptySeq DEF Compacted, Manifest
    <2>3. Intact(e, g) /\ Held(e, g)
        BY <1>1 DEF IInv, WriteInv
    <2> QED  BY <2>2, <2>3
<1>10. \A s \in Compacted.segs : g[s.id] = disk.files[s.id]
    <2>1. man.next \notin AllIds(Compacted)
        BY <1>7, TakeIdIntact
    <2> QED  BY <1>6, <1>7, <2>1 DEF Held, AllIds
<1>11. \A k \in Keys : TableEntry(man', g, k) = TableEntry(man, disk.files, k)
    <2>1. man'.l0 = man.l0 /\ man'.segs = man.segs
        BY <1>1, <1>2, ManifestFacts
    <2>2. older' \subseteq Images
        BY <1>1
    <2> QED  BY <1>1, <1>3, <2>1, <2>2, FreshFileUnread
<1> HIDE DEF e, g
<1>12. \A k \in Keys : Stored(man', g, k) = Stored(man, disk.files, k)
    BY <1>11 DEF Stored
<1>13. ASSUME NEW k \in Keys
       PROVE  /\ \A i \in 1 .. Len(job.chunks) :
                    k \in KeysOf(job.chunks[i]) => job.chunks[i][k] = Stored(man, disk.files, k)
              /\ (\A i \in 1 .. Len(job.chunks) : k \notin KeysOf(job.chunks[i])) =>
                    Stored(Compacted, disk.files, k) = Stored(man, disk.files, k)
    BY <1>1 DEF VInv, MergeInv
<1>14. ASSUME NEW k \in Keys, NEW i \in 1 .. Len(job'.chunks), k \in KeysOf(job'.chunks[i])
       PROVE  job'.chunks[i][k] = Stored(man', g, k)
    BY <1>1, <1>3, <1>12, <1>13, <1>14
<1>15. ASSUME NEW k \in Keys, \A i \in 1 .. Len(job'.chunks) : k \notin KeysOf(job'.chunks[i])
       PROVE  Stored(e, g, k) = Stored(man', g, k)
    <2>1. /\ k \in KeysOf(t) => TableEntry(e, g, k) = t[k]
          /\ k \notin KeysOf(t) => TableEntry(e, g, k) = TableEntry(Compacted, disk.files, k)
        BY <1>5, <1>6, <1>7, <1>8, <1>9, <1>10, JoinedEntry
    <2>2. CASE k \in KeysOf(t)
        <3>1. t[k] = Stored(man, disk.files, k)
            BY <1>3, <1>4, <1>13, <2>2
        <3> QED  BY <1>12, <2>1, <2>2, <3>1, VisibleTwice DEF Stored
    <2>3. CASE k \notin KeysOf(t)
        <3>1. ASSUME NEW i \in 1 .. Len(job.chunks)  PROVE k \notin KeysOf(job.chunks[i])
            <4>1. CASE i = 1
                BY <1>3, <2>3, <4>1
            <4>2. CASE i # 1
                <5>1. i - 1 \in 1 .. Len(Tail(job.chunks)) /\ (i - 1) + 1 = i
                    BY <1>4, <4>2
                <5> QED  BY <1>1, <1>3, <1>15, <5>1
            <4> QED  BY <4>1, <4>2
        <3>2. Stored(Compacted, disk.files, k) = Stored(man, disk.files, k)
            BY <1>13, <3>1
        <3> QED  BY <1>12, <2>1, <2>3, <3>2 DEF Stored
    <2> QED  BY <2>2, <2>3
<1>16. MergeInv'
    BY <1>14, <1>15 DEF MergeInv, e, g
<1> QED  BY <1>1, <1>11, <1>16 DEF VInv, FlushedInv, g

\* What a key reads as depends on the memtable and on what the tables store.
LEMMA SeenStored ==
    ASSUME NEW t, NEW m, NEW f, NEW k
    PROVE  Seen(t, m, f, k) = IF t[k] # Absent THEN Visible(t[k]) ELSE Stored(m, f, k)
BY DEF Seen, Stored

\* Every key reads as before.
SameView ==
    \A k \in Keys : Seen(mem', man', disk'.files, k) = Seen(mem, man, disk.files, k)

\* The new L0 file repeats the memtable, which still hides it.
LEMMA BuildVInv ==
    ASSUME IInv, IInv', VInv, BuildL0
    PROVE  VInv' /\ SameView
<1>1. /\ disk' = WithFile(disk, man.next, mem) /\ older' \subseteq Images
      /\ Running /\ Running' /\ mem' = mem
      /\ man' = AddL0(TakeId(man), man.next) /\ pc' = "save"
    BY DEF BuildL0, Goto, Running
<1>2. /\ mem \in Table /\ man \in Manifest /\ man.next \in Nat
      /\ Intact(man, disk.files) /\ Held(man, disk.files)
      /\ man' \in Manifest /\ Intact(man', disk'.files) /\ Held(man', disk'.files)
    BY <1>1, ManifestFacts DEF IInv, TypeOK, HandleOK, LiveInv
<1>3. /\ disk'.files[man.next] = mem
      /\ \A i \in DOMAIN disk.files : i # man.next => disk'.files[i] = disk.files[i]
    BY <1>1, <1>2, FreshFile
<1>4. \A id \in AllIds(man) : disk'.files[id] = disk.files[id]
    <2>1. man.next \notin AllIds(man)
        BY <1>2, TakeIdIntact
    <2> QED  BY <1>2, <1>3, <2>1 DEF Held
<1>5. man'.l0 = Append(man.l0, man.next) /\ man'.segs = man.segs /\ man.l0 \in Seq(Nat)
    BY <1>1, <1>2 DEF Manifest, TakeId, AddL0
<1>6. \A k \in Keys : TableEntry(man', disk'.files, k) =
                        IF mem[k] # Absent THEN mem[k] ELSE TableEntry(man, disk.files, k)
    BY <1>2, <1>3, <1>4, <1>5, AddedEntry
<1>7. SameView
    BY <1>1, <1>6 DEF SameView, Seen
<1>8. man'.l0 # <<>> /\ man'.l0[Len(man'.l0)] = man.next
    <2>1. /\ man'.l0 \in Seq(Nat) /\ Len(man'.l0) = Len(man.l0) + 1 /\ Len(man.l0) \in Nat
          /\ man'.l0[Len(man.l0) + 1] = man.next
        BY <1>2, <1>5, AppendProperties, LenProperties
    <2> QED  BY <2>1, EmptySeq
<1>9. VInv'
    BY <1>1, <1>3, <1>8 DEF VInv, FlushedInv, MergeInv
<1> QED  BY <1>7, <1>9

\* A file that was not written to its end is not read.
LEMMA BuildFailsVInv ==
    ASSUME IInv, VInv, BuildL0Fails \/ WriteSegmentFails
    PROVE  VInv' /\ SameView
<1>1. /\ disk' = WithFile(disk, man.next, Broken) /\ older' \subseteq Images
      /\ Running /\ man' = TakeId(man) /\ mem' = mem /\ pc' \in {"idle", "sync"}
    BY DEF BuildL0Fails, WriteSegmentFails, Fails, Goto, Running, Lagging, Images
<1>2. man'.l0 = man.l0 /\ man'.segs = man.segs
    BY <1>1, ManifestFacts DEF IInv, TypeOK, HandleOK
<1>3. \A k \in Keys : TableEntry(man', disk'.files, k) = TableEntry(man, disk.files, k)
    BY <1>1, <1>2, FreshFileUnread
<1> QED  BY <1>1, <1>3 DEF SameView, Seen, VInv, FlushedInv, MergeInv

\* The manifest that replaces the old one reads the same: no chunk is left.
LEMMA SwapVInv ==
    ASSUME IInv, FInv, VInv, SwapManifest \/ SwapManifestFails
    PROVE  VInv' /\ SameView
<1>1. /\ pc = "write" /\ job.chunks = <<>> /\ man' = Compacted /\ mem' = mem
      /\ disk'.files = disk.files
    BY SwapFInv DEF SwapManifest, SwapManifestFails
<1>2. pc' \in {"idle", "full", "sync", "delete"}
    BY AfterFlushOK, FailsOK
       DEF SwapManifest, SwapManifestFails, FlushReturns, Goto, IInv, TypeOK, ControlOK
<1>3. Len(job.chunks) = 0 /\ 1 .. 0 = {}
    BY <1>1, EmptySeq
<1>4. \A k \in Keys : Stored(Compacted, disk.files, k) = Stored(man, disk.files, k)
    BY <1>1, <1>3 DEF VInv, MergeInv
<1>5. SameView
    BY <1>1, <1>4, SeenStored DEF SameView
<1> QED  BY <1>2, <1>5 DEF VInv, FlushedInv, MergeInv

\* Files that are removed are not read any more.
LEMMA RemoveVInv ==
    ASSUME IInv, FInv, VInv, (\E id \in job.old : DeleteOld(id)) \/ Gc
    PROVE  VInv' /\ SameView
<1>1. /\ \A id \in AllIds(man) : disk'.files[id] = disk.files[id]
      /\ UNCHANGED <<mem, man>>
    BY RemoveFInv DEF DeleteOld, Gc, local
<1>2. pc' \in {"idle", "full", "sync", "delete"}
    BY AfterFlushOK DEF DeleteOld, Gc, FlushReturns, Goto, IInv, TypeOK, ControlOK
<1>3. man \in Manifest
    BY DEF IInv, TypeOK, HandleOK
<1>4. \A k \in Keys : TableEntry(man', disk'.files, k) = TableEntry(man, disk.files, k)
    BY <1>1, <1>3, TableEntryFrame
<1> QED  BY <1>1, <1>2, <1>4 DEF SameView, Seen, VInv, FlushedInv, MergeInv

\* Saving a manifest touches no table.
LEMMA SaveVInv ==
    ASSUME IInv, VInv, SaveL0 \/ SaveAndClose
    PROVE  VInv' /\ SameView
<1>1. /\ disk' = [disk EXCEPT !.man = man] /\ UNCHANGED <<mem, man>>
      /\ (pc = "save" /\ pc' = "truncate") \/ pc' = "idle"
    BY DEF SaveL0, SaveAndClose, Goto, local
<1>2. disk'.man = man /\ disk'.files = disk.files
    BY <1>1, WithManOK DEF IInv, TypeOK, HandleOK, Images
<1> QED  BY <1>1, <1>2 DEF SameView, VInv, FlushedInv, MergeInv

\* The memtable may be dropped: the newest table is its copy.
LEMMA TruncateView ==
    ASSUME IInv, VInv, Truncate, disk'.files = disk.files, man' = man
    PROVE  SameView
<1>1. /\ pc = "truncate" /\ Running /\ mem' = EmptyTable
    BY DEF Truncate, Running
<1>2. man \in Manifest /\ Intact(man, disk.files) /\ Held(man, disk.files)
    BY <1>1 DEF IInv, TypeOK, HandleOK, LiveInv
<1>3. man.l0 # <<>> /\ disk.files[man.l0[Len(man.l0)]] = mem
    BY <1>1 DEF VInv, FlushedInv
<1>4. \A k \in Keys : mem[k] # Absent => TableEntry(man, disk.files, k) = mem[k]
    BY <1>2, <1>3, NewestFirst
<1> QED  BY <1>1, <1>4 DEF SameView, Seen, EmptyTable

\* The other steps leave the tables alone, and only put, delete, a commit and
\* the end of flush() change the memtable.
LEMMA QuietVInv ==
    ASSUME IInv, VInv, QuietAction, Running'
    PROVE  VInv' /\ (pc \notin {"idle", "commit"} \/ mem' = mem => SameView)
<1>1. /\ Running /\ man' = man /\ disk'.files = disk.files
      /\ pc' \notin {"write", "delete", "save", "truncate"}
    BY QuietFiles
<1>2. ASSUME pc \notin {"idle", "commit"}
      PROVE  mem' = mem \/ Truncate
    BY <1>2
       DEF QuietAction, Put, PutFails, StartCommit, RetryCommit, LogBlock, SyncCommit,
           SyncCommitFails, Abort, Call, SaveL0Fails, TruncateFails, PlanFails, CloseAgain,
           SyncLog, SyncLogFails, ProcessEnds, SaveAndCloseFails, Running, local
<1>3. Truncate => SameView
    BY <1>1, TruncateView
<1> QED  BY <1>1, <1>2, <1>3 DEF SameView, VInv, FlushedInv, MergeInv

\* Every step keeps VInv, and what is read unless it writes.
LEMMA NextView ==
    ASSUME IInv, IInv', FInv, VInv, [Next]_vars
    PROVE  /\ VInv'
           /\ Running /\ Running' /\ (pc \notin {"idle", "commit"} \/ mem' = mem) => SameView
<1>1. CASE QuietAction /\ Running'
    BY <1>1, QuietVInv
<1>2. CASE ~Running'
    BY <1>2 DEF Running, VInv, FlushedInv, MergeInv
<1>3. CASE SaveL0 \/ SaveAndClose
    BY <1>3, SaveVInv
<1>4. CASE BuildL0 \/ BuildL0Fails \/ WriteSegmentFails
    BY <1>4, BuildVInv, BuildFailsVInv
<1>5. CASE WriteSegment
    <2>1. /\ VInv' /\ mem' = mem
          /\ \A k \in Keys : TableEntry(man', disk'.files, k) = TableEntry(man, disk.files, k)
        BY <1>5, WriteVInv
    <2> QED  BY <2>1 DEF SameView, Seen
<1>6. CASE PlanCompaction \/ PlanFull
    <2>1. VInv' /\ UNCHANGED <<mem, man, disk>>
        BY <1>6, PlanVInv
    <2> QED  BY <2>1 DEF SameView
<1>7. CASE SwapManifest \/ SwapManifestFails
    BY <1>7, SwapVInv
<1>8. CASE (\E id \in job.old : DeleteOld(id)) \/ Gc
    BY <1>8, RemoveVInv
<1>9. CASE Open
    <2>1. ~Running /\ pc' \in {"down", "idle"}
        BY <1>9 DEF Open, Goto, Running
    <2> QED  BY <2>1 DEF VInv, FlushedInv, MergeInv
<1>10. CASE DropClosed \/ Kill \/ LosePower
    BY <1>2, <1>10 DEF DropClosed, Kill, LosePower, ProcessEnds, Running
<1>11. CASE Get \/ UNCHANGED vars
    <2>1. UNCHANGED <<pc, mem, man, disk, job>>
        BY <1>11 DEF Get, vars, local
    <2> QED  BY <2>1 DEF SameView, VInv, FlushedInv, MergeInv, Compacted
<1> QED
    BY <1>1, <1>2, <1>3, <1>4, <1>5, <1>6, <1>7, <1>8, <1>9, <1>10, <1>11
       DEF Next, QuietAction

\* The three invariants together hold in every reachable state: the files are
\* what the manifests say, and a merge under way shows what it started from
\* (flush, compact, compact_full in src/lib.rs).
THEOREM ViewInvariance == Spec => [](IInv /\ FInv /\ VInv)
<1>1. Init => IInv /\ FInv /\ VInv
    BY InitInvariant, InitFInv DEF Init, VInv, FlushedInv, MergeInv
<1>2. IInv /\ FInv /\ VInv /\ [Next]_vars => (IInv /\ FInv /\ VInv)'
    BY NextInvariant, NextFInv, NextView
<1> QED  BY <1>1, <1>2, PTL DEF Spec

\* No step of flush(), compact(), compact_full(), gc() or close(), and no other
\* step that leaves the memtable alone, changes what get() returns for any key,
\* whatever operation fails: no tombstone that a merge drops uncovers an older
\* value, no record is lost where chunks are cut, no file that is read is removed.
THEOREM MaintenanceAlwaysKeepsView == Spec => MaintenanceKeepsView
<1>1. ASSUME IInv, IInv', FInv, VInv, [Next]_vars, Running, Running',
             pc \notin {"idle", "commit"} \/ mem' = mem
      PROVE  Current' = Current
    <2>1. SameView
        BY <1>1, NextView
    <2> QED  BY <1>1, <2>1, SameCurrent DEF SameView
<1>2. (IInv /\ FInv /\ VInv) /\ (IInv /\ FInv /\ VInv)' /\ [Next]_vars
        => [Running /\ Running' /\ (pc \notin {"idle", "commit"} \/ mem' = mem)
              => Current' = Current]_vars
    BY <1>1
<1> QED  BY <1>2, ViewInvariance, PTL DEF Spec, MaintenanceKeepsView

-----------------------------------------------------------------------------
(* Replaying the log.                                                      *)

\* No record of the log is torn.
Whole(log) == \A i \in 1 .. Len(log) : log[i].op # "torn"

\* The record r gives key k its entry, the transactions of `com' being committed.
Writes(r, com, k) == Applies(r, com) /\ r.key = k

\* Read after other records, with the transactions of `com' committed, the
\* records of b leave the entries of the table t.
Adds(b, com, t) ==
    /\ \A k \in Keys : t[k] = Absent => \A i \in 1 .. Len(b) : ~Writes(b[i], com, k)
    /\ \A k \in Keys : t[k] # Absent =>
            \E i \in 1 .. Len(b) :
                /\ Writes(b[i], com, k) /\ b[i].val = t[k]
                /\ \A j \in 1 .. Len(b) : j > i => ~Writes(b[j], com, k)

\* The records of b commit no transaction that the log a has unfinished.
Unmixed(a, b) ==
    \A i \in 1 .. Len(a) :
        a[i].op = "txput" /\ a[i].tx \in Committed(b) => a[i].tx \in Committed(a)

\* A transaction of which the log has an entry is one that it commits.
Finished(log, t) ==
    \A i \in 1 .. Len(log) : log[i].op = "txput" /\ log[i].tx = t => t \in Committed(log)

\* The transactions that the log names have ids below n.
NamesBelow(log, n) ==
    \A i \in 1 .. Len(log) : log[i].op # "put" => log[i].tx < n

\* Replay reads a log to its end if no record of it is torn, and only then.
LEMMA ReadableWhole ==
    ASSUME NEW log \in Seq(Record)
    PROVE  Readable(log) = Len(log) <=> Whole(log)
<1> DEFINE torn == {i \in DOMAIN log : log[i].op = "torn"}
<1>1. DOMAIN log = 1 .. Len(log) /\ Len(log) \in Nat
    BY LenProperties
<1>2. CASE torn = {}
    BY <1>1, <1>2 DEF Readable, Whole
<1>3. CASE torn # {}
    <2>1. torn \subseteq 1 .. Len(log)
        BY <1>1
    <2>2. IsFiniteSet(1 .. Len(log)) /\ 1 .. Len(log) \subseteq Int
        BY <1>1, FS_Interval
    <2>3. Readable(log) = Min(torn) - 1
        BY <1>3 DEF Readable
    <2>4. PICK i \in 1 .. Len(log) : i = Min(torn) /\ i \in torn
        <3> HIDE DEF torn
        <3>1. Min(torn) \in torn
            BY <1>3, <2>1, <2>2, FS_Subset, FiniteMin
        <3> QED  BY <2>1, <3>1
    <2>5. ~Whole(log)
        BY <2>4 DEF Whole
    <2> QED  BY <1>1, <2>3, <2>4, <2>5
<1> QED  BY <1>2, <1>3

\* The transactions whose Commit record a whole log holds.
LEMMA CommittedWhole ==
    ASSUME NEW log \in Seq(Record), Whole(log), NEW t
    PROVE  t \in Committed(log) <=>
                \E j \in 1 .. Len(log) : log[j].op = "commit" /\ log[j].tx = t
<1>1. Readable(log) = Len(log)
    BY ReadableWhole
<1> QED  BY <1>1 DEF Committed

\* Replay gives a key the entry of the last record that writes it.
LEMMA ReplayLast ==
    ASSUME NEW log \in Seq(Record), Whole(log), NEW k \in Keys
    PROVE  \/ /\ Replay(log)[k] = Absent
              /\ \A i \in 1 .. Len(log) : ~Writes(log[i], Committed(log), k)
           \/ \E i \in 1 .. Len(log) :
                /\ Writes(log[i], Committed(log), k)
                /\ Replay(log)[k] = log[i].val /\ log[i].val \in Entry
                /\ \A j \in 1 .. Len(log) : j > i => ~Writes(log[j], Committed(log), k)
<1> DEFINE applied == {i \in 1 .. Readable(log) : Applies(log[i], Committed(log))}
           ofKey == {i \in applied : log[i].key = k}
<1>1. Readable(log) = Len(log) /\ Len(log) \in Nat
    BY ReadableWhole, LenProperties
<1>2. Replay(log)[k] = IF ofKey = {} THEN Absent ELSE log[Max(ofKey)].val
    BY DEF Replay
<1>3. \A i \in 1 .. Len(log) : i \in ofKey <=> Writes(log[i], Committed(log), k)
    BY <1>1 DEF Writes
<1>4. ofKey \subseteq 1 .. Len(log)
    BY <1>1
<1> HIDE DEF ofKey
<1>5. CASE ofKey = {}
    BY <1>2, <1>3, <1>5
<1>6. CASE ofKey # {}
    <2>1. IsFiniteSet(1 .. Len(log)) /\ 1 .. Len(log) \subseteq Int
        BY <1>1, FS_Interval
    <2>2. Max(ofKey) \in ofKey /\ \A j \in ofKey : Max(ofKey) >= j
        BY <1>4, <1>6, <2>1, FS_Subset, FiniteMax
    <2>3. PICK i \in 1 .. Len(log) : i = Max(ofKey)
        BY <1>4, <2>2
    <2>4. Writes(log[i], Committed(log), k)
        BY <1>3, <2>2, <2>3
    <2>5. log[i] \in Record
        BY ElementOfSeq
    <2>6. log[i].val \in Entry
        BY <2>4, <2>5, RecordFields DEF Writes, Applies
    <2>7. ASSUME NEW j \in 1 .. Len(log), j > i
          PROVE  ~Writes(log[j], Committed(log), k)
        <3>1. j \notin ofKey
            BY <1>1, <2>2, <2>3, <2>7
        <3> QED  BY <1>3, <3>1
    <2> QED  BY <1>2, <1>6, <2>3, <2>4, <2>6, <2>7
<1> QED  BY <1>5, <1>6

\* Replaying one log after another is replaying the first and writing over it
\* what the second adds.
LEMMA ReplayConcat ==
    ASSUME NEW a \in Seq(Record), Whole(a), NEW b \in Seq(Record), Whole(b),
           NEW com, com = Committed(a) \cup Committed(b), Unmixed(a, b),
           NEW t \in Table, Adds(b, com, t)
    PROVE  /\ a \o b \in Seq(Record) /\ Whole(a \o b)
           /\ Committed(a \o b) = com
           /\ Replay(a \o b) = Over(t, Replay(a))
<1> DEFINE c == a \o b
           m == Len(a)
           n == Len(b)
<1>1. m \in Nat /\ n \in Nat
    BY LenProperties
<1>2. /\ c \in Seq(Record) /\ Len(c) = m + n
      /\ \A i \in 1 .. m + n : c[i] = IF i <= m THEN a[i] ELSE b[i - m]
    BY ConcatProperties
<1> HIDE DEF c, m, n
<1>3. /\ \A i \in 1 .. m : i \in 1 .. m + n /\ c[i] = a[i]
      /\ \A i \in 1 .. n : m + i \in 1 .. m + n /\ c[m + i] = b[i]
      /\ \A h \in 1 .. m + n : h \in 1 .. m \/ \E i \in 1 .. n : h = m + i
    <2>1. ASSUME NEW i \in 1 .. n  PROVE m + i \in 1 .. m + n /\ c[m + i] = b[i]
        <3>1. m + i \in 1 .. m + n /\ ~(m + i <= m) /\ (m + i) - m = i
            BY <1>1
        <3> QED  BY <1>2, <3>1
    <2>2. ASSUME NEW h \in 1 .. m + n, h \notin 1 .. m
          PROVE  \E i \in 1 .. n : h = m + i
        <3>1. h - m \in 1 .. n /\ h = m + (h - m)
            BY <1>1, <2>2
        <3> QED  BY <3>1
    <2> QED  BY <1>1, <1>2, <2>1, <2>2
<1>4. Whole(c)
    <2>1. (\A i \in 1 .. m : a[i].op # "torn") /\ \A i \in 1 .. n : b[i].op # "torn"
        BY DEF Whole, m, n
    <2>2. \A h \in 1 .. m + n : c[h].op # "torn"
        BY <1>3, <2>1
    <2> QED  BY <1>2, <2>2 DEF Whole
<1>5. Committed(c) = com
    <2>1. \A x : x \in Committed(c) <=> \E j \in 1 .. m + n : c[j].op = "commit" /\ c[j].tx = x
        BY <1>2, <1>4, CommittedWhole
    <2>2. \A x : x \in Committed(a) <=> \E j \in 1 .. m : a[j].op = "commit" /\ a[j].tx = x
        BY CommittedWhole DEF m
    <2>3. \A x : x \in Committed(b) <=> \E j \in 1 .. n : b[j].op = "commit" /\ b[j].tx = x
        BY CommittedWhole DEF n
    <2>4. ASSUME NEW x \in Committed(c)  PROVE x \in com
        <3>1. PICK j \in 1 .. m + n : c[j].op = "commit" /\ c[j].tx = x
            BY <2>1
        <3> QED  BY <1>3, <2>2, <2>3, <3>1
    <2>5. ASSUME NEW x \in com  PROVE x \in Committed(c)
        BY <1>3, <2>1, <2>2, <2>3
    <2> QED  BY <2>4, <2>5
<1>6. ASSUME NEW k \in Keys
      PROVE  Replay(c)[k] = IF t[k] # Absent THEN t[k] ELSE Replay(a)[k]
    <2>1. \A i \in 1 .. m : Writes(c[i], com, k) <=> Writes(a[i], Committed(a), k)
        BY <1>3 DEF Writes, Applies, Unmixed, m
    <2>2. \/ /\ Replay(c)[k] = Absent
             /\ \A i \in 1 .. m + n : ~Writes(c[i], com, k)
          \/ \E i \in 1 .. m + n :
                /\ Writes(c[i], com, k) /\ Replay(c)[k] = c[i].val
                /\ \A j \in 1 .. m + n : j > i => ~Writes(c[j], com, k)
        <3>1. \/ /\ Replay(c)[k] = Absent
                 /\ \A i \in 1 .. Len(c) : ~Writes(c[i], Committed(c), k)
              \/ \E i \in 1 .. Len(c) :
                    /\ Writes(c[i], Committed(c), k)
                    /\ Replay(c)[k] = c[i].val /\ c[i].val \in Entry
                    /\ \A j \in 1 .. Len(c) : j > i => ~Writes(c[j], Committed(c), k)
            BY <1>2, <1>4, ReplayLast
        <3>2. Len(c) = m + n /\ Committed(c) = com
            BY <1>2, <1>5
        <3>3. CASE \A i \in 1 .. Len(c) : ~Writes(c[i], Committed(c), k)
            BY <3>1, <3>2, <3>3
        <3>4. CASE \E i \in 1 .. Len(c) : Writes(c[i], Committed(c), k)
            <4>1. PICK i \in 1 .. Len(c) :
                    /\ Writes(c[i], Committed(c), k) /\ Replay(c)[k] = c[i].val
                    /\ \A j \in 1 .. Len(c) : j > i => ~Writes(c[j], Committed(c), k)
                BY <3>1, <3>4
            <4>2. i \in 1 .. m + n /\ Writes(c[i], com, k)
                BY <3>2, <4>1
            <4>3. \A j \in 1 .. m + n : j > i => ~Writes(c[j], com, k)
                BY <3>2, <4>1
            <4> QED  BY <4>1, <4>2, <4>3
        <3> QED  BY <3>3, <3>4
    <2>3. CASE t[k] # Absent
        <3>1. PICK i \in 1 .. n :
                /\ Writes(b[i], com, k) /\ b[i].val = t[k]
                /\ \A j \in 1 .. n : j > i => ~Writes(b[j], com, k)
            BY <2>3 DEF n, Adds
        <3>2. m + i \in 1 .. m + n /\ Writes(c[m + i], com, k)
            BY <1>3, <3>1
        <3>3. PICK h \in 1 .. m + n :
                /\ Writes(c[h], com, k) /\ Replay(c)[k] = c[h].val
                /\ \A j \in 1 .. m + n : j > h => ~Writes(c[j], com, k)
            BY <2>2, <3>2
        <3>4. ~(m + i > h)
            BY <3>2, <3>3
        <3>5. PICK j \in 1 .. n : h = m + j
            BY <1>1, <1>3, <3>4
        <3>6. ~(j > i)
            BY <1>3, <3>1, <3>3, <3>5
        <3>7. h = m + i
            BY <1>1, <3>4, <3>5, <3>6
        <3> QED  BY <1>3, <2>3, <3>1, <3>3, <3>7
    <2>4. CASE t[k] = Absent
        <3>1. \A i \in 1 .. n : ~Writes(c[m + i], com, k)
            BY <1>3, <2>4 DEF n, Adds
        <3>2. CASE \A i \in 1 .. m : ~Writes(a[i], Committed(a), k)
            <4>1. Replay(a)[k] = Absent
                BY <3>2, ReplayLast DEF m
            <4>2. \A h \in 1 .. m + n : ~Writes(c[h], com, k)
                BY <1>3, <2>1, <3>1, <3>2
            <4> QED  BY <2>2, <2>4, <4>1, <4>2
        <3>3. CASE \E i \in 1 .. m : Writes(a[i], Committed(a), k)
            <4>1. PICK i \in 1 .. m :
                    /\ Writes(a[i], Committed(a), k) /\ Replay(a)[k] = a[i].val
                    /\ \A j \in 1 .. m : j > i => ~Writes(a[j], Committed(a), k)
                BY <3>3, ReplayLast DEF m
            <4>2. i \in 1 .. m + n /\ Writes(c[i], com, k)
                BY <1>3, <2>1, <4>1
            <4>3. PICK h \in 1 .. m + n :
                    /\ Writes(c[h], com, k) /\ Replay(c)[k] = c[h].val
                    /\ \A j \in 1 .. m + n : j > h => ~Writes(c[j], com, k)
                BY <2>2, <4>2
            <4>4. h \in 1 .. m
                BY <1>3, <3>1, <4>3
            <4>5. ~(h > i) /\ ~(i > h)
                BY <2>1, <4>1, <4>2, <4>3, <4>4
            <4>6. h = i
                BY <1>1, <4>4, <4>5
            <4> QED  BY <1>3, <2>4, <4>1, <4>3, <4>6
        <3> QED  BY <3>2, <3>3
    <2> QED  BY <2>3, <2>4
<1>7. Replay(c) = Over(t, Replay(a))
    <2>1. Replay(c) = [k \in Keys |-> Replay(c)[k]]
        BY <1>2, ReplayOK DEF Table
    <2> QED  BY <1>6, <2>1 DEF Over
<1> QED  BY <1>2, <1>4, <1>5, <1>7 DEF c

\* put() and delete() add a record; it says what replay finds of its key.
LEMMA ReplayPut ==
    ASSUME NEW a \in Seq(Record), Whole(a), NEW k \in Keys, NEW e \in Entry
    PROVE  LET c == a \o <<PutRec(k, e)>>
           IN  /\ c \in Seq(Record) /\ Whole(c) /\ Committed(c) = Committed(a)
               /\ Replay(c) = [Replay(a) EXCEPT ![k] = e]
<1> DEFINE b == <<PutRec(k, e)>>
           t == [j \in Keys |-> IF j = k THEN e ELSE Absent]
<1>1. b \in Seq(Record) /\ Len(b) = 1 /\ b[1] = PutRec(k, e)
    BY RecordsOK
<1>2. PutRec(k, e).op = "put" /\ PutRec(k, e).key = k /\ PutRec(k, e).val = e
    BY DEF PutRec
<1> HIDE DEF b
<1>3. Whole(b)
    BY <1>1, <1>2 DEF Whole
<1>4. Committed(b) = {}
    BY <1>1, <1>2, <1>3, CommittedWhole
<1>5. t \in Table /\ e # Absent
    BY EntryAssumption DEF Table, Entry
<1>6. \A j \in Keys : Writes(b[1], Committed(a), j) <=> j = k
    BY <1>1, <1>2 DEF Writes, Applies
<1>7. \A j \in Keys : t[j] = Absent => \A i \in 1 .. Len(b) : ~Writes(b[i], Committed(a), j)
    BY <1>1, <1>5, <1>6
<1>8. ASSUME NEW j \in Keys, t[j] # Absent
      PROVE  \E i \in 1 .. Len(b) :
                /\ Writes(b[i], Committed(a), j) /\ b[i].val = t[j]
                /\ \A h \in 1 .. Len(b) : h > i => ~Writes(b[h], Committed(a), j)
    <2>1. 1 \in 1 .. Len(b) /\ \A h \in 1 .. Len(b) : ~(h > 1)
        BY <1>1
    <2>2. Writes(b[1], Committed(a), j) /\ b[1].val = t[j]
        BY <1>1, <1>2, <1>6, <1>8
    <2> QED  BY <2>1, <2>2
<1> HIDE DEF t
<1>9. Committed(a) = Committed(a) \cup Committed(b) /\ Unmixed(a, b) /\ Adds(b, Committed(a), t)
    BY <1>4, <1>7, <1>8 DEF Unmixed, Adds
<1>10. /\ a \o b \in Seq(Record) /\ Whole(a \o b)
       /\ Committed(a \o b) = Committed(a)
       /\ Replay(a \o b) = Over(t, Replay(a))
    BY <1>1, <1>3, <1>5, <1>9, ReplayConcat
<1>11. Over(t, Replay(a)) = [Replay(a) EXCEPT ![k] = e]
    BY <1>5, ReplayOK DEF Over, Table, t
<1> QED  BY <1>10, <1>11 DEF b

\* The records of a block: Begin, one record for each entry in key order, Commit.
LEMMA TxRecordsAre ==
    ASSUME NEW t \in Nat, NEW b \in Table
    PROVE  LET r == TxRecords(t, b)
           IN  /\ r[1] = BeginRec(t) /\ r[Size(b) + 2] = CommitRec(t)
               /\ \A i \in 1 .. Size(b) : \E k \in KeysOf(b) :
                    Rank(b, k) = i /\ r[i + 1] = TxRec(t, k, b[k])
<1> DEFINE key(i) == CHOOSE k \in KeysOf(b) : Rank(b, k) = i
           n == Size(b)
           entries == [i \in 1 .. n |-> TxRec(t, key(i), b[key(i)])]
           r == TxRecords(t, b)
           first == <<BeginRec(t)>> \o entries
<1>1. \A i \in 1 .. n : key(i) \in KeysOf(b) /\ Rank(b, key(i)) = i
    BY RankOnto
<1>2. \A k \in KeysOf(b) : k \in Keys /\ b[k] \in Entry
    BY DEF KeysOf, Table
<1>3. \A i \in 1 .. n : TxRec(t, key(i), b[key(i)]) \in Record
    <2> HIDE DEF key, n
    <2> QED  BY <1>1, <1>2, RecordsOK
<1>4. n \in Nat
    BY TableKeys
<1>5. entries \in [1 .. n -> Record] /\ \A i \in 1 .. n : entries[i] = TxRec(t, key(i), b[key(i)])
    <2> HIDE DEF key, n
    <2> QED  BY <1>3
<1>6. r = first \o <<CommitRec(t)>>
    BY DEF TxRecords
<1> HIDE DEF entries, n, key, r
<1>7. entries \in Seq(Record) /\ Len(entries) = n
    BY <1>4, <1>5, SeqDef
<1>8. /\ <<BeginRec(t)>> \in Seq(Record) /\ Len(<<BeginRec(t)>>) = 1
      /\ <<CommitRec(t)>> \in Seq(Record) /\ Len(<<CommitRec(t)>>) = 1
      /\ <<BeginRec(t)>>[1] = BeginRec(t) /\ <<CommitRec(t)>>[1] = CommitRec(t)
    BY RecordsOK
<1>9. /\ first \in Seq(Record) /\ Len(first) = 1 + n
      /\ \A i \in 1 .. 1 + n :
            first[i] = IF i <= 1 THEN <<BeginRec(t)>>[i] ELSE entries[i - 1]
    BY <1>7, <1>8, ConcatProperties
<1> HIDE DEF first
<1>10. \A i \in 1 .. (1 + n) + 1 :
            r[i] = IF i <= 1 + n THEN first[i] ELSE <<CommitRec(t)>>[i - (1 + n)]
    BY <1>6, <1>8, <1>9, ConcatProperties
<1>11. r[1] = BeginRec(t)
    BY <1>4, <1>8, <1>9, <1>10
<1>12. r[n + 2] = CommitRec(t)
    <2>1. n + 2 \in 1 .. (1 + n) + 1 /\ ~(n + 2 <= 1 + n) /\ (n + 2) - (1 + n) = 1
        BY <1>4
    <2> QED  BY <1>8, <1>10, <2>1
<1>13. ASSUME NEW i \in 1 .. n
       PROVE  r[i + 1] = TxRec(t, key(i), b[key(i)])
    <2>1. /\ i + 1 \in 1 .. (1 + n) + 1 /\ i + 1 <= 1 + n /\ i + 1 \in 1 .. 1 + n
          /\ ~(i + 1 <= 1) /\ (i + 1) - 1 = i
        BY <1>4
    <2> QED  BY <1>5, <1>9, <1>10, <2>1
<1>14. \A i \in 1 .. n : \E k \in KeysOf(b) : Rank(b, k) = i /\ r[i + 1] = TxRec(t, k, b[k])
    BY <1>1, <1>13
<1> QED  BY <1>11, <1>12, <1>14 DEF n, r

\* A beginning of a log.
LEMMA PrefixOK ==
    ASSUME NEW log \in Seq(Record), NEW n \in 0 .. Len(log)
    PROVE  LET p == SubSeq(log, 1, n)
           IN  /\ p \in Seq(Record) /\ Len(p) = n
               /\ \A i \in 1 .. n : p[i] = log[i]
               /\ Whole(log) => Whole(p)
<1> DEFINE p == SubSeq(log, 1, n)
<1>1. Len(log) \in Nat /\ n \in Int /\ \A i \in 1 .. n : i \in 1 .. Len(log) /\ log[i] \in Record
    BY LenProperties, ElementOfSeq
<1>2. /\ p \in Seq(Record) /\ Len(p) = IF 1 <= n THEN n - 1 + 1 ELSE 0
      /\ \A i \in 1 .. n - 1 + 1 : p[i] = log[1 + i - 1]
    BY <1>1, SubSeqProperties
<1> HIDE DEF p
<1>3. Len(p) = n /\ \A i \in 1 .. n : p[i] = log[i]
    BY <1>1, <1>2
<1>4. Whole(log) => Whole(p)
    BY <1>1, <1>3 DEF Whole
<1> QED  BY <1>2, <1>3, <1>4 DEF p

\* The beginnings of a beginning are beginnings of the log.
LEMMA PrefixOfPrefix ==
    ASSUME NEW log \in Seq(Record), NEW n \in 0 .. Len(log), NEW m \in 0 .. n
    PROVE  SubSeq(SubSeq(log, 1, n), 1, m) = SubSeq(log, 1, m)
<1> DEFINE p == SubSeq(log, 1, n)
           q == SubSeq(log, 1, m)
           r == SubSeq(p, 1, m)
<1>1. p \in Seq(Record) /\ Len(p) = n /\ \A i \in 1 .. n : p[i] = log[i]
    BY PrefixOK
<1>2. m \in 0 .. Len(log) /\ \A i \in 1 .. m : i \in 1 .. n
    BY LenProperties
<1>3. q \in Seq(Record) /\ Len(q) = m /\ \A i \in 1 .. m : q[i] = log[i]
    BY <1>2, PrefixOK
<1> HIDE DEF p, q
<1>4. r \in Seq(Record) /\ Len(r) = m /\ \A i \in 1 .. m : r[i] = p[i]
    BY <1>1, PrefixOK
<1> HIDE DEF r
<1>5. r = q
    BY <1>1, <1>2, <1>3, <1>4, SeqEqual
<1> QED  BY <1>5 DEF p, q, r

\* The beginnings of a log that grew are those it had, and then all of it with
\* a beginning of what was added.
LEMMA ConcatPrefix ==
    ASSUME NEW a \in Seq(Record), NEW b \in Seq(Record), NEW n \in 0 .. Len(a \o b)
    PROVE  /\ Len(a \o b) = Len(a) + Len(b)
           /\ n <= Len(a) => SubSeq(a \o b, 1, n) = SubSeq(a, 1, n)
           /\ n > Len(a) => /\ n - Len(a) \in 1 .. Len(b)
                            /\ SubSeq(a \o b, 1, n) = a \o SubSeq(b, 1, n - Len(a))
<1> DEFINE c == a \o b
           l == Len(a)
           m == Len(b)
           q == SubSeq(c, 1, n)
<1>1. l \in Nat /\ m \in Nat
    BY LenProperties
<1>2. /\ c \in Seq(Record) /\ Len(c) = l + m
      /\ \A i \in 1 .. l + m : c[i] = IF i <= l THEN a[i] ELSE b[i - l]
    BY ConcatProperties
<1>3. q \in Seq(Record) /\ Len(q) = n /\ \A i \in 1 .. n : q[i] = c[i]
    BY <1>2, PrefixOK
<1> HIDE DEF q, c
<1>4. ASSUME n <= l
      PROVE  q = SubSeq(a, 1, n)
    <2> DEFINE p == SubSeq(a, 1, n)
    <2>1. p \in Seq(Record) /\ Len(p) = n /\ \A i \in 1 .. n : p[i] = a[i]
        BY <1>1, <1>4, PrefixOK
    <2> HIDE DEF p, l, m
    <2>2. \A i \in 1 .. n : q[i] = p[i]
        BY <1>1, <1>2, <1>3, <1>4, <2>1
    <2>3. q = p
        BY <1>3, <2>1, <2>2, SeqEqual
    <2> QED  BY <2>3 DEF p
<1>5. ASSUME n > l
      PROVE  n - l \in 1 .. m /\ q = a \o SubSeq(b, 1, n - l)
    <2> DEFINE p == SubSeq(b, 1, n - l)
               r == a \o p
    <2>1. n \in 0 .. l + m
        BY <1>2 DEF c
    <2>2. n - l \in 1 .. m /\ n - l \in 0 .. m
        BY <1>1, <1>5, <2>1
    <2>3. p \in Seq(Record) /\ Len(p) = n - l /\ \A i \in 1 .. n - l : p[i] = b[i]
        BY <2>2, PrefixOK
    <2> HIDE DEF p
    <2>4. /\ r \in Seq(Record) /\ Len(r) = l + (n - l)
          /\ \A i \in 1 .. l + (n - l) : r[i] = IF i <= l THEN a[i] ELSE p[i - l]
        BY <2>3, ConcatProperties
    <2> HIDE DEF r, l, m
    <2>5. l + (n - l) = n
        BY <1>1, <2>1
    <2>6. ASSUME NEW i \in 1 .. n  PROVE q[i] = r[i]
        <3>1. i \in 1 .. l + m /\ q[i] = c[i]
            BY <1>1, <1>3, <2>1, <2>6
        <3>2. ~(i <= l) => i - l \in 1 .. n - l
            BY <1>1, <2>1, <2>6
        <3> QED  BY <1>2, <2>3, <2>4, <2>5, <2>6, <3>1, <3>2
    <2>7. q = r
        BY <1>3, <2>4, <2>5, <2>6, SeqEqual
    <2> QED  BY <2>2, <2>7 DEF r, p
<1> QED  BY <1>2, <1>4, <1>5 DEF q, c

\* A beginning of a transaction's block commits it only if it is all of it.
LEMMA BlockPart ==
    ASSUME NEW t \in Nat, NEW b \in Table, NEW n \in 0 .. Size(b) + 2
    PROVE  LET p == SubSeq(TxRecords(t, b), 1, n)
           IN  /\ p \in Seq(Record) /\ Len(p) = n /\ Whole(p)
               /\ \A i \in 1 .. n : p[i].tx = t /\ p[i].op # "put"
               /\ n = Size(b) + 2 => Committed(p) = {t}
               /\ n # Size(b) + 2 => Committed(p) = {}
<1> DEFINE r == TxRecords(t, b)
           s == Size(b)
           p == SubSeq(r, 1, n)
<1>1. r \in Seq(Record) /\ Len(r) = s + 2 /\ s \in Nat
    BY TxRecordsOK, TableKeys
<1>2. /\ r[1] = BeginRec(t) /\ r[s + 2] = CommitRec(t)
      /\ \A i \in 1 .. s : \E k \in KeysOf(b) :
            Rank(b, k) = i /\ r[i + 1] = TxRec(t, k, b[k])
    BY TxRecordsAre
<1>3. p \in Seq(Record) /\ Len(p) = n /\ \A i \in 1 .. n : p[i] = r[i]
    BY <1>1, PrefixOK
<1> HIDE DEF r, s, p
<1>4. n \in Nat /\ n <= s + 2
    BY <1>1 DEF s
<1>5. ASSUME NEW i \in 1 .. s + 2
      PROVE  /\ r[i].tx = t /\ r[i].op \in {"begin", "txput", "commit"}
             /\ r[i].op = "commit" <=> i = s + 2
    <2>1. CASE i = 1
        BY <1>1, <1>2, <2>1 DEF BeginRec
    <2>2. CASE i = s + 2
        BY <1>1, <1>2, <2>2 DEF CommitRec
    <2>3. CASE i # 1 /\ i # s + 2
        <3>1. i - 1 \in 1 .. s /\ (i - 1) + 1 = i
            BY <1>1, <2>3
        <3>2. PICK k \in KeysOf(b) : r[i] = TxRec(t, k, b[k])
            BY <1>2, <3>1
        <3> QED  BY <2>3, <3>2 DEF TxRec
    <2> QED  BY <2>1, <2>2, <2>3
<1>6. \A i \in 1 .. n : i \in 1 .. s + 2
    BY <1>1, <1>4
<1>7. \A i \in 1 .. n : /\ p[i].tx = t /\ p[i].op \in {"begin", "txput", "commit"}
                        /\ p[i].op = "commit" <=> i = s + 2
    BY <1>3, <1>5, <1>6
<1>8. Whole(p)
    BY <1>3, <1>7 DEF Whole
<1>9. \A x : x \in Committed(p) <=> \E j \in 1 .. n : p[j].op = "commit" /\ p[j].tx = x
    BY <1>3, <1>8, CommittedWhole
<1>10. CASE n = s + 2
    <2>1. n \in 1 .. n
        BY <1>1, <1>10
    <2>2. \A x : x \in Committed(p) <=> x = t
        BY <1>7, <1>9, <1>10, <2>1
    <2>3. Committed(p) = {t}
        BY <2>2
    <2> QED  BY <1>3, <1>7, <1>8, <1>10, <2>3 DEF p, r, s
<1>11. CASE n # s + 2
    <2>1. \A i \in 1 .. n : i # s + 2
        BY <1>1, <1>4, <1>11
    <2>2. Committed(p) = {}
        BY <1>7, <1>9, <2>1
    <2> QED  BY <1>3, <1>7, <1>8, <1>11, <2>2 DEF p, r, s
<1> QED  BY <1>10, <1>11

\* A commit's block writes its batch over what the log had, unless the log has
\* records of an earlier transaction of that id which was not committed.
LEMMA ReplayBlock ==
    ASSUME NEW a \in Seq(Record), Whole(a), NEW t \in Nat, NEW b \in Table,
           Finished(a, t)
    PROVE  LET c == a \o TxRecords(t, b)
           IN  /\ c \in Seq(Record) /\ Whole(c)
               /\ Committed(c) = Committed(a) \cup {t}
               /\ Replay(c) = Over(b, Replay(a))
<1> DEFINE r == TxRecords(t, b)
           s == Size(b)
           com == Committed(a) \cup {t}
<1>1. r \in Seq(Record) /\ Len(r) = s + 2 /\ s \in Nat
    BY TxRecordsOK, TableKeys
<1>2. SubSeq(r, 1, s + 2) = r
    BY <1>1, SubSeqFull
<1>3. Whole(r) /\ Committed(r) = {t}
    <2>1. Size(b) + 2 \in 0 .. Size(b) + 2
        BY <1>1
    <2>2. LET p == SubSeq(TxRecords(t, b), 1, Size(b) + 2)
          IN  Whole(p) /\ Committed(p) = {t}
        BY <2>1, BlockPart
    <2> QED  BY <1>2, <2>2
<1>4. /\ r[1] = BeginRec(t) /\ r[s + 2] = CommitRec(t)
      /\ \A i \in 1 .. s : \E k \in KeysOf(b) :
            Rank(b, k) = i /\ r[i + 1] = TxRec(t, k, b[k])
    BY TxRecordsAre
<1> HIDE DEF r, s
<1>5. ASSUME NEW i \in 1 .. s + 2, NEW k \in Keys, Writes(r[i], com, k)
      PROVE  k \in KeysOf(b) /\ i = Rank(b, k) + 1
    <2>1. i # 1 /\ i # s + 2
        BY <1>4, <1>5 DEF Writes, Applies, BeginRec, CommitRec
    <2>2. i - 1 \in 1 .. s /\ (i - 1) + 1 = i
        BY <1>1, <2>1
    <2>3. PICK j \in KeysOf(b) : Rank(b, j) = i - 1 /\ r[i] = TxRec(t, j, b[j])
        BY <1>4, <2>2
    <2>4. j = k
        BY <1>5, <2>3 DEF Writes, TxRec
    <2> QED  BY <2>2, <2>3, <2>4
<1>6. ASSUME NEW k \in KeysOf(b)
      PROVE  \E i \in 1 .. Len(r) :
                /\ Writes(r[i], com, k) /\ r[i].val = b[k]
                /\ \A j \in 1 .. Len(r) : j > i => ~Writes(r[j], com, k)
    <2>1. k \in Int /\ k \in Keys /\ \A j \in KeysOf(b) : j \in Int
        BY TableKeys
    <2>2. Rank(b, k) \in 1 .. s
        <3>1. k \in {j \in KeysOf(b) : j <= k}
            BY <2>1
        <3>2. IsFiniteSet({j \in KeysOf(b) : j <= k})
            BY TableKeys, FS_Subset
        <3>3. Rank(b, k) # 0
            BY <3>1, <3>2, FS_EmptySet DEF Rank
        <3>4. Rank(b, k) \in 0 .. s
            BY <2>1, RankMonotone DEF s
        <3> QED  BY <1>1, <3>3, <3>4
    <2>3. PICK j \in KeysOf(b) : Rank(b, j) = Rank(b, k) /\ r[Rank(b, k) + 1] = TxRec(t, j, b[j])
        BY <1>4, <2>2
    <2>4. j = k
        <3>1. k < j => Rank(b, k) < Rank(b, j)
            BY <2>1, RankMonotone
        <3>2. j < k => Rank(b, j) < Rank(b, k)
            BY <2>1, RankMonotone
        <3> QED  BY <2>1, <2>2, <2>3, <3>1, <3>2
    <2>5. Rank(b, k) + 1 \in 1 .. s + 2
        BY <1>1, <2>2
    <2>6. Writes(r[Rank(b, k) + 1], com, k) /\ r[Rank(b, k) + 1].val = b[k]
        BY <2>3, <2>4 DEF Writes, Applies, TxRec
    <2>7. \A h \in 1 .. s + 2 : h > Rank(b, k) + 1 => ~Writes(r[h], com, k)
        <3> SUFFICES ASSUME NEW h \in 1 .. s + 2, h > Rank(b, k) + 1, Writes(r[h], com, k)
                     PROVE  FALSE
            OBVIOUS
        <3>1. h = Rank(b, k) + 1
            BY <1>5, <2>1
        <3> QED  BY <1>1, <2>5, <3>1
    <2> QED  BY <1>1, <2>5, <2>6, <2>7
<1>7. \A k \in Keys : b[k] = Absent => \A i \in 1 .. Len(r) : ~Writes(r[i], com, k)
    BY <1>1, <1>5 DEF KeysOf
<1>8. \A k \in Keys : b[k] # Absent =>
        \E i \in 1 .. Len(r) :
            /\ Writes(r[i], com, k) /\ r[i].val = b[k]
            /\ \A j \in 1 .. Len(r) : j > i => ~Writes(r[j], com, k)
    BY <1>6 DEF KeysOf
<1>9. Unmixed(a, r) /\ Adds(r, com, b)
    BY <1>3, <1>7, <1>8 DEF Unmixed, Adds, Finished
<1>10. com = Committed(a) \cup Committed(r)
    BY <1>3
<1> HIDE DEF com
<1>11. /\ a \o r \in Seq(Record) /\ Whole(a \o r)
       /\ Committed(a \o r) = com
       /\ Replay(a \o r) = Over(b, Replay(a))
    BY <1>1, <1>3, <1>9, <1>10, ReplayConcat
<1> QED  BY <1>11 DEF r, com

\* A block without its Commit record is skipped (a torn or unfinished commit).
LEMMA ReplayPart ==
    ASSUME NEW a \in Seq(Record), Whole(a), NEW t \in Nat, t \notin Committed(a),
           NEW b \in Table, NEW n \in 0 .. Size(b) + 1
    PROVE  LET c == a \o SubSeq(TxRecords(t, b), 1, n)
           IN  /\ c \in Seq(Record) /\ Whole(c)
               /\ Committed(c) = Committed(a)
               /\ Replay(c) = Replay(a)
<1> DEFINE p == SubSeq(TxRecords(t, b), 1, n)
<1>1. Size(b) \in Nat /\ n \in 0 .. Size(b) + 2 /\ n # Size(b) + 2
    BY TableKeys
<1>2. /\ p \in Seq(Record) /\ Len(p) = n /\ Whole(p)
      /\ \A i \in 1 .. n : p[i].tx = t /\ p[i].op # "put"
      /\ Committed(p) = {}
    <2>1. n # Size(b) + 2 => Committed(p) = {}
        BY <1>1, BlockPart
    <2> QED  BY <1>1, <2>1, BlockPart
<1> HIDE DEF p
<1>3. \A i \in 1 .. Len(p) : \A k \in Keys : ~Writes(p[i], Committed(a), k)
    BY <1>2 DEF Writes, Applies
<1>4. EmptyTable \in Table /\ \A k \in Keys : EmptyTable[k] = Absent
    BY EmptyTableOK DEF EmptyTable
<1>5. Committed(a) = Committed(a) \cup Committed(p)
    BY <1>2
<1>6. Unmixed(a, p) /\ Adds(p, Committed(a), EmptyTable)
    BY <1>2, <1>3, <1>4 DEF Unmixed, Adds
<1>7. /\ a \o p \in Seq(Record) /\ Whole(a \o p)
      /\ Committed(a \o p) = Committed(a)
      /\ Replay(a \o p) = Over(EmptyTable, Replay(a))
    BY <1>2, <1>4, <1>5, <1>6, ReplayConcat
<1>8. Over(EmptyTable, Replay(a)) = Replay(a)
    BY <1>4, ReplayOK DEF Over, Table
<1> QED  BY <1>7, <1>8 DEF p

\* Every transaction that a whole log names has an id that replay reports.
LEMMA MaxTxIdAbove ==
    ASSUME NEW log \in Seq(Record), Whole(log), NEW i \in 1 .. Len(log), log[i].op # "put"
    PROVE  log[i].tx \in Nat /\ log[i].tx < MaxTxId(log) + 1
<1> DEFINE I == {j \in 1 .. Readable(log) : log[j].op \in {"begin", "txput", "commit"}}
           T == {log[j].tx : j \in I}
           f == [j \in I |-> log[j].tx]
<1>1. Readable(log) = Len(log) /\ Len(log) \in Nat
    BY ReadableWhole, LenProperties
<1>2. \A j \in 1 .. Len(log) : log[j] \in Record
    BY ElementOfSeq
<1>3. \A j \in I : log[j].tx \in Nat
    BY <1>1, <1>2, RecordFields
<1>4. i \in I
    <2>1. log[i].op \in {"put", "txput", "begin", "commit", "torn"}
        BY <1>2 DEF Record, Torn
    <2> QED  BY <1>1, <2>1 DEF Whole
<1>5. IsFiniteSet(I)
    <2>1. I \subseteq 1 .. Len(log) /\ IsFiniteSet(1 .. Len(log))
        BY <1>1, FS_Interval
    <2> HIDE DEF I
    <2> QED  BY <2>1, FS_Subset
<1>6. MaxTxId(log) = Max({0} \cup T)
    BY DEF MaxTxId
<1> HIDE DEF I
<1>7. IsFiniteSet(T) /\ T \subseteq Nat /\ log[i].tx \in T
    <2>1. f \in Surjection(I, T)
        BY DEF Surjection
    <2>2. T \subseteq Nat /\ log[i].tx \in T
        BY <1>3, <1>4
    <2> HIDE DEF f, T
    <2> QED  BY <1>5, <2>1, <2>2, FS_Surjection
<1> HIDE DEF T
<1>8. IsFiniteSet({0} \cup T) /\ {0} \cup T \in SUBSET Int /\ {0} \cup T # {}
    BY <1>7, FS_AddElement
<1>9. Max({0} \cup T) >= log[i].tx
    BY <1>7, <1>8, FiniteMax
<1>10. log[i].tx \in Nat /\ MaxTxId(log) \in Nat
    BY <1>7, MaxTxIdOK
<1> QED  BY <1>6, <1>9, <1>10

\* What an empty log replays to.
LEMMA ReplayNothing ==
    /\ <<>> \in Seq(Record) /\ Whole(<<>>) /\ Committed(<<>>) = {}
    /\ Replay(<<>>) = EmptyTable
<1>1. <<>> \in Seq(Record) /\ Len(<<>>) = 0 /\ 1 .. 0 = {}
    BY EmptySeq
<1>2. Whole(<<>>)
    BY <1>1 DEF Whole
<1>3. Committed(<<>>) = {}
    BY <1>1, <1>2, CommittedWhole
<1>4. \A k \in Keys : Replay(<<>>)[k] = Absent
    BY <1>1, <1>2, ReplayLast
<1>5. Replay(<<>>) \in Table
    BY <1>1, ReplayOK
<1>6. Replay(<<>>) = EmptyTable
    BY <1>4, <1>5 DEF EmptyTable, Table
<1> QED  BY <1>1, <1>2, <1>3, <1>6

\* If nothing of a log applies, nothing of its beginnings does.
LEMMA ReplayPrefixEmpty ==
    ASSUME NEW log \in Seq(Record), Whole(log), Replay(log) = EmptyTable,
           NEW n \in 0 .. Len(log)
    PROVE  Replay(SubSeq(log, 1, n)) = EmptyTable
<1> DEFINE p == SubSeq(log, 1, n)
<1>1. p \in Seq(Record) /\ Len(p) = n /\ Whole(p) /\ \A i \in 1 .. n : p[i] = log[i]
    BY PrefixOK
<1>2. Len(log) \in Nat /\ \A i \in 1 .. n : i \in 1 .. Len(log)
    BY LenProperties
<1> HIDE DEF p
<1>3. \A x : x \in Committed(p) => x \in Committed(log)
    <2>1. \A x : x \in Committed(p) <=> \E j \in 1 .. n : p[j].op = "commit" /\ p[j].tx = x
        BY <1>1, CommittedWhole
    <2>2. \A x : x \in Committed(log) <=>
            \E j \in 1 .. Len(log) : log[j].op = "commit" /\ log[j].tx = x
        BY CommittedWhole
    <2> QED  BY <1>1, <1>2, <2>1, <2>2
<1>4. ASSUME NEW k \in Keys
      PROVE  Replay(p)[k] = Absent
    <2>1. \A i \in 1 .. Len(log) : ~Writes(log[i], Committed(log), k)
        <3>1. Replay(log)[k] = Absent
            BY DEF EmptyTable
        <3>2. Absent \notin Entry
            BY EntryAssumption DEF Entry
        <3> QED  BY <3>1, <3>2, ReplayLast
    <2>2. \A i \in 1 .. n : ~Writes(p[i], Committed(p), k)
        BY <1>1, <1>2, <1>3, <2>1 DEF Writes, Applies
    <2> QED  BY <1>1, <2>2, ReplayLast
<1>5. Replay(p) = EmptyTable
    BY <1>1, <1>4, ReplayOK DEF EmptyTable, Table
<1> QED  BY <1>5 DEF p

\* Operations on manifests and table files leave the log alone, and the ones on
\* the log leave those alone.
LEMMA LogKept ==
    ASSUME NEW d, IsDisk(d)
    PROVE  /\ \A m : LET e == [d EXCEPT !.man = m]
                     IN  e.wal = d.wal /\ e.synced = d.synced
           /\ \A id, t : /\ WithFile(d, id, t).wal = d.wal
                         /\ WithFile(d, id, t).synced = d.synced
           /\ \A ids : /\ WithoutFiles(d, ids).wal = d.wal
                       /\ WithoutFiles(d, ids).synced = d.synced
           /\ \A log : LET e == [d EXCEPT !.wal = log]
                       IN  /\ e.wal = log /\ e.synced = d.synced
                           /\ e.man = d.man /\ e.files = d.files
           /\ \A n : LET e == [d EXCEPT !.synced = n]
                     IN  /\ e.wal = d.wal /\ e.synced = n
                         /\ e.man = d.man /\ e.files = d.files
<1>1. d = [man |-> d.man, files |-> d.files, wal |-> d.wal, synced |-> d.synced]
    BY DEF IsDisk
<1>2. \A f : LET e == [d EXCEPT !.files = f] IN e.wal = d.wal /\ e.synced = d.synced
    BY <1>1
<1>3. \A m : LET e == [d EXCEPT !.man = m] IN e.wal = d.wal /\ e.synced = d.synced
    BY <1>1
<1>4. \A log : LET e == [d EXCEPT !.wal = log]
               IN  e.wal = log /\ e.synced = d.synced /\ e.man = d.man /\ e.files = d.files
    BY <1>1
<1>5. \A n : LET e == [d EXCEPT !.synced = n]
             IN  e.wal = d.wal /\ e.synced = n /\ e.man = d.man /\ e.files = d.files
    BY <1>1
<1> QED  BY <1>2, <1>3, <1>4, <1>5 DEF WithFile, WithoutFiles

\* The records of a log that grew are those it had and those added.
LEMMA ConcatRecords ==
    ASSUME NEW a \in Seq(Record), NEW b \in Seq(Record)
    PROVE  LET c == a \o b
           IN  /\ c \in Seq(Record)
               /\ \A i \in 1 .. Len(c) :
                    \/ i \in 1 .. Len(a) /\ c[i] = a[i]
                    \/ \E j \in 1 .. Len(b) : c[i] = b[j]
               /\ Whole(c) <=> Whole(a) /\ Whole(b)
<1> DEFINE c == a \o b
           m == Len(a)
           n == Len(b)
<1>1. m \in Nat /\ n \in Nat
    BY LenProperties
<1>2. /\ c \in Seq(Record) /\ Len(c) = m + n
      /\ \A i \in 1 .. m + n : c[i] = IF i <= m THEN a[i] ELSE b[i - m]
    BY ConcatProperties
<1> HIDE DEF c, m, n
<1>3. ASSUME NEW i \in 1 .. Len(c)
      PROVE  \/ i \in 1 .. m /\ c[i] = a[i]
             \/ \E j \in 1 .. n : c[i] = b[j]
    <2>1. i \in 1 .. m + n /\ (i <= m => i \in 1 .. m) /\ (~(i <= m) => i - m \in 1 .. n)
        BY <1>1, <1>2
    <2> QED  BY <1>2, <2>1
<1>4. \A i \in 1 .. m : i \in 1 .. m + n /\ c[i] = a[i]
    BY <1>1, <1>2
<1>5. ASSUME NEW i \in 1 .. n  PROVE i + m \in 1 .. m + n /\ c[i + m] = b[i]
    <2>1. i + m \in 1 .. m + n /\ ~(i + m <= m) /\ (i + m) - m = i
        BY <1>1
    <2> QED  BY <1>2, <2>1
<1>6. ASSUME Whole(c)  PROVE Whole(a) /\ Whole(b)
    <2>1. \A i \in 1 .. m + n : c[i].op # "torn"
        BY <1>2, <1>6 DEF Whole
    <2>2. \A i \in 1 .. m : a[i].op # "torn"
        BY <1>4, <2>1
    <2>3. \A i \in 1 .. n : b[i].op # "torn"
        BY <1>5, <2>1
    <2> QED  BY <2>2, <2>3 DEF Whole, m, n
<1>7. ASSUME Whole(a), Whole(b)  PROVE Whole(c)
    BY <1>3, <1>7 DEF Whole, m, n
<1> QED  BY <1>2, <1>3, <1>6, <1>7 DEF c, m, n

\* An append that failed leaves a torn record at the end of the log.
LEMMA TornEnd ==
    ASSUME NEW a \in Seq(Record)
    PROVE  Append(a, Torn) \in Seq(Record) /\ ~Whole(Append(a, Torn))
<1> DEFINE c == Append(a, Torn)
<1>1. Len(a) \in Nat /\ Torn \in Record /\ Torn.op = "torn"
    BY LenProperties, RecordsOK DEF Torn
<1>2. c \in Seq(Record) /\ Len(c) = Len(a) + 1 /\ c[Len(a) + 1] = Torn
    BY <1>1, AppendProperties
<1> HIDE DEF c
<1>3. ~Whole(c)
    BY <1>1, <1>2 DEF Whole
<1> QED  BY <1>2, <1>3 DEF c

-----------------------------------------------------------------------------
(* What the log replays to.                                                *)

\* While commit() has logged its block but not applied it, replay is ahead of
\* the memtable by the batch.
Pending == IF pc \in {"commit", "failed"} THEN Over(tx.batch, mem) ELSE mem

\* A log in which no append failed, of a process in which no transaction was
\* aborted, replays to the memtable and what is pending; the ids it names are
\* used up, and the transaction whose commit() is under way or failed is in it.
LogInv ==
    Running /\ aborted = {} /\ Whole(disk.wal) =>
        /\ Replay(disk.wal) = Pending
        /\ NamesBelow(disk.wal, nextTx)
        /\ pc \in {"commit", "failed"} => tx.id < nextTx /\ tx.id \in Committed(disk.wal)

\* The steps of flush(), compact(), compact_full(), gc() and close() other than
\* the truncation of the log.
Upkeep ==
    \/ \E c \in Calls : Call(c)
    \/ BuildL0 \/ BuildL0Fails \/ SaveL0 \/ SaveL0Fails \/ TruncateFails
    \/ PlanCompaction \/ PlanFull \/ PlanFails
    \/ WriteSegment \/ WriteSegmentFails \/ SwapManifest \/ SwapManifestFails
    \/ \E id \in job.old : DeleteOld(id)
    \/ Gc \/ CloseAgain \/ SyncLog \/ SyncLogFails \/ SaveAndClose \/ SaveAndCloseFails

\* They keep the log, the memtable and the transactions.
LEMMA UpkeepLog ==
    ASSUME IInv, Upkeep, Running'
    PROVE  /\ Running /\ UNCHANGED <<mem, tx, nextTx, aborted>> /\ disk'.wal = disk.wal
           /\ pc \notin {"commit", "failed"} /\ pc' \notin {"commit", "failed"}
<1>1. IsDisk(disk) /\ ControlOK
    BY DEF IInv, TypeOK, Images
<1>2. /\ \A m : [disk EXCEPT !.man = m].wal = disk.wal
      /\ \A id, t : WithFile(disk, id, t).wal = disk.wal
      /\ \A ids : WithoutFiles(disk, ids).wal = disk.wal
      /\ \A n : [disk EXCEPT !.synced = n].wal = disk.wal
    BY <1>1, LogKept
<1>3. AfterFlush(cont) \in {"idle", "full", "sync"}
    BY <1>1, AfterFlushOK DEF ControlOK
<1>4. CASE \E c \in Calls : Call(c)
    <2>1. PICK c \in Calls : Call(c)
        BY <1>4
    <2>2. AfterFlush(c) \in {"idle", "full", "sync"}
        BY <2>1, CallsAssumption, AfterFlushOK DEF Call
    <2> QED  BY <2>1, <2>2 DEF Call, Goto, Running, local
<1>5. CASE BuildL0 \/ BuildL0Fails \/ WriteSegmentFails
    BY <1>1, <1>2, <1>5, FailsOK DEF BuildL0, BuildL0Fails, WriteSegmentFails, Goto, Running
<1>6. CASE SaveL0 \/ SaveAndClose
    BY <1>1, <1>2, <1>6 DEF SaveL0, SaveAndClose, Goto, Running, local
<1>7. CASE SaveL0Fails \/ TruncateFails \/ PlanFails \/ SaveAndCloseFails
    BY <1>1, <1>7, FailsOK
       DEF SaveL0Fails, TruncateFails, PlanFails, SaveAndCloseFails, Running, local
<1>8. CASE PlanCompaction \/ PlanFull
    BY <1>8 DEF PlanCompaction, PlanFull, Goto, Running
<1>9. CASE WriteSegment
    BY <1>2, <1>9 DEF WriteSegment, Running
<1>10. CASE SwapManifest
    BY <1>2, <1>3, <1>10 DEF SwapManifest, FlushReturns, Goto, Running
<1>11. CASE SwapManifestFails
    BY <1>1, <1>11, FailsOK DEF SwapManifestFails, Running
<1>12. CASE \E id \in job.old : DeleteOld(id)
    BY <1>2, <1>3, <1>12 DEF DeleteOld, FlushReturns, Goto, Running
<1>13. CASE Gc \/ CloseAgain
    BY <1>2, <1>13 DEF Gc, CloseAgain, Running, local
<1>14. CASE SyncLog \/ SyncLogFails
    <2>1. cont = "close"
        BY <1>14 DEF SyncLog, SyncLogFails, ProcessEnds, Running
    <2>2. pc = "sync" /\ pc' \in {"closing", "idle"} /\ UNCHANGED local
        BY <1>14, <2>1 DEF SyncLog, SyncLogFails, Goto
    <2> QED  BY <1>2, <1>14, <2>2 DEF SyncLog, SyncLogFails, Running, local
<1> QED
    BY <1>4, <1>5, <1>6, <1>7, <1>8, <1>9, <1>10, <1>11, <1>12, <1>13, <1>14 DEF Upkeep

\* put() and delete() add to the log what they add to the memtable.
LEMMA PutLog ==
    ASSUME IInv, LogInv, NEW k \in Keys, NEW e \in Entry, Put(k, e)
    PROVE  LogInv'
<1>1. IsDisk(disk) /\ disk.wal \in Seq(Record)
    BY DEF IInv, TypeOK, Images, IsDisk
<1> DEFINE r == <<PutRec(k, e)>>
<1>2. r \in Seq(Record) /\ Len(r) = 1 /\ r[1].op = "put"
    BY RecordsOK DEF PutRec
<1>3. /\ disk'.wal = disk.wal \o r /\ pc = "idle" /\ pc' \in {"idle", "build"}
      /\ Running /\ mem' = [mem EXCEPT ![k] = e] /\ UNCHANGED <<nextTx, aborted, tx>>
    BY <1>1, LogKept, FlushIfOverLimitOK DEF Put, Logged, Running
<1> SUFFICES ASSUME aborted = {}, Whole(disk'.wal)
             PROVE  Replay(disk'.wal) = Pending' /\ NamesBelow(disk'.wal, nextTx)
    BY <1>3 DEF LogInv
<1> HIDE DEF r
<1>4. /\ Whole(disk.wal)
      /\ \A i \in 1 .. Len(disk'.wal) :
            \/ i \in 1 .. Len(disk.wal) /\ disk'.wal[i] = disk.wal[i]
            \/ \E j \in 1 .. Len(r) : disk'.wal[i] = r[j]
    <2>1. disk.wal \in Seq(Record) /\ r \in Seq(Record) /\ disk'.wal = disk.wal \o r
        BY <1>1, <1>2, <1>3
    <2> DEFINE old == disk.wal
               new == disk'.wal
    <2> HIDE DEF old, new
    <2>2. old \in Seq(Record) /\ new = old \o r /\ Whole(new)
        BY <2>1 DEF old, new
    <2>3. /\ Whole(old)
          /\ \A i \in 1 .. Len(new) :
                \/ i \in 1 .. Len(old) /\ new[i] = old[i]
                \/ \E j \in 1 .. Len(r) : new[i] = r[j]
        BY <2>1, <2>2, ConcatRecords
    <2> QED  BY <2>3 DEF old, new
<1>5. Replay(disk.wal) = mem /\ NamesBelow(disk.wal, nextTx)
    BY <1>3, <1>4 DEF LogInv, Pending
<1>6. Replay(disk'.wal) = [Replay(disk.wal) EXCEPT ![k] = e]
    BY <1>1, <1>3, <1>4, ReplayPut DEF r
<1>7. NamesBelow(disk'.wal, nextTx)
    BY <1>2, <1>4, <1>5 DEF NamesBelow
<1> QED  BY <1>3, <1>5, <1>6, <1>7 DEF Pending

\* commit() logs its block, under an id that no unfinished transaction has.
LEMMA BlockLog ==
    ASSUME IInv, Running, NEW t \in [id : Nat, batch : Table], LogBlock(t),
           aborted = {} /\ Whole(disk.wal) =>
                /\ Finished(disk.wal, t.id) /\ NamesBelow(disk.wal, nextTx')
                /\ t.id < nextTx'
                /\ Over(t.batch, Replay(disk.wal)) = Over(t.batch, mem)
    PROVE  LogInv'
<1> DEFINE r == TxRecords(t.id, t.batch)
           s == Size(t.batch)
<1>1. IsDisk(disk) /\ disk.wal \in Seq(Record) /\ t.id \in Nat /\ t.batch \in Table
    BY DEF IInv, TypeOK, Images, IsDisk
<1>2. r \in Seq(Record) /\ Len(r) = s + 2 /\ s \in Nat
    BY <1>1, TxRecordsOK, TableKeys
<1>3. /\ UNCHANGED <<mem, aborted>> /\ tx' = t
      /\ \/ disk'.wal = disk.wal \o r /\ pc' = "commit"
         \/ \E n \in 0 .. s + 1 : disk'.wal = disk.wal \o Append(SubSeq(r, 1, n), Torn)
    <2>1. \A records : Logged(records).wal = disk.wal \o records
        BY <1>1, LogKept DEF Logged
    <2>2. CASE disk' = Logged(r) /\ Goto("commit", "flush")
        BY <2>1, <2>2 DEF LogBlock, Goto
    <2>3. CASE \E n \in 0 .. s + 1 : disk' = Logged(Append(SubSeq(r, 1, n), Torn))
        BY <2>1, <2>3 DEF LogBlock
    <2> QED  BY <2>2, <2>3 DEF LogBlock
<1>4. CASE disk'.wal = disk.wal \o r /\ pc' = "commit"
    <2> SUFFICES ASSUME aborted = {}, Whole(disk'.wal)
                 PROVE  /\ Replay(disk'.wal) = Over(t.batch, mem)
                        /\ NamesBelow(disk'.wal, nextTx')
                        /\ t.id < nextTx' /\ t.id \in Committed(disk'.wal)
        BY <1>3, <1>4 DEF LogInv, Pending
    <2>1. \A j \in 1 .. Len(r) : r[j].tx = t.id
        <3>1. s + 2 \in 0 .. s + 2 /\ SubSeq(r, 1, s + 2) = r
            BY <1>2, SubSeqFull
        <3>2. LET p == SubSeq(TxRecords(t.id, t.batch), 1, Size(t.batch) + 2)
              IN  \A i \in 1 .. Size(t.batch) + 2 : p[i].tx = t.id
            BY <1>1, <3>1, BlockPart
        <3> QED  BY <1>2, <3>1, <3>2
    <2> HIDE DEF r, s
    <2>2. /\ Whole(disk.wal)
          /\ \A i \in 1 .. Len(disk'.wal) :
                \/ i \in 1 .. Len(disk.wal) /\ disk'.wal[i] = disk.wal[i]
                \/ \E j \in 1 .. Len(r) : disk'.wal[i] = r[j]
        BY <1>1, <1>2, <1>4, ConcatRecords
    <2>3. /\ Committed(disk'.wal) = Committed(disk.wal) \cup {t.id}
          /\ Replay(disk'.wal) = Over(t.batch, Replay(disk.wal))
        BY <1>1, <1>4, <2>2, ReplayBlock DEF r
    <2>4. NamesBelow(disk'.wal, nextTx')
        BY <2>1, <2>2 DEF NamesBelow
    <2> QED  BY <2>2, <2>3, <2>4
<1>5. CASE \E n \in 0 .. s + 1 : disk'.wal = disk.wal \o Append(SubSeq(r, 1, n), Torn)
    <2>1. PICK n \in 0 .. s + 1 : disk'.wal = disk.wal \o Append(SubSeq(r, 1, n), Torn)
        BY <1>5
    <2>2. SubSeq(r, 1, n) \in Seq(Record)
        <3>1. n \in 0 .. Len(r)
            BY <1>2
        <3> HIDE DEF r
        <3> QED  BY <1>2, <3>1, PrefixOK
    <2> DEFINE b == Append(SubSeq(r, 1, n), Torn)
    <2>3. b \in Seq(Record) /\ ~Whole(b)
        BY <2>2, TornEnd
    <2> HIDE DEF b
    <2>4. ~Whole(disk.wal \o b)
        BY <1>1, <2>3, ConcatRecords
    <2> QED  BY <2>1, <2>4 DEF LogInv, b
<1> QED  BY <1>3, <1>4, <1>5

\* A new transaction's id is not in the log; a repeated commit() logs a block
\* that is in it already.
LEMMA CommitLog ==
    ASSUME IInv, LogInv, (\E b \in Batches : StartCommit(b)) \/ RetryCommit
    PROVE  LogInv'
<1>1. /\ nextTx \in Nat /\ tx \in [id : Nat, batch : Table] /\ mem \in Table
      /\ disk.wal \in Seq(Record)
    BY DEF IInv, TypeOK, HandleOK, Images, IsDisk
<1>2. ASSUME NEW b \in Batches, StartCommit(b)
      PROVE  LogInv'
    <2> DEFINE t == [id |-> nextTx, batch |-> b]
    <2>1. t \in [id : Nat, batch : Table] /\ t.id = nextTx /\ t.batch = b
        BY <1>1, BatchesAssumption
    <2>2. LogBlock(t) /\ nextTx' = nextTx + 1 /\ pc = "idle" /\ Running
        BY <1>2 DEF StartCommit, Running
    <2> HIDE DEF t
    <2>3. ASSUME aborted = {}, Whole(disk.wal)
          PROVE  /\ Finished(disk.wal, t.id) /\ NamesBelow(disk.wal, nextTx')
                 /\ t.id < nextTx'
                 /\ Over(t.batch, Replay(disk.wal)) = Over(t.batch, mem)
        <3>1. Replay(disk.wal) = mem /\ NamesBelow(disk.wal, nextTx)
            BY <2>2, <2>3 DEF LogInv, Pending
        <3>2. ASSUME NEW i \in 1 .. Len(disk.wal), disk.wal[i].op # "put"
              PROVE  /\ disk.wal[i].tx # nextTx
                     /\ disk.wal[i].tx < nextTx'
            <4>1. disk.wal[i].tx \in Nat /\ disk.wal[i].tx < nextTx
                BY <1>1, <2>3, <3>1, <3>2, MaxTxIdAbove DEF NamesBelow
            <4> QED  BY <1>1, <2>2, <4>1
        <3>3. t.id < nextTx'
            BY <1>1, <2>1, <2>2
        <3> QED  BY <2>1, <3>1, <3>2, <3>3 DEF Finished, NamesBelow
    <2> QED  BY <2>1, <2>2, <2>3, BlockLog
<1>3. ASSUME RetryCommit
      PROVE  LogInv'
    <2>1. LogBlock(tx) /\ nextTx' = nextTx /\ pc = "failed" /\ Running
        BY <1>3 DEF RetryCommit, Running
    <2>2. ASSUME aborted = {}, Whole(disk.wal)
          PROVE  /\ Finished(disk.wal, tx.id) /\ NamesBelow(disk.wal, nextTx')
                 /\ tx.id < nextTx'
                 /\ Over(tx.batch, Replay(disk.wal)) = Over(tx.batch, mem)
        <3>1. /\ Replay(disk.wal) = Over(tx.batch, mem) /\ NamesBelow(disk.wal, nextTx)
              /\ tx.id < nextTx /\ tx.id \in Committed(disk.wal)
            BY <2>1, <2>2 DEF LogInv, Pending
        <3>2. Over(tx.batch, Over(tx.batch, mem)) = Over(tx.batch, mem)
            BY DEF Over
        <3> QED  BY <2>1, <3>1, <3>2 DEF Finished
    <2> QED  BY <1>1, <2>1, <2>2, BlockLog
<1> QED  BY <1>2, <1>3

\* Every step preserves LogInv.
LEMMA NextLog ==
    ASSUME IInv, LogInv, [Next]_vars
    PROVE  LogInv'
<1>1. IsDisk(disk) /\ disk.wal \in Seq(Record) /\ tx.batch \in Table /\ mem \in Table /\ ControlOK
    BY DEF IInv, TypeOK, HandleOK, Images, IsDisk
<1>2. CASE Upkeep /\ Running'
    <2>1. /\ Running /\ UNCHANGED <<mem, tx, nextTx, aborted>> /\ disk'.wal = disk.wal
          /\ pc \notin {"commit", "failed"} /\ pc' \notin {"commit", "failed"}
        BY <1>2, UpkeepLog
    <2> QED  BY <2>1 DEF LogInv, Pending
<1>3. CASE ~Running'
    BY <1>3 DEF LogInv
<1>4. CASE \E k \in Keys, e \in Entry : Put(k, e)
    BY <1>4, PutLog
<1>5. CASE PutFails
    <2> DEFINE t == <<Torn>>
    <2>1. disk'.wal = disk.wal \o t
        BY <1>1, <1>5, LogKept DEF PutFails, Logged
    <2>2. t \in Seq(Record) /\ ~Whole(t)
        <3>1. <<>> \in Seq(Record) /\ Append(<<>>, Torn) = t
            BY EmptySeq
        <3> QED  BY <3>1, TornEnd
    <2> HIDE DEF t
    <2>3. ~Whole(disk'.wal)
        BY <1>1, <2>1, <2>2, ConcatRecords
    <2> QED  BY <2>3 DEF LogInv
<1>6. CASE (\E b \in Batches : StartCommit(b)) \/ RetryCommit
    BY <1>6, CommitLog
<1>7. CASE SyncCommit
    <2>1. /\ disk'.wal = disk.wal /\ pc = "commit" /\ pc' \in {"idle", "build"}
          /\ mem' = Over(tx.batch, mem) /\ UNCHANGED <<nextTx, aborted>> /\ Running
        BY <1>1, <1>7, LogKept, FlushIfOverLimitOK DEF SyncCommit, Running
    <2> QED  BY <2>1 DEF LogInv, Pending
<1>8. CASE SyncCommitFails
    <2>1. /\ disk' = disk /\ pc = "commit" /\ pc' = "failed"
          /\ UNCHANGED <<mem, tx, nextTx, aborted>> /\ Running
        BY <1>8 DEF SyncCommitFails, Goto, Running, local
    <2> QED  BY <2>1 DEF LogInv, Pending
<1>9. CASE Abort
    BY <1>9 DEF Abort, LogInv
<1>10. CASE Truncate
    <2>1. /\ disk' = WithLog(disk, <<>>, 0) /\ mem' = EmptyTable
          /\ pc' \in {"plan", "idle", "full", "sync"}
        BY <1>1, <1>10, AfterFlushOK DEF Truncate, FlushReturns, Goto, ControlOK
    <2>2. disk'.wal = <<>>
        <3> DEFINE empty == <<>>
        <3>1. empty \in Seq(Record) /\ 0 \in 0 .. Len(empty)
            BY EmptySeq
        <3>2. disk' = WithLog(disk, empty, 0)
            BY <2>1
        <3> HIDE DEF empty
        <3>3. disk'.wal = empty
            BY <1>1, <3>1, <3>2, WithLogOK
        <3> QED  BY <3>3 DEF empty
    <2>3. NamesBelow(<<>>, nextTx')
        <3>1. Len(<<>>) = 0 /\ 1 .. 0 = {}
            BY EmptySeq
        <3> QED  BY <3>1 DEF NamesBelow
    <2> QED  BY <2>1, <2>2, <2>3, ReplayNothing DEF LogInv, Pending
<1>11. CASE Open /\ Running'
    <2>1. /\ pc' = "idle" /\ mem' = Replay(disk.wal) /\ disk' = disk
          /\ nextTx' = MaxTxId(disk.wal) + 1
        BY <1>11 DEF Open, Goto, Running
    <2>2. Whole(disk.wal) => NamesBelow(disk.wal, nextTx')
        <3> SUFFICES ASSUME Whole(disk.wal), NEW i \in 1 .. Len(disk.wal),
                            disk.wal[i].op # "put"
                     PROVE  disk.wal[i].tx < nextTx'
            BY DEF NamesBelow
        <3> QED  BY <1>1, <2>1, MaxTxIdAbove
    <2> QED  BY <2>1, <2>2 DEF LogInv, Pending
<1>12. CASE DropClosed \/ Kill \/ LosePower
    BY <1>3, <1>12 DEF DropClosed, Kill, LosePower, ProcessEnds, Running
<1>13. CASE Get \/ UNCHANGED vars
    <2>1. UNCHANGED <<pc, mem, tx, nextTx, aborted, disk>>
        BY <1>13 DEF Get, vars, local
    <2> QED  BY <2>1 DEF LogInv, Pending, Running
<1> QED
    BY <1>2, <1>3, <1>4, <1>5, <1>6, <1>7, <1>8, <1>9, <1>10, <1>11, <1>12, <1>13
       DEF Next, Upkeep

\* Between calls the log replays to exactly the memtable, whatever operation
\* failed, unless an append did or a transaction was aborted (put_internal,
\* Transaction::commit, Wal::truncate, open_with).
THEOREM LogAlwaysReplays == Spec => []LogReplaysToMemtable
<1>1. Init => LogInv
    BY DEF Init, LogInv, Running
<1>2. IInv /\ LogInv /\ [Next]_vars => LogInv'
    BY NextLog
<1>3. IInv /\ LogInv => LogReplaysToMemtable
    <2> SUFFICES ASSUME IInv, LogInv, pc = "idle", aborted = {},
                        Readable(disk.wal) = Len(disk.wal)
                 PROVE  Replay(disk.wal) = mem
        BY DEF LogReplaysToMemtable
    <2>1. disk.wal \in Seq(Record)
        BY DEF IInv, TypeOK, Images, IsDisk
    <2>2. Whole(disk.wal)
        BY <2>1, ReadableWhole
    <2> QED  BY <2>2 DEF LogInv, Pending, Running
<1> QED  BY <1>1, <1>2, <1>3, Invariance, PTL DEF Spec

-----------------------------------------------------------------------------
(* Where the memtable is empty.                                            *)

\* compact(), compact_full() and the end of close() come after a flush.
EmptyInv ==
    /\ pc \in {"plan", "full", "write", "delete", "closing"} => mem = EmptyTable
    /\ pc = "sync" /\ cont = "close" => mem = EmptyTable

\* Every step preserves EmptyInv.
LEMMA NextEmpty ==
    ASSUME IInv, EmptyInv, [Next]_vars
    PROVE  EmptyInv'
<1>1. \A fault : Fails(fault) => pc' = "idle" \/ (pc' = "sync" /\ cont' = "drop")
    BY DEF Fails, Goto
<1>2. CASE (\E k \in Keys, e \in Entry : Put(k, e)) \/ SyncCommit
    BY <1>2, FlushIfOverLimitOK DEF Put, SyncCommit, EmptyInv
<1>3. CASE PutFails \/ Gc \/ CloseAgain \/ Get \/ UNCHANGED vars
    <2>1. UNCHANGED <<pc, cont, mem>>
        BY <1>3 DEF PutFails, Gc, CloseAgain, Get, vars, local
    <2> QED  BY <2>1 DEF EmptyInv
<1>4. CASE (\E b \in Batches : StartCommit(b)) \/ RetryCommit
    BY <1>4 DEF StartCommit, RetryCommit, LogBlock, Goto, EmptyInv
<1>5. CASE SyncCommitFails \/ Abort \/ BuildL0 \/ SaveL0 \/ SaveAndClose
    BY <1>5 DEF SyncCommitFails, Abort, BuildL0, SaveL0, SaveAndClose, Goto, EmptyInv
<1>6. CASE \E c \in Calls : Call(c)
    <2>1. PICK c \in Calls : Call(c)
        BY <1>6
    <2>2. pc' = (IF mem = EmptyTable THEN AfterFlush(c) ELSE "build") /\ mem' = mem
        BY <2>1 DEF Call, Goto, local
    <2> QED  BY <2>2 DEF EmptyInv
<1>7. CASE \/ BuildL0Fails \/ SaveL0Fails \/ TruncateFails \/ PlanFails
           \/ WriteSegmentFails \/ SwapManifestFails \/ SaveAndCloseFails
    BY <1>1, <1>7
       DEF BuildL0Fails, SaveL0Fails, TruncateFails, PlanFails, WriteSegmentFails,
           SwapManifestFails, SaveAndCloseFails, EmptyInv
<1>8. CASE Truncate
    BY <1>8 DEF Truncate, EmptyInv
<1>9. CASE PlanCompaction \/ PlanFull \/ WriteSegment \/ SwapManifest \/ (\E id \in job.old : DeleteOld(id))
    BY <1>9
       DEF PlanCompaction, PlanFull, WriteSegment, SwapManifest, DeleteOld, EmptyInv
<1>10. CASE SyncLog \/ SyncLogFails
    BY <1>10 DEF SyncLog, SyncLogFails, ProcessEnds, Goto, EmptyInv, local
<1>11. CASE DropClosed \/ Kill \/ LosePower
    BY <1>11 DEF DropClosed, Kill, LosePower, ProcessEnds, EmptyInv
<1>12. CASE Open
    <2>1. pc' \in {"idle", "down"}
        BY <1>12 DEF Open, Goto
    <2> QED  BY <2>1 DEF EmptyInv
<1> QED
    BY <1>2, <1>3, <1>4, <1>5, <1>6, <1>7, <1>8, <1>9, <1>10, <1>11, <1>12 DEF Next

-----------------------------------------------------------------------------
(* Directories that hold what an earlier one held.                         *)

\* No append and no fsync fails, and a crash cuts the log between two records.
KeepsLog == Faults \cap {"append", "sync", "torn"} = {}

\* A directory whose MANIFEST is intact and whose tables exist.
Sound(d) == IsDisk(d) /\ Intact(d.man, d.files) /\ Held(d.man, d.files)

\* Directory e has the log and the manifest of d and the tables it names, and
\* at least as much of the log is on stable storage.
Like(e, d) ==
    /\ e.man = d.man /\ e.wal = d.wal /\ d.synced <= e.synced
    /\ \A id \in AllIds(d.man) : e.files[id] = d.files[id]

\* Where gc() is called with care, every directory a crash may find is sound.
LEMMA ImagesSound ==
    ASSUME Careful, IInv
    PROVE  \A d \in Images : Sound(d)
BY DEF IInv, TypeOK, DirectoryInv, Good, Sound

\* Saving the manifest: to flush(), to a merge, to close().
Saving == SaveL0 \/ SaveAndClose \/ SwapManifest

\* A save changes MANIFEST and nothing else; a crash may undo it.
LEMMA SavingImages ==
    ASSUME IInv, Saving
    PROVE  /\ disk'.man = man' /\ disk'.files = disk.files
           /\ disk'.wal = disk.wal /\ disk'.synced = disk.synced
           /\ older' \subseteq {disk} /\ mem' = mem
<1>1. IsDisk(disk) /\ man \in Manifest
    BY DEF IInv, TypeOK, HandleOK, Images
<1>2. disk' = [disk EXCEPT !.man = man'] /\ older' \subseteq {disk} /\ mem' = mem
    BY DEF Saving, SaveL0, SaveAndClose, SwapManifest, local
<1>3. man' \in Manifest
    <2>1. CASE SaveL0 \/ SaveAndClose
        BY <1>1, <2>1 DEF SaveL0, SaveAndClose, local
    <2>2. CASE SwapManifest
        <3>1. pc = "write" /\ man' = Compacted
            BY <2>2 DEF SwapManifest
        <3> QED  BY <3>1, CompactedOK
    <2> QED  BY <2>1, <2>2 DEF Saving
<1>4. disk'.wal = disk.wal /\ disk'.synced = disk.synced
    BY <1>1, <1>2, LogKept
<1> QED  BY <1>1, <1>2, <1>3, <1>4, WithManOK

\* A new file is none of those that MANIFEST names.
LEMMA FreshLike ==
    ASSUME Careful, IInv, Running, NEW t \in Table \cup {Broken}
    PROVE  Like(WithFile(disk, man.next, t), disk)
<1> DEFINE e == WithFile(disk, man.next, t)
<1>1. /\ IsDisk(disk) /\ man.next \in Nat /\ disk.synced \in Nat
      /\ Intact(disk.man, disk.files) /\ Held(disk.man, disk.files)
      /\ disk.man.next <= man.next /\ disk.man \in Manifest
    BY ManifestFacts
       DEF IInv, TypeOK, HandleOK, Images, IsDisk, DirectoryInv, Good, LiveInv
<1>2. /\ e.man = disk.man
      /\ \A i \in DOMAIN disk.files : i # man.next => e.files[i] = disk.files[i]
    BY <1>1, WithFileOK
<1>3. e.wal = disk.wal /\ e.synced = disk.synced
    BY <1>1, LogKept
<1> HIDE DEF e
<1>4. man.next \notin AllIds(disk.man)
    <2> SUFFICES ASSUME man.next \in AllIds(disk.man)  PROVE FALSE
        OBVIOUS
    <2>1. man.next < disk.man.next /\ disk.man.next \in Nat
        BY <1>1, ManifestFacts DEF Intact
    <2> QED  BY <1>1, <2>1
<1>5. \A id \in AllIds(disk.man) : e.files[id] = disk.files[id]
    BY <1>1, <1>2, <1>4 DEF Held
<1> QED  BY <1>1, <1>2, <1>3, <1>5 DEF Like, e

\* Files that MANIFEST does not name can go.
LEMMA RemovedLike ==
    ASSUME Careful, IInv, NEW ids, ids \cap AllIds(disk.man) = {}
    PROVE  Like(WithoutFiles(disk, ids), disk)
<1> DEFINE e == WithoutFiles(disk, ids)
<1>1. IsDisk(disk) /\ disk.synced \in Nat /\ Held(disk.man, disk.files)
    BY DEF IInv, TypeOK, Images, IsDisk, DirectoryInv, Good
<1>2. /\ e.man = disk.man
      /\ DOMAIN e.files = DOMAIN disk.files \ ids
      /\ \A i \in DOMAIN e.files : e.files[i] = disk.files[i]
    BY <1>1, WithoutFilesOK
<1>3. e.wal = disk.wal /\ e.synced = disk.synced
    BY <1>1, LogKept
<1> HIDE DEF e
<1>4. \A id \in AllIds(disk.man) : e.files[id] = disk.files[id]
    BY <1>1, <1>2 DEF Held
<1> QED  BY <1>1, <1>2, <1>3, <1>4 DEF Like, e

\* After every other step of flush(), compact(), compact_full(), gc() and
\* close() a crash finds a directory like one it could have found before.
LEMMA UpkeepImages ==
    ASSUME Careful, IInv, Upkeep, ~Saving
    PROVE  Like(disk', disk) /\ \A e \in Images' : \E d \in Images : Like(e, d)
<1>1. \A d \in Images : IsDisk(d) /\ d.synced \in Nat /\ Len(d.wal) \in Nat
    BY LenProperties DEF IInv, TypeOK, IsDisk
<1>2. \A d \in Images : Like(d, d)
    BY <1>1 DEF Like
<1>3. disk \in Images /\ older \subseteq Images
    BY DEF Images
<1>4. ASSUME Like(disk', disk), older' \subseteq Images
      PROVE  \A e \in Images' : \E d \in Images : Like(e, d)
    BY <1>2, <1>3, <1>4 DEF Images
<1>5. CASE \/ \E c \in Calls : Call(c)
           \/ SaveL0Fails \/ TruncateFails \/ PlanCompaction \/ PlanFull \/ PlanFails
           \/ SwapManifestFails \/ CloseAgain \/ SyncLogFails \/ SaveAndCloseFails
    <2>1. disk' = disk /\ older' = older
        BY <1>5
           DEF Call, SaveL0Fails, TruncateFails, PlanCompaction, PlanFull, PlanFails,
               SwapManifestFails, CloseAgain, SyncLogFails, SaveAndCloseFails
    <2> QED  BY <1>2, <1>3, <1>4, <2>1
<1>6. CASE BuildL0 \/ BuildL0Fails \/ WriteSegment \/ WriteSegmentFails
    <2>1. \E t \in Table \cup {Broken} : disk' = WithFile(disk, man.next, t)
        <3>1. CASE BuildL0
            BY <3>1 DEF BuildL0, IInv, TypeOK, HandleOK
        <3>2. CASE BuildL0Fails \/ WriteSegmentFails
            BY <3>2 DEF BuildL0Fails, WriteSegmentFails
        <3>3. CASE WriteSegment
            <4>1. /\ disk' = WithFile(disk, man.next, Head(job.chunks))
                  /\ job.chunks # <<>> /\ job.chunks \in Seq(Table)
                BY <3>3 DEF WriteSegment, IInv, TypeOK, JobOK
            <4>2. Head(job.chunks) \in Table
                BY <4>1, HeadTailProperties
            <4> QED  BY <4>1, <4>2
        <3> QED  BY <1>6, <3>1, <3>2, <3>3
    <2>2. Running /\ older' \subseteq Images
        BY <1>6
           DEF BuildL0, BuildL0Fails, WriteSegment, WriteSegmentFails, Running, Lagging, Images
    <2> QED  BY <1>4, <2>1, <2>2, FreshLike
<1>7. CASE \E id \in job.old : DeleteOld(id)
    <2>1. PICK id \in job.old : DeleteOld(id)
        BY <1>7
    <2>2. disk.man = man /\ {id} \cap AllIds(disk.man) = {}
        BY <2>1 DEF DeleteOld, IInv, StepInv
    <2>3. \/ disk' = WithoutFiles(disk, {id}) /\ older' = Lagging
          \/ disk' = disk /\ older' = older
        BY <2>1 DEF DeleteOld
    <2>4. older' \subseteq Images
        BY <2>3 DEF Lagging, Images
    <2>5. Like(disk', disk)
        BY <1>2, <1>3, <2>2, <2>3, RemovedLike
    <2> QED  BY <1>4, <2>4, <2>5
<1>8. CASE Gc
    <2>1. PICK gone \in SUBSET Orphans :
            /\ disk' = WithoutFiles(disk, gone)
            /\ older' = IF PowerLoss
                        THEN older \cup {WithoutFiles(disk, some) : some \in SUBSET gone}
                        ELSE {}
        BY <1>8 DEF Gc
    <2>2. \A some \in SUBSET gone : some \cap AllIds(disk.man) = {}
        BY <1>8 DEF Orphans, IInv, SavedInv, Gc, Running
    <2>3. \A some \in SUBSET gone : Like(WithoutFiles(disk, some), disk)
        BY <2>2, RemovedLike
    <2> QED  BY <1>2, <1>3, <2>1, <2>3 DEF Images
<1>9. CASE SyncLog
    <2>1. disk' = [disk EXCEPT !.synced = Len(disk.wal)] /\ older' = {}
        BY <1>9 DEF SyncLog
    <2>2. /\ disk'.man = disk.man /\ disk'.wal = disk.wal /\ disk'.files = disk.files
          /\ disk'.synced = Len(disk.wal) /\ disk.synced <= Len(disk.wal)
        BY <1>1, <1>3, <2>1, LogKept DEF IsDisk
    <2>3. Like(disk', disk)
        BY <2>2 DEF Like
    <2> QED  BY <1>4, <2>1, <2>3
<1> QED  BY <1>5, <1>6, <1>7, <1>8, <1>9 DEF Upkeep, Saving

\* Where the log keeps what it accepts, no record is torn and no commit() fails;
\* and a memtable reads the same over the manifest in memory and over MANIFEST,
\* which a failed save leaves behind.
KeptInv ==
    /\ \A d \in Images : Whole(d.wal)
    /\ aborted = {} /\ pc # "failed"
    /\ Running =>
        \A k \in Keys : Seen(mem, disk.man, disk.files, k) = Seen(mem, man, disk.files, k)

\* What put() and delete() append is a whole record.
LEMMA PutWhole ==
    ASSUME NEW k \in Keys, NEW e \in Entry
    PROVE  /\ <<PutRec(k, e)>> \in Seq(Record) /\ Len(<<PutRec(k, e)>>) = 1
           /\ Whole(<<PutRec(k, e)>>)
<1> DEFINE r == <<PutRec(k, e)>>
<1>1. r \in Seq(Record) /\ Len(r) = 1 /\ r[1].op = "put"
    BY RecordsOK DEF PutRec
<1> HIDE DEF r
<1>2. Whole(r)
    BY <1>1 DEF Whole
<1> QED  BY <1>1, <1>2 DEF r

\* What commit() appends is a whole block.
LEMMA BlockWhole ==
    ASSUME NEW t \in Nat, NEW b \in Table
    PROVE  /\ TxRecords(t, b) \in Seq(Record) /\ Len(TxRecords(t, b)) = Size(b) + 2
           /\ Size(b) \in Nat /\ Whole(TxRecords(t, b))
<1> DEFINE r == TxRecords(t, b)
           s == Size(b)
<1>1. r \in Seq(Record) /\ Len(r) = s + 2 /\ s \in Nat
    BY TxRecordsOK, TableKeys
<1>2. SubSeq(r, 1, s + 2) = r
    BY <1>1, SubSeqFull
<1>3. s + 2 \in 0 .. s + 2
    BY <1>1
<1>4. Whole(SubSeq(TxRecords(t, b), 1, Size(b) + 2))
    BY <1>3, BlockPart
<1> QED  BY <1>1, <1>2, <1>4

\* Where appends do not fail, commit() logs its whole block.
LEMMA BlockLogged ==
    ASSUME KeepsLog, NEW t, LogBlock(t)
    PROVE  disk' = Logged(TxRecords(t.id, t.batch)) /\ pc' = "commit" /\ tx' = t
BY DEF KeepsLog, LogBlock, Goto

\* Where a crash cuts the log between records, it leaves a beginning of it.
LEMMA CutsWhole ==
    ASSUME KeepsLog, NEW d, NEW n, NEW log \in CutLogs(d, n)
    PROVE  log = SubSeq(d.wal, 1, n)
BY DEF KeepsLog, CutLogs

\* The end of the process leaves the beginning of a log that was there.
LEMMA CrashImages ==
    ASSUME IInv, KeepsLog, Kill \/ LosePower
    PROVE  /\ ~Running' /\ aborted' = {} /\ mem' = EmptyTable
           /\ \E d \in Images : \E n \in d.synced .. Len(d.wal) :
                /\ disk'.man = d.man /\ disk'.files = d.files
                /\ disk'.wal = SubSeq(d.wal, 1, n) /\ d.synced <= disk'.synced
           /\ older' \subseteq older
<1>1. ~Running' /\ aborted' = {} /\ mem' = EmptyTable
    BY DEF Kill, LosePower, ProcessEnds, Running
<1>2. \A d \in Images : IsDisk(d) /\ d.wal \in Seq(Record) /\ d.synced \in Nat /\ Len(d.wal) \in Nat
    BY LenProperties DEF IInv, TypeOK, IsDisk
<1>3. CASE Kill
    <2>1. PICK n \in disk.synced .. Len(disk.wal) : \E log \in CutLogs(disk, n) :
                disk' = [disk EXCEPT !.wal = log]
        BY <1>3 DEF Kill
    <2>2. PICK log \in CutLogs(disk, n) : disk' = [disk EXCEPT !.wal = log]
        BY <2>1
    <2>3. disk \in Images /\ older' = older
        BY <1>3 DEF Images, Kill
    <2>4. disk'.man = disk.man /\ disk'.files = disk.files /\ disk'.wal = log
          /\ disk'.synced = disk.synced
        BY <1>2, <2>2, <2>3, LogKept
    <2>5. log = SubSeq(disk.wal, 1, n) /\ disk.synced <= disk'.synced
        BY <1>2, <2>3, <2>4, CutsWhole
    <2> QED  BY <1>1, <2>3, <2>4, <2>5
<1>4. CASE LosePower
    <2>1. PICK d \in Images : \E n \in d.synced .. Len(d.wal) : \E log \in CutLogs(d, n) :
                disk' = WithLog(d, log, Len(log))
        BY <1>4 DEF LosePower
    <2>2. PICK n \in d.synced .. Len(d.wal) : \E log \in CutLogs(d, n) :
                disk' = WithLog(d, log, Len(log))
        BY <2>1
    <2>3. PICK log \in CutLogs(d, n) : disk' = WithLog(d, log, Len(log))
        BY <2>2
    <2>4. log \in Seq(Record) /\ Len(log) \in Nat /\ d.synced <= Len(log)
        BY <1>2, CutLogsOK
    <2>5. Len(log) \in 0 .. Len(log)
        BY <2>4
    <2>6. disk'.man = d.man /\ disk'.files = d.files /\ disk'.wal = log
          /\ disk'.synced = Len(log)
        BY <1>2, <2>3, <2>4, <2>5, WithLogOK
    <2>7. log = SubSeq(d.wal, 1, n)
        BY CutsWhole
    <2>8. older' = {}
        BY <1>4 DEF LosePower
    <2> QED  BY <1>1, <2>4, <2>6, <2>7, <2>8
<1> QED  BY <1>3, <1>4

\* Writing more in the memtable keeps what it hides.
LEMMA SeenWritten ==
    ASSUME NEW t, NEW u, NEW m, NEW n, NEW f, NEW k,
           Seen(t, m, f, k) = Seen(t, n, f, k),
           u[k] = t[k] \/ u[k] # Absent
    PROVE  Seen(u, m, f, k) = Seen(u, n, f, k)
BY DEF Seen

\* Every step preserves KeptInv.
LEMMA NextKept ==
    ASSUME KeepsLog, Careful, IInv, IInv', FInv, VInv, KeptInv, [Next]_vars
    PROVE  KeptInv'
<1>1. /\ IsDisk(disk) /\ disk.wal \in Seq(Record) /\ mem \in Table /\ disk \in Images
      /\ disk.man \in Manifest /\ older \subseteq Images /\ ControlOK
    BY DEF IInv, TypeOK, HandleOK, Images, IsDisk
<1>2. \A d \in Images : Whole(d.wal)
    BY DEF KeptInv
<1>3. CASE Upkeep
    <2>1. \A d \in Images' : Whole(d.wal)
        <3>1. CASE Saving
            BY <1>1, <1>2, <3>1, SavingImages DEF Images
        <3>2. CASE ~Saving
            <4>1. \A e \in Images' : \E d \in Images : e.wal = d.wal
                BY <1>3, <3>2, UpkeepImages DEF Like
            <4> QED  BY <1>2, <4>1
        <3> QED  BY <3>1, <3>2
    <2>2. CASE ~Running'
        <3>1. CASE SyncLog \/ SyncLogFails
            BY <2>1, <2>2, <3>1 DEF SyncLog, SyncLogFails, ProcessEnds, Goto, Running, KeptInv, local
        <3>2. CASE ~(SyncLog \/ SyncLogFails)
            <4>1. \A fault : Fails(fault) => Running'
                BY <1>1, FailsOK DEF Running
            <4>2. AfterFlush(cont) # "down"
                BY <1>1, AfterFlushOK DEF ControlOK
            <4>3. \A c \in Calls \ {"gc"} : AfterFlush(c) # "down"
                BY CallsAssumption, AfterFlushOK
            <4> QED  BY <1>3, <2>2, <3>2, <4>1, <4>2, <4>3
                     DEF Upkeep, Call, BuildL0, BuildL0Fails, SaveL0, SaveL0Fails, TruncateFails,
                         PlanCompaction, PlanFull, PlanFails, WriteSegment, WriteSegmentFails,
                         SwapManifest, SwapManifestFails, DeleteOld, Gc, CloseAgain, SaveAndClose,
                         SaveAndCloseFails, Goto, Running, FlushReturns
        <3> QED  BY <3>1, <3>2
    <2>3. CASE Running'
        <3>1. /\ Running /\ mem' = mem /\ aborted' = aborted /\ pc' # "failed"
              /\ pc \notin {"commit", "failed"}
            BY <1>3, <2>3, UpkeepLog
        <3>2. ASSUME NEW k \in Keys
              PROVE  Seen(mem', disk'.man, disk'.files, k) = Seen(mem', man', disk'.files, k)
            <4>1. CASE Saving
                BY <4>1, SavingImages
            <4>2. CASE ~Saving
                <5>1. Like(disk', disk)
                    BY <1>3, <4>2, UpkeepImages
                <5>2. TableEntry(disk'.man, disk'.files, k) = TableEntry(disk.man, disk.files, k)
                    BY <1>1, <5>1, TableEntryFrame DEF Like
                <5>3. Seen(mem', disk'.man, disk'.files, k) = Seen(mem, disk.man, disk.files, k)
                    BY <3>1, <5>2 DEF Seen
                <5>4. Seen(mem', man', disk'.files, k) = Seen(mem, man, disk.files, k)
                    BY <2>3, <3>1, NextView DEF SameView
                <5>5. Seen(mem, disk.man, disk.files, k) = Seen(mem, man, disk.files, k)
                    BY <3>1 DEF KeptInv
                <5> QED  BY <5>3, <5>4, <5>5
            <4> QED  BY <4>1, <4>2
        <3> QED  BY <2>1, <3>1, <3>2 DEF KeptInv
    <2> QED  BY <2>2, <2>3
<1>4. ASSUME Running, Running', man' = man, disk'.man = disk.man, disk'.files = disk.files,
             \A k \in Keys : mem'[k] = mem[k] \/ mem'[k] # Absent,
             Whole(disk'.wal), older' \subseteq Images, aborted' = aborted, pc' # "failed"
      PROVE  KeptInv'
    <2>1. \A d \in Images' : Whole(d.wal)
        BY <1>2, <1>4 DEF Images
    <2>2. \A k \in Keys : Seen(mem', disk'.man, disk'.files, k) = Seen(mem', man', disk'.files, k)
        BY <1>4, SeenWritten DEF KeptInv
    <2> QED  BY <1>4, <2>1, <2>2 DEF KeptInv
<1>5. CASE \E k \in Keys, e \in Entry : Put(k, e)
    <2>1. PICK k \in Keys, e \in Entry : Put(k, e)
        BY <1>5
    <2>2. /\ Running /\ man' = man /\ disk'.man = disk.man /\ disk'.files = disk.files
          /\ disk'.wal = disk.wal \o <<PutRec(k, e)>>
          /\ mem' = [mem EXCEPT ![k] = e] /\ older' = older /\ aborted' = aborted
          /\ Running' /\ pc' # "failed"
        BY <1>1, <2>1, LogKept, FlushIfOverLimitOK DEF Put, Logged, Running
    <2>3. \A j \in Keys : mem'[j] = mem[j] \/ mem'[j] # Absent
        BY <1>1, <2>2, EntryAssumption DEF Table, Entry
    <2> DEFINE r == <<PutRec(k, e)>>
    <2>4. r \in Seq(Record) /\ Whole(r)
        BY PutWhole
    <2>5. disk'.wal = disk.wal \o r
        BY <2>2
    <2> HIDE DEF r
    <2>6. Whole(disk'.wal)
        BY <1>1, <1>2, <2>4, <2>5, ConcatRecords
    <2> QED  BY <1>1, <1>4, <2>2, <2>3, <2>6
<1>6. CASE \E b \in Batches : StartCommit(b)
    <2>1. PICK b \in Batches : StartCommit(b)
        BY <1>6
    <2> DEFINE t == [id |-> nextTx, batch |-> b]
    <2>2. LogBlock(t) /\ pc = "idle" /\ t.id \in Nat /\ t.batch \in Table
        BY <2>1, BatchesAssumption DEF StartCommit, IInv, TypeOK, HandleOK
    <2> HIDE DEF t
    <2>3. disk' = Logged(TxRecords(t.id, t.batch)) /\ pc' = "commit"
        BY <2>2, BlockLogged
    <2> DEFINE r == TxRecords(t.id, t.batch)
    <2>4. r \in Seq(Record) /\ Whole(r)
        BY <2>2, BlockWhole
    <2>5. /\ Running /\ man' = man /\ disk'.man = disk.man /\ disk'.files = disk.files
          /\ disk'.wal = disk.wal \o r
          /\ mem' = mem /\ older' = older /\ aborted' = aborted
          /\ Running' /\ pc' # "failed"
        <3>1. \A records : /\ Logged(records).man = disk.man
                            /\ Logged(records).files = disk.files
                            /\ Logged(records).wal = disk.wal \o records
            BY <1>1, LogKept DEF Logged
        <3>2. UNCHANGED <<man, mem, older, aborted>>
            BY <2>2 DEF LogBlock
        <3> QED  BY <2>2, <2>3, <3>1, <3>2 DEF Running
    <2> HIDE DEF r
    <2>6. Whole(disk'.wal)
        BY <1>1, <1>2, <2>4, <2>5, ConcatRecords
    <2> QED  BY <1>1, <1>4, <2>5, <2>6
<1>7. CASE SyncCommit
    <2>1. /\ Running /\ man' = man /\ disk'.man = disk.man /\ disk'.files = disk.files
          /\ disk'.wal = disk.wal /\ mem' = Over(tx.batch, mem) /\ older' = {}
          /\ aborted' = aborted /\ Running' /\ pc' # "failed"
        BY <1>1, <1>7, LogKept, FlushIfOverLimitOK DEF SyncCommit, Running
    <2>2. \A j \in Keys : mem'[j] = mem[j] \/ mem'[j] # Absent
        BY <2>1 DEF Over
    <2> QED  BY <1>1, <1>2, <1>4, <2>1, <2>2
<1>8. CASE Truncate
    <2>1. disk.man = man /\ man' = man /\ aborted' = aborted /\ Running
          /\ pc' \in {"plan", "idle", "full", "sync"} /\ older' \subseteq Images
          /\ disk' = WithLog(disk, <<>>, 0)
        BY <1>1, <1>8, AfterFlushOK
           DEF Truncate, FlushReturns, Goto, ControlOK, VInv, FlushedInv, Running, Lagging, Images
    <2>2. Running' /\ QuietAction
        BY <1>8, <2>1 DEF Running, QuietAction
    <2>3. disk'.man = disk.man
        BY <2>2, QuietFiles
    <2> DEFINE w == <<>>
    <2>4. w \in Seq(Record) /\ Whole(w) /\ 0 \in 0 .. Len(w)
        BY ReplayNothing, EmptySeq
    <2>5. disk' = WithLog(disk, w, 0)
        BY <2>1
    <2> HIDE DEF w
    <2>6. Whole(disk'.wal)
        BY <1>1, <2>4, <2>5, WithLogOK
    <2>7. \A d \in Images' : Whole(d.wal)
        BY <1>2, <2>1, <2>6 DEF Images
    <2> QED  BY <2>1, <2>3, <2>7 DEF KeptInv
<1>9. CASE PutFails \/ SyncCommitFails \/ RetryCommit \/ Abort
    BY <1>9 DEF PutFails, SyncCommitFails, RetryCommit, Abort, KeepsLog, KeptInv
<1>10. CASE DropClosed
    BY <1>2, <1>10 DEF DropClosed, ProcessEnds, KeptInv, Running, Images
<1>11. CASE Kill \/ LosePower
    <2>1. PICK d \in Images : \E n \in d.synced .. Len(d.wal) : disk'.wal = SubSeq(d.wal, 1, n)
        BY <1>11, CrashImages
    <2>2. PICK n \in d.synced .. Len(d.wal) : disk'.wal = SubSeq(d.wal, 1, n)
        BY <2>1
    <2>3. d.wal \in Seq(Record) /\ n \in 0 .. Len(d.wal)
        BY LenProperties DEF IInv, TypeOK, IsDisk
    <2>4. Whole(disk'.wal)
        BY <1>2, <2>2, <2>3, PrefixOK
    <2>5. ~Running' /\ aborted' = {} /\ older' \subseteq Images
        BY <1>1, <1>11, CrashImages
    <2> QED  BY <1>2, <2>4, <2>5 DEF KeptInv, Images, Running
<1>12. CASE Open
    <2>1. UNCHANGED <<disk, older, aborted>> /\ pc' \in {"down", "idle"}
          /\ (Running' => man' = disk.man)
        BY <1>12 DEF Open, Goto, Running
    <2> QED  BY <1>2, <2>1 DEF KeptInv, Images
<1>13. CASE Get \/ UNCHANGED vars
    <2>1. UNCHANGED <<pc, mem, man, disk, older, aborted>>
        BY <1>13 DEF Get, vars, local
    <2> QED  BY <2>1 DEF KeptInv, Images, Running
<1> QED
    BY <1>3, <1>5, <1>6, <1>7, <1>8, <1>9, <1>10, <1>11, <1>12, <1>13 DEF Next, Upkeep

-----------------------------------------------------------------------------
(* What opening a directory yields.                                        *)

\* What a sound directory yields is read key by key.
LEMMA RecoveredSeen ==
    ASSUME NEW d, Sound(d), NEW n
    PROVE  Recovered(d, n) =
                [k \in Keys |-> Seen(Replay(SubSeq(d.wal, 1, n)), d.man, d.files, k)]
<1>1. d.man \in Manifest /\ Intact(d.man, d.files) /\ Held(d.man, d.files)
    BY DEF Sound, IsDisk
<1> QED  BY <1>1, ViewSeen DEF Recovered

\* The same with the whole log.
LEMMA RecoveredWhole ==
    ASSUME NEW d, Sound(d)
    PROVE  Recovered(d, Len(d.wal)) = [k \in Keys |-> Seen(Replay(d.wal), d.man, d.files, k)]
<1> DEFINE n == Len(d.wal)
<1>1. SubSeq(d.wal, 1, n) = d.wal
    BY SubSeqFull DEF Sound, IsDisk
<1> HIDE DEF n
<1>2. Recovered(d, n) = [k \in Keys |-> Seen(Replay(SubSeq(d.wal, 1, n)), d.man, d.files, k)]
    BY RecoveredSeen
<1> QED  BY <1>1, <1>2 DEF n

\* A directory that holds what d holds yields what d yields.
LEMMA RecoveredLike ==
    ASSUME NEW d, NEW e, Sound(d), Sound(e), Like(e, d), NEW n
    PROVE  Recovered(e, n) = Recovered(d, n)
<1> DEFINE t == Replay(SubSeq(d.wal, 1, n))
<1>1. Recovered(e, n) = [k \in Keys |-> Seen(t, e.man, e.files, k)]
    BY RecoveredSeen DEF Like
<1>2. Recovered(d, n) = [k \in Keys |-> Seen(t, d.man, d.files, k)]
    BY RecoveredSeen
<1>3. d.man \in Manifest
    BY DEF Sound, IsDisk
<1>4. \A k \in Keys : TableEntry(e.man, e.files, k) = TableEntry(d.man, d.files, k)
    BY <1>3, TableEntryFrame DEF Like
<1> HIDE DEF t
<1>5. \A k \in Keys : Seen(t, e.man, e.files, k) = Seen(t, d.man, d.files, k)
    BY <1>4 DEF Seen
<1> QED  BY <1>1, <1>2, <1>5

\* A batch written over a table is what is seen first.
LEMMA SeenOver ==
    ASSUME NEW b, NEW t, NEW m, NEW f, NEW k \in Keys
    PROVE  Seen(Over(b, t), m, f, k) = IF b[k] = Absent THEN Seen(t, m, f, k) ELSE Visible(b[k])
BY DEF Over, Seen

\* Every directory is sound.  What a crash that loses nothing returns is what
\* get() does, except that it has the batch of a commit under way.
Recoverable ==
    /\ \A d \in Images : Sound(d)
    /\ \A s : s \in Survivors <=>
            \E d \in Images : \E n \in d.synced .. Len(d.wal) : s = Recovered(d, n)
    /\ Recovered(disk, Len(disk.wal)) \in Survivors
    /\ pc \notin {"commit", "failed"} => Current = Recovered(disk, Len(disk.wal))
    /\ Running =>
        /\ Current = [k \in Keys |-> Seen(mem, man, disk.files, k)]
        /\ Recovered(disk, Len(disk.wal)) = [k \in Keys |-> Seen(Pending, man, disk.files, k)]

\* The invariants so far make every state recoverable.
LEMMA RecoverableOK ==
    ASSUME Careful, IInv, LogInv, KeptInv
    PROVE  Recoverable
<1>1. \A d \in Images : Sound(d)
    BY ImagesSound
<1>2. disk \in Images /\ Sound(disk)
    BY <1>1 DEF Images
<1>3. \A s : s \in Survivors <=>
            \E d \in Images : \E n \in d.synced .. Len(d.wal) : s = Recovered(d, n)
    BY DEF Survivors
<1>4. Recovered(disk, Len(disk.wal)) \in Survivors
    <2>1. Len(disk.wal) \in disk.synced .. Len(disk.wal)
        BY <1>2, LenProperties DEF Sound, IsDisk
    <2> QED  BY <1>2, <1>3, <2>1
<1>5. ASSUME Running
      PROVE  Recovered(disk, Len(disk.wal)) = [k \in Keys |-> Seen(Pending, man, disk.files, k)]
    <2>1. Replay(disk.wal) = Pending
        BY <1>2, <1>5 DEF LogInv, KeptInv
    <2>2. \A k \in Keys : Seen(mem, disk.man, disk.files, k) = Seen(mem, man, disk.files, k)
        BY <1>5 DEF KeptInv
    <2>3. \A k \in Keys : Pending[k] = mem[k] \/ Pending[k] # Absent
        BY DEF Pending, Over
    <2>4. \A k \in Keys : Seen(Pending, disk.man, disk.files, k) = Seen(Pending, man, disk.files, k)
        BY <2>2, <2>3, SeenWritten
    <2>5. Recovered(disk, Len(disk.wal)) = [k \in Keys |-> Seen(Pending, disk.man, disk.files, k)]
        BY <1>2, <2>1, RecoveredWhole
    <2> QED  BY <2>4, <2>5
<1>6. Running => Current = [k \in Keys |-> Seen(mem, man, disk.files, k)]
    BY CurrentSeen
<1>7. ASSUME pc \notin {"commit", "failed"}
      PROVE  Current = Recovered(disk, Len(disk.wal))
    <2>1. CASE Running
        BY <1>5, <1>6, <1>7, <2>1 DEF Pending
    <2>2. CASE ~Running
        BY <2>2 DEF Current
    <2> QED  BY <2>1, <2>2
<1> QED  BY <1>1, <1>3, <1>4, <1>5, <1>6, <1>7 DEF Recoverable

\* What the proof of the promise knows of a state.
PromiseInv == IInv /\ FInv /\ VInv /\ LogInv /\ EmptyInv /\ KeptInv /\ Recoverable

-----------------------------------------------------------------------------
(* Each step keeps the promise of DurableMap.                              *)

\* The upkeep steps are none of a commit.
LEMMA UpkeepControl ==
    ASSUME IInv, Upkeep
    PROVE  pc \notin {"commit", "failed"} /\ pc' \notin {"commit", "failed"}
<1>1. CASE Running'
    BY <1>1, UpkeepLog
<1>2. CASE ~Running'
    <2>1. pc \notin {"commit", "failed"}
        BY DEF Upkeep, Call, BuildL0, BuildL0Fails, SaveL0, SaveL0Fails, TruncateFails,
               PlanCompaction, PlanFull, PlanFails, WriteSegment, WriteSegmentFails,
               SwapManifest, SwapManifestFails, DeleteOld, Gc, CloseAgain, SyncLog,
               SyncLogFails, SaveAndClose, SaveAndCloseFails
    <2> QED  BY <1>2, <2>1 DEF Running
<1> QED  BY <1>1, <1>2

\* Maintenance: what is read stays, and a crash can leave it.
LEMMA MaintainStep ==
    ASSUME pc \notin {"commit", "failed"}, pc' \notin {"commit", "failed"},
           Current' = Current, Current \in Survivors',
           \A s \in Survivors' : \A k \in Keys : \E r \in Survivors : s[k] = r[k]
    PROVE  Promise!Maintain
BY DEF Promise!Maintain, Promise!ValuesOf

\* Each map that a crash may leave after the step it could leave before.
LEMMA FewerSurvivors ==
    ASSUME PromiseInv, PromiseInv',
           \A e \in Images' : \A n \in e.synced .. Len(e.wal) : Recovered(e, n) \in Survivors
    PROVE  Survivors' \subseteq Survivors
BY DEF PromiseInv, Recoverable

\* The steps of flush(), compact(), gc() and close() that save no manifest.
LEMMA UpkeepMaintains ==
    ASSUME Careful, PromiseInv, PromiseInv', Upkeep, ~Saving
    PROVE  Promise!Maintain
<1>1. pc \notin {"commit", "failed"} /\ pc' \notin {"commit", "failed"}
    BY UpkeepControl DEF PromiseInv
<1>2. Like(disk', disk) /\ \A e \in Images' : \E d \in Images : Like(e, d)
    BY UpkeepImages DEF PromiseInv
<1>3. /\ \A d \in Images : Sound(d)
      /\ \A d \in Images' : Sound(d)
      /\ disk \in Images /\ disk' \in Images'
    BY DEF PromiseInv, Recoverable, Images
<1>4. \A e \in Images' : \A n \in e.synced .. Len(e.wal) : Recovered(e, n) \in Survivors
    <2> SUFFICES ASSUME NEW e \in Images', NEW n \in e.synced .. Len(e.wal)
                 PROVE  Recovered(e, n) \in Survivors
        OBVIOUS
    <2>1. PICK d \in Images : Like(e, d)
        BY <1>2
    <2>2. Recovered(e, n) = Recovered(d, n)
        BY <1>3, <2>1, RecoveredLike
    <2>3. d.synced \in Nat /\ e.synced \in Nat /\ Len(d.wal) \in Nat
        BY <1>3, LenProperties DEF Sound, IsDisk
    <2>4. n \in d.synced .. Len(d.wal)
        BY <2>1, <2>3 DEF Like
    <2> QED  BY <2>2, <2>4 DEF PromiseInv, Recoverable
<1>5. Survivors' \subseteq Survivors
    BY <1>4, FewerSurvivors
<1>6. Current' = Current
    <2>1. Current' = Recovered(disk', Len(disk'.wal)) /\ Current = Recovered(disk, Len(disk.wal))
        BY <1>1 DEF PromiseInv, Recoverable
    <2>2. Recovered(disk', Len(disk'.wal)) = Recovered(disk, Len(disk'.wal))
        BY <1>2, <1>3, RecoveredLike
    <2>3. disk'.wal = disk.wal
        BY <1>2 DEF Like
    <2> QED  BY <2>1, <2>2, <2>3
<1>7. Current \in Survivors'
    BY <1>1, <1>6 DEF PromiseInv, Recoverable
<1> QED  BY <1>1, <1>5, <1>6, <1>7, MaintainStep

\* A saved manifest shows of each key what was read: what flush() wrote or a
\* merge kept; entries of the log that is replayed over it hide that.
LEMMA SavingShows ==
    ASSUME PromiseInv, PromiseInv', [Next]_vars, Saving
    PROVE  /\ Current' = Current
           /\ \A k \in Keys : Stored(man', disk'.files, k) = Current[k]
<1>1. /\ Running /\ Running' /\ mem' = mem /\ disk'.files = disk.files
      /\ mem \in Table
    <2>1. ControlOK /\ AfterFlush(cont) # "down"
        BY AfterFlushOK DEF PromiseInv, IInv, TypeOK, ControlOK
    <2>2. Running /\ Running'
        BY <2>1 DEF Saving, SaveL0, SaveAndClose, SwapManifest, Goto, FlushReturns, Running
    <2> QED  BY <2>2, SavingImages DEF PromiseInv, IInv, TypeOK, HandleOK
<1>2. \A k \in Keys : Seen(mem, man', disk'.files, k) = Seen(mem, man, disk.files, k)
    BY <1>1, NextView DEF PromiseInv, SameView
<1>3. Current = [k \in Keys |-> Seen(mem, man, disk.files, k)]
    BY <1>1 DEF PromiseInv, Recoverable
<1>4. Current' = [k \in Keys |-> Seen(mem, man', disk'.files, k)]
    BY <1>1 DEF PromiseInv, Recoverable
<1>5. ASSUME NEW k \in Keys
      PROVE  Stored(man', disk'.files, k) = Seen(mem, man, disk.files, k)
    <2>1. CASE mem[k] = Absent
        BY <1>2, <2>1 DEF Seen, Stored
    <2>2. CASE SaveL0 /\ mem[k] # Absent
        <3>1. man' = man /\ pc = "save"
            BY <2>2 DEF SaveL0, local
        <3>2. man.l0 # <<>> /\ disk.files[man.l0[Len(man.l0)]] = mem
            BY <3>1 DEF PromiseInv, VInv, FlushedInv
        <3>3. man \in Manifest /\ Intact(man, disk.files) /\ Held(man, disk.files)
            BY <1>1 DEF PromiseInv, IInv, TypeOK, HandleOK, LiveInv
        <3>4. TableEntry(man, disk.files, k) = mem[k]
            BY <2>2, <3>2, <3>3, NewestFirst
        <3> QED  BY <1>1, <2>2, <3>1, <3>4 DEF Seen, Stored
    <2>3. CASE SaveAndClose \/ SwapManifest
        <3>1. mem = EmptyTable
            BY <2>3 DEF SaveAndClose, SwapManifest, PromiseInv, EmptyInv
        <3> QED  BY <2>1, <3>1 DEF EmptyTable
    <2> QED  BY <2>1, <2>2, <2>3 DEF Saving
<1> QED  BY <1>2, <1>3, <1>4, <1>5

\* The steps that save a manifest.
LEMMA SavingMaintains ==
    ASSUME PromiseInv, PromiseInv', [Next]_vars, Saving
    PROVE  Promise!Maintain
<1>1. pc \notin {"commit", "failed"} /\ pc' \notin {"commit", "failed"}
    <2>1. Upkeep
        BY DEF Saving, Upkeep
    <2> QED  BY <2>1, UpkeepControl DEF PromiseInv
<1>2. /\ Current' = Current
      /\ \A k \in Keys : Stored(man', disk'.files, k) = Current[k]
    BY SavingShows
<1>3. /\ disk'.man = man' /\ disk'.files = disk.files /\ disk'.wal = disk.wal
      /\ disk'.synced = disk.synced /\ older' \subseteq {disk}
    BY SavingImages DEF PromiseInv
<1>4. Current \in Survivors' /\ Current \in Survivors
    BY <1>1, <1>2 DEF PromiseInv, Recoverable
<1>5. disk \in Images /\ Sound(disk) /\ Sound(disk')
    BY DEF PromiseInv, Recoverable, Images
<1>6. ASSUME NEW n \in disk.synced .. Len(disk.wal), NEW k \in Keys
      PROVE  \E r \in Survivors : Recovered(disk', n)[k] = r[k]
    <2> DEFINE t == Replay(SubSeq(disk.wal, 1, n))
    <2>1. Recovered(disk', n) = [j \in Keys |-> Seen(t, man', disk'.files, j)]
        BY <1>3, <1>5, RecoveredSeen
    <2>2. Recovered(disk, n) = [j \in Keys |-> Seen(t, disk.man, disk.files, j)]
        BY <1>5, RecoveredSeen
    <2>3. Recovered(disk, n) \in Survivors
        BY <1>5 DEF PromiseInv, Recoverable
    <2> HIDE DEF t
    <2>4. CASE t[k] # Absent
        BY <2>1, <2>2, <2>3, <2>4 DEF Seen
    <2>5. CASE t[k] = Absent
        BY <1>2, <1>4, <2>1, <2>5 DEF Seen, Stored
    <2> QED  BY <2>4, <2>5
<1>7. ASSUME NEW s \in Survivors', NEW k \in Keys
      PROVE  \E r \in Survivors : s[k] = r[k]
    <2>1. PICK e \in Images' : \E n \in e.synced .. Len(e.wal) : s = Recovered(e, n)
        BY DEF PromiseInv, Recoverable
    <2>2. CASE e = disk'
        BY <1>3, <1>6, <2>1, <2>2
    <2>3. CASE e # disk'
        <3>1. e = disk
            BY <1>3, <2>3 DEF Images
        <3>2. s \in Survivors
            BY <1>5, <2>1, <3>1 DEF PromiseInv, Recoverable
        <3> QED  BY <3>2
    <2> QED  BY <2>2, <2>3
<1> QED  BY <1>1, <1>2, <1>4, <1>7, MaintainStep

\* The truncation of the log.
LEMMA TruncateMaintains ==
    ASSUME PromiseInv, PromiseInv', [Next]_vars, Truncate
    PROVE  Promise!Maintain /\ Recovered(disk', 0) = Current' /\ Len(disk'.wal) = 0
<1>1. /\ IsDisk(disk) /\ disk \in Images /\ ControlOK
      /\ pc = "truncate" /\ pc' \in {"plan", "idle", "full", "sync"}
      /\ older' \subseteq Images /\ disk' = WithLog(disk, <<>>, 0)
    BY AfterFlushOK
       DEF PromiseInv, IInv, TypeOK, Images, Truncate, FlushReturns, Goto, ControlOK, Lagging
<1>2. Running /\ Running'
    BY <1>1 DEF Running
<1>3. Current' = Current
    <2>1. \A k \in Keys : Seen(mem', man', disk'.files, k) = Seen(mem, man, disk.files, k)
        BY <1>1, <1>2, NextView DEF PromiseInv, SameView
    <2>2. Current = [k \in Keys |-> Seen(mem, man, disk.files, k)]
        BY <1>2 DEF PromiseInv, Recoverable
    <2>3. Current' = [k \in Keys |-> Seen(mem', man', disk'.files, k)]
        BY <1>2 DEF PromiseInv, Recoverable
    <2> QED  BY <2>1, <2>2, <2>3
<1>4. Current \in Survivors' /\ Current \in Survivors /\ Current' = Recovered(disk', Len(disk'.wal))
    BY <1>1, <1>3 DEF PromiseInv, Recoverable
<1>5. disk'.synced = 0 /\ Len(disk'.wal) = 0
    <2> DEFINE w == <<>>
    <2>1. w \in Seq(Record) /\ 0 \in 0 .. Len(w) /\ IsDisk(disk)
        BY <1>1, ReplayNothing, EmptySeq
    <2>2. disk' = WithLog(disk, w, 0)
        BY <1>1
    <2>3. Len(w) = 0
        BY EmptySeq
    <2> HIDE DEF w
    <2>4. disk'.wal = w
        BY <2>1, <2>2, WithLogOK
    <2>5. disk'.synced = 0
        BY <2>1, <2>2, WithLogOK
    <2> QED  BY <2>3, <2>4, <2>5
<1>6. \A e \in Images' : \A n \in e.synced .. Len(e.wal) : Recovered(e, n) \in Survivors
    <2> SUFFICES ASSUME NEW e \in Images', NEW n \in e.synced .. Len(e.wal)
                 PROVE  Recovered(e, n) \in Survivors
        OBVIOUS
    <2>1. CASE e = disk'
        BY <1>3, <1>4, <1>5, <2>1
    <2>2. CASE e \in Images
        BY <2>2 DEF PromiseInv, Recoverable
    <2> QED  BY <1>1, <2>1, <2>2 DEF Images
<1>7. Survivors' \subseteq Survivors
    BY <1>6, FewerSurvivors
<1>8. Promise!Maintain
    BY <1>1, <1>3, <1>4, <1>7, MaintainStep
<1>9. Recovered(disk', 0) = Current'
    BY <1>4, <1>5
<1> QED  BY <1>5, <1>8, <1>9

\* put() and delete(): the memtable shows the entry, and so does what a crash
\* leaves if the log keeps all of it.
LEMMA PutWrites ==
    ASSUME PromiseInv, PromiseInv', NEW k \in Keys, NEW e \in Entry, Put(k, e)
    PROVE  Promise!Write(k, e)
<1> DEFINE r == <<PutRec(k, e)>>
<1>1. /\ disk \in Images /\ Sound(disk) /\ Sound(disk') /\ IsDisk(disk) /\ disk.wal \in Seq(Record)
      /\ mem \in Table
    BY DEF PromiseInv, Recoverable, Images, Sound, IsDisk, IInv, TypeOK, HandleOK
<1>2. /\ disk'.wal = disk.wal \o r /\ disk'.synced = disk.synced
      /\ disk'.man = disk.man /\ disk'.files = disk.files
      /\ older' = older /\ man' = man /\ mem' = [mem EXCEPT ![k] = e]
      /\ pc = "idle" /\ pc' \in {"idle", "build"}
    BY <1>1, LogKept, FlushIfOverLimitOK DEF Put, Logged
<1>3. r \in Seq(Record) /\ Len(r) = 1
    BY PutWhole
<1> HIDE DEF r
<1>4. /\ Current = [j \in Keys |-> Seen(mem, man, disk.files, j)]
      /\ Current' = [j \in Keys |-> Seen(mem', man', disk'.files, j)]
      /\ Current' = Recovered(disk', Len(disk'.wal)) /\ Current' \in Survivors'
    BY <1>2 DEF PromiseInv, Recoverable, Running
<1>5. ASSUME NEW j \in Keys
      PROVE  Seen(mem', man', disk'.files, j) =
                IF j = k THEN Visible(e) ELSE Seen(mem, man, disk.files, j)
    <2>1. mem'[j] = IF j = k THEN e ELSE mem[j]
        BY <1>1, <1>2 DEF Table
    <2>2. e # Absent
        BY EntryAssumption DEF Entry
    <2> QED  BY <1>2, <2>1, <2>2 DEF Seen
<1>6. Current' = [Current EXCEPT ![k] = Visible(e)]
    BY <1>4, <1>5
<1>7. ASSUME NEW n \in disk'.synced .. Len(disk'.wal)
      PROVE  Recovered(disk', n) \in Survivors \cup {Current'}
    <2>1. disk.synced \in Nat /\ Len(disk.wal) \in Nat /\ Len(disk'.wal) = Len(disk.wal) + 1
          /\ n \in 0 .. Len(disk'.wal)
        <3>1. disk.synced \in Nat /\ Len(disk.wal) \in Nat
            BY <1>1, LenProperties DEF IsDisk
        <3>2. Len(disk'.wal) = Len(disk.wal) + 1
            <4>1. Len(disk.wal \o r) = Len(disk.wal) + Len(r)
                BY <1>1, <1>3, ConcatProperties
            <4> QED  BY <1>2, <1>3, <4>1
        <3> QED  BY <1>2, <3>1, <3>2
    <2>2. CASE n = Len(disk'.wal)
        BY <1>4, <2>2
    <2>3. CASE n # Len(disk'.wal)
        <3>1. n \in disk.synced .. Len(disk.wal)
            BY <1>2, <2>1, <2>3
        <3>2. SubSeq(disk'.wal, 1, n) = SubSeq(disk.wal, 1, n)
            BY <1>1, <1>2, <1>3, <2>1, <3>1, ConcatPrefix
        <3>3. Recovered(disk', n) = Recovered(disk, n)
            BY <1>2, <3>2 DEF Recovered
        <3> QED  BY <1>1, <3>1, <3>3 DEF PromiseInv, Recoverable
    <2> QED  BY <2>2, <2>3
<1>8. Survivors' \subseteq Survivors \cup {Current'}
    <2> SUFFICES ASSUME NEW s \in Survivors'  PROVE s \in Survivors \cup {Current'}
        OBVIOUS
    <2>1. PICK d \in Images' : \E n \in d.synced .. Len(d.wal) : s = Recovered(d, n)
        BY DEF PromiseInv, Recoverable
    <2>2. CASE d = disk'
        BY <1>7, <2>1, <2>2
    <2>3. CASE d # disk'
        <3>1. d \in Images
            BY <1>2, <2>3 DEF Images
        <3> QED  BY <2>1, <3>1 DEF PromiseInv, Recoverable
    <2> QED  BY <2>2, <2>3
<1>9. Visible(e) = Promise!Visible(e)
    BY DEF Visible, Promise!Visible
<1> QED  BY <1>2, <1>4, <1>6, <1>8, <1>9 DEF Promise!Write

\* What the tables hold with a batch read over what was there.
LEMMA AfterSeen ==
    ASSUME NEW b, NEW t, NEW m, NEW f, NEW c, c = [k \in Keys |-> Seen(t, m, f, k)]
    PROVE  [k \in Keys |-> Seen(Over(b, t), m, f, k)] = Promise!After(c, b)
<1>1. \A k \in Keys : Seen(Over(b, t), m, f, k) =
            IF b[k] = Absent THEN Seen(t, m, f, k) ELSE Visible(b[k])
    BY SeenOver
<1> QED  BY <1>1 DEF Promise!After, Promise!Visible, Visible

\* commit() logs its block: a crash may now leave all of it, and none of it in part.
LEMMA StartPrepares ==
    ASSUME KeepsLog, PromiseInv, PromiseInv', NEW b \in Batches, StartCommit(b)
    PROVE  Promise!Prepare
<1> DEFINE r == TxRecords(nextTx, b)
           z == Size(b)
           l == Len(disk.wal)
<1>1. /\ disk \in Images /\ Sound(disk) /\ Sound(disk') /\ IsDisk(disk) /\ disk.wal \in Seq(Record)
      /\ nextTx \in Nat /\ b \in Table /\ Whole(disk.wal)
    BY BatchesAssumption
       DEF PromiseInv, Recoverable, Images, Sound, IsDisk, IInv, TypeOK, HandleOK, KeptInv
<1>2. /\ pc = "idle" /\ pc' = "commit" /\ tx'.batch = b /\ disk' = Logged(r)
      /\ UNCHANGED <<man, mem, older>>
    <2> DEFINE t == [id |-> nextTx, batch |-> b]
    <2>1. LogBlock(t) /\ pc = "idle" /\ t.id = nextTx /\ t.batch = b
        BY DEF StartCommit
    <2> HIDE DEF t
    <2>2. disk' = Logged(TxRecords(t.id, t.batch)) /\ pc' = "commit" /\ tx' = t
        BY <2>1, BlockLogged
    <2>3. UNCHANGED <<man, mem, older>>
        BY <2>1 DEF LogBlock
    <2> QED  BY <2>1, <2>2, <2>3
<1>3. /\ disk'.wal = disk.wal \o r /\ disk'.synced = disk.synced
      /\ disk'.man = disk.man /\ disk'.files = disk.files
    BY <1>1, <1>2, LogKept DEF Logged
<1>4. r \in Seq(Record) /\ Len(r) = z + 2 /\ z \in Nat
    BY <1>1, BlockWhole
<1>5. l \in Nat /\ disk.synced \in 0 .. l /\ Len(disk'.wal) = l + z + 2
    <2>1. l \in Nat /\ disk.synced \in 0 .. l
        BY <1>1, LenProperties DEF IsDisk
    <2> HIDE DEF r, z, l
    <2>2. Len(disk.wal \o r) = Len(disk.wal) + Len(r)
        BY <1>1, <1>4, ConcatProperties
    <2>3. Len(disk'.wal) = Len(disk.wal) + Len(r)
        BY <1>3, <2>2
    <2>4. Len(disk'.wal) = l + (z + 2)
        BY <1>4, <2>3 DEF l
    <2>5. l + (z + 2) = l + z + 2
        BY <1>4, <2>1
    <2> QED  BY <2>1, <2>4, <2>5
<1>6. nextTx \notin Committed(disk.wal)
    <2>1. NamesBelow(disk.wal, nextTx)
        BY <1>1, <1>2 DEF PromiseInv, LogInv, KeptInv, Running
    <2>2. \A i \in 1 .. Len(disk.wal) : disk.wal[i].op = "commit" => disk.wal[i].tx # nextTx
        <3> SUFFICES ASSUME NEW i \in 1 .. Len(disk.wal), disk.wal[i].op = "commit"
                     PROVE  disk.wal[i].tx # nextTx
            OBVIOUS
        <3>1. disk.wal[i].tx \in Nat /\ disk.wal[i].tx < nextTx
            BY <1>1, <2>1, MaxTxIdAbove DEF NamesBelow
        <3> QED  BY <1>1, <3>1
    <2> QED  BY <1>1, <2>2, CommittedWhole
<1>7. /\ Current = [k \in Keys |-> Seen(mem, man, disk.files, k)]
      /\ Current' = [k \in Keys |-> Seen(mem', man', disk'.files, k)]
      /\ Current = Recovered(disk, l) /\ Recovered(disk, l) \in Survivors
      /\ Recovered(disk', Len(disk'.wal)) \in Survivors'
      /\ Recovered(disk', Len(disk'.wal)) = [k \in Keys |-> Seen(Pending', man', disk'.files, k)]
    BY <1>2 DEF PromiseInv, Recoverable, Running
<1>8. Current' = Current
    BY <1>2, <1>3, <1>7
<1>9. Recovered(disk', Len(disk'.wal)) = Promise!After(Current, b)
    <2>1. Pending' = Over(b, mem)
        BY <1>2 DEF Pending
    <2>2. [k \in Keys |-> Seen(Over(b, mem), man, disk.files, k)] = Promise!After(Current, b)
        <3> DEFINE c == Current
        <3>1. c = [k \in Keys |-> Seen(mem, man, disk.files, k)]
            BY <1>7
        <3> HIDE DEF c
        <3>2. [k \in Keys |-> Seen(Over(b, mem), man, disk.files, k)] = Promise!After(c, b)
            BY <3>1, AfterSeen
        <3> QED  BY <3>2 DEF c
    <2> QED  BY <1>2, <1>3, <1>7, <2>1, <2>2
<1> HIDE DEF r, z, l
<1>10. ASSUME NEW n \in 0 .. l
       PROVE  Recovered(disk', n) = Recovered(disk, n)
    <2>1. n \in 0 .. Len(disk.wal \o r) /\ n <= Len(disk.wal)
        BY <1>3, <1>4, <1>5 DEF l
    <2>2. SubSeq(disk'.wal, 1, n) = SubSeq(disk.wal, 1, n)
        BY <1>1, <1>3, <1>4, <2>1, ConcatPrefix
    <2> QED  BY <1>3, <2>2 DEF Recovered
<1>11. ASSUME NEW n \in l + 1 .. l + z + 1
       PROVE  Recovered(disk', n) = Recovered(disk, l)
    <2>1. n \in 0 .. Len(disk.wal \o r) /\ n > Len(disk.wal)
        BY <1>3, <1>4, <1>5 DEF l
    <2> DEFINE m == n - l
    <2>2. m \in 0 .. z + 1 /\ SubSeq(disk'.wal, 1, n) = disk.wal \o SubSeq(r, 1, m)
        <3>1. SubSeq(disk.wal \o r, 1, n) = disk.wal \o SubSeq(r, 1, n - Len(disk.wal))
            BY <1>1, <1>4, <2>1, ConcatPrefix
        <3>2. SubSeq(disk'.wal, 1, n) = disk.wal \o SubSeq(r, 1, m)
            BY <1>3, <3>1 DEF l
        <3>3. m \in 0 .. z + 1
            BY <1>4, <1>5
        <3> QED  BY <3>2, <3>3
    <2> HIDE DEF m
    <2>3. Replay(disk.wal \o SubSeq(TxRecords(nextTx, b), 1, m)) = Replay(disk.wal)
        BY <1>1, <1>6, <2>2, ReplayPart DEF z
    <2>4. Replay(SubSeq(disk'.wal, 1, n)) = Replay(disk.wal)
        BY <2>2, <2>3 DEF r
    <2>5. SubSeq(disk.wal, 1, l) = disk.wal
        BY <1>1, SubSeqFull DEF l
    <2>6. Replay(SubSeq(disk'.wal, 1, n)) = Replay(SubSeq(disk.wal, 1, l))
        BY <2>4, <2>5
    <2> QED  BY <1>3, <2>6 DEF Recovered
<1>12. Survivors' \subseteq Survivors \cup {Promise!After(Current, b)}
    <2> SUFFICES ASSUME NEW s \in Survivors'
                 PROVE  s \in Survivors \cup {Promise!After(Current, b)}
        OBVIOUS
    <2>1. PICK d \in Images' : \E n \in d.synced .. Len(d.wal) : s = Recovered(d, n)
        BY DEF PromiseInv, Recoverable
    <2>2. PICK n \in d.synced .. Len(d.wal) : s = Recovered(d, n)
        BY <2>1
    <2>3. CASE d = disk'
        <3>1. n \in disk.synced .. l \/ n \in l + 1 .. l + z + 1 \/ n = l + z + 2
            <4>1. n \in disk'.synced .. Len(disk'.wal)
                BY <2>3
            <4>2. n \in disk.synced .. l + z + 2
                BY <1>3, <1>5, <4>1
            <4> QED  BY <1>4, <1>5, <4>2
        <3>2. CASE n \in disk.synced .. l
            <4>1. s = Recovered(disk, n)
                BY <1>5, <1>10, <2>2, <2>3, <3>2
            <4> QED  BY <1>1, <3>2, <4>1 DEF PromiseInv, Recoverable, l
        <3>3. CASE n \in l + 1 .. l + z + 1
            BY <1>7, <1>11, <2>2, <2>3, <3>3
        <3>4. CASE n = l + z + 2
            BY <1>5, <1>9, <2>2, <2>3, <3>4
        <3> QED  BY <3>1, <3>2, <3>3, <3>4
    <2>4. CASE d # disk'
        <3>1. d \in Images
            BY <1>2, <2>4 DEF Images
        <3> QED  BY <2>1, <3>1 DEF PromiseInv, Recoverable
    <2> QED  BY <2>3, <2>4
<1>13. Survivors \cup {Promise!After(Current, b)} \subseteq Survivors'
    <2>1. Promise!After(Current, b) \in Survivors'
        BY <1>7, <1>9
    <2>2. ASSUME NEW s \in Survivors  PROVE s \in Survivors'
        <3>1. PICK d \in Images : \E n \in d.synced .. Len(d.wal) : s = Recovered(d, n)
            BY DEF PromiseInv, Recoverable
        <3>2. PICK n \in d.synced .. Len(d.wal) : s = Recovered(d, n)
            BY <3>1
        <3>3. CASE d = disk
            <4>1. n \in 0 .. l /\ n \in disk'.synced .. Len(disk'.wal)
                BY <1>3, <1>4, <1>5, <3>2, <3>3 DEF l
            <4>2. s = Recovered(disk', n) /\ disk' \in Images'
                BY <1>10, <3>2, <3>3, <4>1 DEF Images
            <4> QED  BY <4>1, <4>2 DEF PromiseInv, Recoverable
        <3>4. CASE d # disk
            <4>1. d \in Images'
                BY <1>2, <3>4 DEF Images
            <4> QED  BY <3>2, <4>1 DEF PromiseInv, Recoverable
        <3> QED  BY <3>3, <3>4
    <2> QED  BY <2>1, <2>2
<1>14. b \in Promise!Table
    BY <1>1 DEF Table, Entry, Promise!Table, Promise!Entry
<1> QED  BY <1>2, <1>8, <1>12, <1>13, <1>14 DEF Promise!Prepare, EmptyTable, Promise!EmptyTable

\* The fsync of commit(): what every crash leaves has the batch.
LEMMA SyncCommits ==
    ASSUME PromiseInv, PromiseInv', SyncCommit
    PROVE  Promise!Commit /\ Survivors' = {Current'}
<1>1. /\ pc = "commit" /\ pc' \in {"idle", "build"} /\ mem' = Over(tx.batch, mem)
      /\ man' = man /\ older' = {} /\ disk' = [disk EXCEPT !.synced = Len(disk.wal)]
      /\ IsDisk(disk)
    BY FlushIfOverLimitOK DEF SyncCommit, PromiseInv, IInv, TypeOK, Images
<1>2. /\ disk'.wal = disk.wal /\ disk'.synced = Len(disk.wal)
      /\ disk'.man = disk.man /\ disk'.files = disk.files
    BY <1>1, LogKept
<1>3. /\ Current = [k \in Keys |-> Seen(mem, man, disk.files, k)]
      /\ Current' = [k \in Keys |-> Seen(mem', man', disk'.files, k)]
      /\ Current' = Recovered(disk', Len(disk'.wal)) /\ Current' \in Survivors'
    BY <1>1 DEF PromiseInv, Recoverable, Running
<1>4. Current' = Promise!After(Current, tx.batch)
    <2> DEFINE c == Current
               b == tx.batch
               t == mem
               m == man
               f == disk.files
    <2>1. c = [k \in Keys |-> Seen(t, m, f, k)]
        BY <1>3
    <2>2. Current' = [k \in Keys |-> Seen(Over(b, t), m, f, k)]
        BY <1>1, <1>2, <1>3
    <2> HIDE DEF c, b, t, m, f
    <2>3. [k \in Keys |-> Seen(Over(b, t), m, f, k)] = Promise!After(c, b)
        BY <2>1, AfterSeen
    <2>4. Current' = Promise!After(c, b)
        BY <2>2, <2>3
    <2> QED  BY <2>4 DEF c, b
<1>5. Len(disk.wal) \in Nat
    BY <1>1, LenProperties DEF IsDisk
<1>6. ASSUME NEW s \in Survivors'
      PROVE  s = Current'
    <2>1. PICK d \in Images' : \E n \in d.synced .. Len(d.wal) : s = Recovered(d, n)
        BY DEF PromiseInv, Recoverable
    <2>2. d = disk'
        BY <1>1 DEF Images
    <2>3. PICK n \in d.synced .. Len(d.wal) : s = Recovered(d, n)
        BY <2>1
    <2>4. n = Len(disk'.wal)
        BY <1>2, <1>5, <2>2
    <2> QED  BY <1>3, <2>2, <2>3, <2>4
<1>7. Survivors' = {Current'}
    BY <1>3, <1>6
<1> QED  BY <1>1, <1>4, <1>7 DEF Promise!Commit, EmptyTable, Promise!EmptyTable

\* The end of the process and the loss of power.
LEMMA EndCrashes ==
    ASSUME KeepsLog, PromiseInv, PromiseInv', Kill \/ LosePower
    PROVE  Promise!Crash
<1>1. /\ ~Running' /\ older' \subseteq older
      /\ \E d \in Images : \E n \in d.synced .. Len(d.wal) :
            /\ disk'.man = d.man /\ disk'.files = d.files
            /\ disk'.wal = SubSeq(d.wal, 1, n) /\ d.synced <= disk'.synced
    BY CrashImages DEF PromiseInv
<1>2. PICK d \in Images : \E n \in d.synced .. Len(d.wal) :
            /\ disk'.man = d.man /\ disk'.files = d.files
            /\ disk'.wal = SubSeq(d.wal, 1, n) /\ d.synced <= disk'.synced
    BY <1>1
<1>3. PICK n \in d.synced .. Len(d.wal) :
            /\ disk'.man = d.man /\ disk'.files = d.files
            /\ disk'.wal = SubSeq(d.wal, 1, n) /\ d.synced <= disk'.synced
    BY <1>2
<1>4. /\ Sound(d) /\ Sound(disk') /\ d.wal \in Seq(Record) /\ Len(d.wal) \in Nat
      /\ d.synced \in Nat /\ disk'.synced \in Nat /\ disk'.wal \in Seq(Record)
    BY LenProperties DEF PromiseInv, Recoverable, Images, Sound, IsDisk
<1>5. n \in 0 .. Len(d.wal) /\ Len(disk'.wal) = n
    <2>1. n \in 0 .. Len(d.wal)
        BY <1>4
    <2>2. Len(SubSeq(d.wal, 1, n)) = n
        BY <1>4, <2>1, PrefixOK
    <2> QED  BY <1>3, <2>1, <2>2
<1>6. ASSUME NEW m \in disk'.synced .. n
      PROVE  Recovered(disk', m) \in Survivors
    <2>1. m \in 0 .. n /\ m \in d.synced .. Len(d.wal)
        BY <1>3, <1>4, <1>5
    <2>2. SubSeq(SubSeq(d.wal, 1, n), 1, m) = SubSeq(d.wal, 1, m)
        BY <1>4, <1>5, <2>1, PrefixOfPrefix
    <2>3. Recovered(disk', m) = Recovered(d, m)
        BY <1>3, <2>2 DEF Recovered
    <2> QED  BY <2>1, <2>3 DEF PromiseInv, Recoverable
<1>7. Survivors' \subseteq Survivors
    <2>1. \A e \in Images' : \A m \in e.synced .. Len(e.wal) : Recovered(e, m) \in Survivors
        <3> SUFFICES ASSUME NEW e \in Images', NEW m \in e.synced .. Len(e.wal)
                     PROVE  Recovered(e, m) \in Survivors
            OBVIOUS
        <3>1. CASE e = disk'
            BY <1>5, <1>6, <3>1
        <3>2. CASE e # disk'
            <4>1. e \in Images
                BY <1>1, <3>2 DEF Images
            <4> QED  BY <4>1 DEF PromiseInv, Recoverable
        <3> QED  BY <3>1, <3>2
    <2> QED  BY <2>1, FewerSurvivors
<1>8. Current' \in Survivors'
    BY <1>1 DEF PromiseInv, Recoverable, Running
<1> QED  BY <1>1, <1>7, <1>8 DEF Promise!Crash, Running, EmptyTable, Promise!EmptyTable

\* The steps after which a client and a crash see what they saw.
LEMMA OtherSteps ==
    ASSUME PromiseInv, PromiseInv', DropClosed \/ Open \/ Get \/ UNCHANGED vars
    PROVE  UNCHANGED Promise!dvars
<1>1. CASE DropClosed \/ Open
    <2>1. /\ UNCHANGED <<disk, older>>
          /\ pc \notin {"commit", "failed"} /\ pc' \notin {"commit", "failed"}
        BY <1>1 DEF DropClosed, ProcessEnds, Open, Goto
    <2>2. Current = Recovered(disk, Len(disk.wal)) /\ Current' = Recovered(disk', Len(disk'.wal))
        BY <2>1 DEF PromiseInv, Recoverable
    <2>3. Survivors' = Survivors
        BY <2>1 DEF Survivors, Images
    <2> QED  BY <2>1, <2>2, <2>3 DEF Promise!dvars
<1>2. CASE Get \/ UNCHANGED vars
    <2>1. UNCHANGED <<pc, mem, man, disk, older, tx>>
        BY <1>2 DEF Get, vars, local
    <2> QED  BY <2>1 DEF Promise!dvars, Current, Survivors, Images, Running
<1> QED  BY <1>1, <1>2

\* A new directory promises the empty map, and nothing else after a crash.
LEMMA InitPromise ==
    ASSUME Careful, Init
    PROVE  PromiseInv /\ Promise!DInit
<1>1. IInv /\ FInv
    BY InitInvariant, InitFInv
<1>2. /\ pc = "down" /\ ~Running /\ disk = NewDisk /\ older = {} /\ aborted = {}
      /\ Images = {disk}
    BY DEF Init, Running, Images
<1>3. VInv /\ LogInv /\ EmptyInv
    BY <1>2 DEF VInv, FlushedInv, MergeInv, LogInv, EmptyInv
<1>4. disk.wal = <<>> /\ disk.synced = 0 /\ disk.man = NewManifest /\ Len(disk.wal) = 0
    BY <1>2, EmptySeq DEF NewDisk
<1>5. Whole(disk.wal) /\ Replay(disk.wal) = EmptyTable
    BY <1>4, ReplayNothing
<1>6. KeptInv
    BY <1>2, <1>5 DEF KeptInv
<1>7. Recoverable
    BY <1>1, <1>3, <1>6, RecoverableOK
<1>8. Sound(disk) /\ Current = Recovered(disk, Len(disk.wal))
    BY <1>2, <1>7 DEF Recoverable
<1>9. Current = [k \in Keys |-> Absent]
    <2>1. NewManifest \in Manifest /\ NewManifest.l0 = <<>> /\ NewManifest.segs = {}
        BY NewManifestOK DEF NewManifest
    <2>2. ASSUME NEW k \in Keys
          PROVE  Seen(EmptyTable, disk.man, disk.files, k) = Absent
        <3> DEFINE f == disk.files
                   m == NewManifest
        <3>1. Intact(m, f) /\ Held(m, f) /\ m \in Manifest /\ m.l0 = <<>> /\ m.segs = {}
            BY <1>4, <1>8, <2>1 DEF Sound
        <3> HIDE DEF m
        <3>2. TableEntry(m, f, k) = Absent
            BY <3>1, SegmentsShown
        <3> QED  BY <1>4, <3>2, VisibleTwice DEF Seen, EmptyTable, m
    <2>3. Recovered(disk, Len(disk.wal)) = [k \in Keys |-> Seen(EmptyTable, disk.man, disk.files, k)]
        BY <1>5, <1>8, RecoveredWhole
    <2> QED  BY <1>8, <2>2, <2>3
<1>10. Survivors = {Current}
    <2>1. \A s : s \in Survivors <=> \E n \in disk.synced .. Len(disk.wal) : s = Recovered(disk, n)
        BY <1>2, <1>7 DEF Recoverable
    <2>2. \A n : n \in disk.synced .. Len(disk.wal) <=> n = Len(disk.wal)
        BY <1>4
    <2> QED  BY <1>8, <2>1, <2>2
<1> QED
    BY <1>1, <1>2, <1>3, <1>6, <1>7, <1>9, <1>10
       DEF PromiseInv, Promise!DInit, EmptyTable, Promise!EmptyTable

\* Every step keeps the promise.
LEMMA NextPromise ==
    ASSUME KeepsLog, Careful, PromiseInv, PromiseInv', [Next]_vars
    PROVE  [Promise!DNext]_(Promise!dvars)
<1>1. CASE Upkeep
    BY <1>1, UpkeepMaintains, SavingMaintains DEF Promise!DNext
<1>2. CASE \E k \in Keys, e \in Entry : Put(k, e)
    <2>1. PICK k \in Keys, e \in Entry : Put(k, e)
        BY <1>2
    <2>2. Promise!Write(k, e) /\ e \in Promise!Entry
        BY <2>1, PutWrites DEF Entry, Promise!Entry
    <2> QED  BY <2>2 DEF Promise!DNext
<1>3. CASE \E b \in Batches : StartCommit(b)
    BY <1>3, StartPrepares DEF Promise!DNext
<1>4. CASE SyncCommit
    BY <1>4, SyncCommits DEF Promise!DNext
<1>5. CASE Truncate
    BY <1>5, TruncateMaintains DEF Promise!DNext
<1>6. CASE Kill \/ LosePower
    BY <1>6, EndCrashes DEF Promise!DNext
<1>7. CASE DropClosed \/ Open \/ Get \/ UNCHANGED vars
    BY <1>7, OtherSteps
<1>8. ~(PutFails \/ SyncCommitFails \/ RetryCommit \/ Abort)
    BY DEF PutFails, SyncCommitFails, RetryCommit, Abort, KeepsLog, PromiseInv, KeptInv
<1> QED  BY <1>1, <1>2, <1>3, <1>4, <1>5, <1>6, <1>7, <1>8 DEF Next, Upkeep

\* The invariants the promise rests on hold in every reachable state.
LEMMA PromiseInvariance ==
    ASSUME KeepsLog, Careful
    PROVE  Spec => []PromiseInv
<1> USE DEF Spec
<1> DEFINE Kept == IInv /\ FInv /\ VInv /\ LogInv /\ EmptyInv /\ KeptInv
<1>1. Init => Kept
    BY InitPromise DEF PromiseInv
<1>2. Kept /\ [Next]_vars => Kept'
    <2> SUFFICES ASSUME Kept, [Next]_vars  PROVE Kept'
        OBVIOUS
    <2>1. IInv' /\ FInv'
        BY NextInvariant, NextFInv
    <2>2. VInv'
        BY <2>1, NextView
    <2>3. LogInv' /\ EmptyInv'
        BY NextLog, NextEmpty
    <2>4. KeptInv'
        BY <2>1, NextKept
    <2> QED  BY <2>1, <2>2, <2>3, <2>4
<1>3. Kept => PromiseInv
    BY RecoverableOK DEF PromiseInv
<1> QED  BY <1>1, <1>2, <1>3, PTL

\* Where no append and no fsync fails and a crash cuts the log between records,
\* and gc() is not called after a save that failed, the engine implements
\* DurableMap, power losses included: commits survive as a whole, flush, merges
\* and gc() change nothing that is read and bring nothing back that a crash could
\* not have left before (Transaction::commit, flush, compact, gc, open_with).
THEOREM EngineKeepsPromise == KeepsLog /\ Careful => (Spec => KeepsPromise)
<1> SUFFICES ASSUME KeepsLog, Careful  PROVE Spec => KeepsPromise
    OBVIOUS
<1>1. Init => Promise!DInit
    BY InitPromise
<1>2. PromiseInv /\ PromiseInv' /\ [Next]_vars => [Promise!DNext]_(Promise!dvars)
    BY NextPromise
<1>3. Spec => []PromiseInv
    BY PromiseInvariance
<1> QED  BY <1>1, <1>2, <1>3, PTL DEF Spec, KeepsPromise, Promise!DSpec

\* When commit() returns, every crash and every power loss leaves exactly what
\* is now read, under the same conditions; the run torn_tail shows that a crash
\* in the middle of a record breaks it (Transaction::commit, wal::replay).
THEOREM CommitsAreDurable == KeepsLog /\ Careful => (Spec => CommitDurable)
<1> SUFFICES ASSUME KeepsLog, Careful  PROVE Spec => CommitDurable
    OBVIOUS
<1>1. PromiseInv /\ PromiseInv' /\ [Next]_vars
        => [SyncCommit => Survivors' = {Current'}]_vars
    BY SyncCommits
<1>2. Spec => []PromiseInv
    BY PromiseInvariance
<1> QED  BY <1>1, <1>2, PTL DEF Spec, CommitDurable

-----------------------------------------------------------------------------
(* What a flush leaves.                                                    *)

\* As long as power does not fail, a crash finds the directory as it is.
LEMMA NoOlder ==
    ASSUME ~PowerLoss, older = {}, [Next]_vars
    PROVE  older' = {}
BY DEF Next, Put, PutFails, StartCommit, LogBlock, SyncCommit, SyncCommitFails, RetryCommit,
       Abort, Call, BuildL0, BuildL0Fails, SaveL0, SaveL0Fails, Truncate, TruncateFails,
       PlanCompaction, PlanFull, PlanFails, WriteSegment, WriteSegmentFails, SwapManifest,
       SwapManifestFails, DeleteOld, Gc, CloseAgain, DropClosed, SyncLog, SyncLogFails,
       SaveAndClose, SaveAndCloseFails, Kill, LosePower, Open, Get, vars, Lagging

\* With an empty memtable nothing of the log applies, however much of it is left.
LEMMA EmptySurvivors ==
    ASSUME PromiseInv, older = {}, pc = "idle", mem = EmptyTable
    PROVE  Survivors = {Current}
<1>1. /\ Sound(disk) /\ Whole(disk.wal) /\ disk.wal \in Seq(Record) /\ Images = {disk}
      /\ Len(disk.wal) \in Nat /\ disk.synced \in Nat
    BY LenProperties DEF PromiseInv, Recoverable, KeptInv, Images, Sound, IsDisk
<1>2. Replay(disk.wal) = EmptyTable
    BY <1>1 DEF PromiseInv, LogInv, KeptInv, Running, Pending
<1>3. ASSUME NEW n \in disk.synced .. Len(disk.wal)
      PROVE  Recovered(disk, n) = [k \in Keys |-> Seen(EmptyTable, disk.man, disk.files, k)]
    <2>1. n \in 0 .. Len(disk.wal)
        BY <1>1
    <2>2. Replay(SubSeq(disk.wal, 1, n)) = EmptyTable
        BY <1>1, <1>2, <2>1, ReplayPrefixEmpty
    <2> QED  BY <1>1, <2>2, RecoveredSeen
<1>4. /\ Current = Recovered(disk, Len(disk.wal)) /\ Current \in Survivors
      /\ Len(disk.wal) \in disk.synced .. Len(disk.wal)
    <2>1. disk.synced <= Len(disk.wal)
        BY <1>1 DEF Sound, IsDisk
    <2> QED  BY <1>1, <2>1 DEF PromiseInv, Recoverable
<1>5. ASSUME NEW s \in Survivors  PROVE s = Current
    <2>1. \E n \in disk.synced .. Len(disk.wal) : s = Recovered(disk, n)
        BY <1>1 DEF PromiseInv, Recoverable
    <2> QED  BY <1>3, <1>4, <2>1
<1> QED  BY <1>4, <1>5

\* When a flush() that wrote something returns, every end of the process leaves
\* exactly what is now read, under the same conditions, as long as power does
\* not fail: the truncation of the log is a directory operation like any other,
\* and a power loss may undo it (flush, Wal::truncate).
THEOREM FlushesAreDurable == KeepsLog /\ Careful /\ ~PowerLoss => (Spec => FlushDurable)
<1> SUFFICES ASSUME KeepsLog, Careful, ~PowerLoss  PROVE Spec => FlushDurable
    OBVIOUS
<1> DEFINE Settled == pc = "idle" /\ mem = EmptyTable => Survivors = {Current}
<1>1. Init => older = {}
    BY DEF Init
<1>2. older = {} /\ [Next]_vars => (older = {})'
    BY NoOlder
<1>3. PromiseInv /\ older = {} => Settled
    BY EmptySurvivors
<1>4. Settled' => [FlushSucceeds => Survivors' = {Current'}]_vars
    BY DEF FlushSucceeds
<1>5. Spec => []PromiseInv
    BY PromiseInvariance
<1> HIDE DEF Settled
<1> QED  BY <1>1, <1>2, <1>3, <1>4, <1>5, PTL DEF Spec, FlushDurable

-----------------------------------------------------------------------------
(* Backups: a complete backup is restored to a directory that opens and    *)
(* reads as the database did, and what it holds is durable in the database *)
(* itself.                                                                 *)

\* Saving the manifest never fails: see backup_after_failed_save.cfg.
SavesWork == "save" \notin Faults

Copying == step \in {"version", "manifest", "tables"}

\* While backup() copies, nothing waits in the memtable, and the destination
\* holds what has been copied of the tables in the manifest.
CopyInv ==
    /\ step = "flush" => Running /\ (pc = "idle" => mem = EmptyTable)
    /\ Copying => pc = "idle" /\ mem = EmptyTable /\ saved = NotSaved
    /\ step = "version" => dest = EmptyDest /\ todo = AllIds(man)
    /\ step = "manifest" =>
            dest = [EmptyDest EXCEPT !.version = FormatVersion] /\ todo = AllIds(man)
    /\ step = "tables" =>
            /\ dest = [version |-> FormatVersion, man |-> dest.man, files |-> dest.files]
            /\ dest.man \in ManifestFile
            /\ todo \subseteq AllIds(man)
            /\ DOMAIN dest.files = AllIds(man) \ todo
            /\ \A id \in DOMAIN dest.files : dest.files[id] = disk.files[id]

\* A complete copy is not empty, so no later backup() touches it.
CompleteInv == saved # NotSaved => dest.version = FormatVersion /\ BackupsReadBack

BInv == IInv /\ FInv /\ CopyInv /\ CompleteInv

-----------------------------------------------------------------------------
(* What a copy reads as.                                                   *)

\* What is read depends on the lists of a manifest and the files it names.
LEMMA ViewsAgree ==
    ASSUME NEW m, NEW n, m.l0 = n.l0, m.segs = n.segs,
           NEW f, NEW g, \A id \in AllIds(n) : f[id] = g[id], NEW t
    PROVE  ViewOf(t, m, f) = ViewOf(t, n, g)
<1>1. \A i \in DOMAIN n.l0 : f[n.l0[i]] = g[n.l0[i]]
    BY DEF AllIds, Range
<1>2. L0Tables(m, f) = L0Tables(n, g)
    BY <1>1 DEF L0Tables
<1>3. \A k : FindSegment(m, k) = FindSegment(n, k) /\ FindSegment(n, k) \subseteq n.segs
    BY DEF FindSegment
<1>4. \A s \in n.segs : f[s.id] = g[s.id]
    BY DEF AllIds
<1>5. \A k : {f[s.id] : s \in FindSegment(m, k)} = {g[s.id] : s \in FindSegment(n, k)}
    BY <1>3, <1>4
<1>6. \A k : Lookup(t, m, f, k) = Lookup(t, n, g, k)
    BY <1>2, <1>5 DEF Lookup
<1> QED  BY <1>6 DEF ViewOf

\* A database without tables holds nothing but its memtable.
LEMMA EmptyView ==
    ASSUME NEW m, m.l0 = <<>>, m.segs = {}, NEW f
    PROVE  ViewOf(EmptyTable, m, f) = EmptyTable
<1>1. DOMAIN L0Tables(m, f) = {}
    BY DEF L0Tables
<1>2. \A k : NewestEntry(L0Tables(m, f), k) = Absent
    BY <1>1 DEF NewestEntry
<1>3. \A k : FindSegment(m, k) = {}
    BY DEF FindSegment
<1>4. \A k : AnyEntry({f[s.id] : s \in FindSegment(m, k)}, k) = Absent
    BY <1>3 DEF AnyEntry
<1>5. \A k \in Keys : Lookup(EmptyTable, m, f, k) = Absent
    BY <1>2, <1>4 DEF Lookup, EmptyTable
<1>6. Visible(Absent) = Absent
    BY EntryAssumption DEF Visible
<1> QED  BY <1>5, <1>6 DEF ViewOf, EmptyTable

\* When the last table is copied, the copy is what was to be copied.
LEMMA CompleteCopy ==
    ASSUME BInv, SavesWork, step = "tables", todo = {}
    PROVE  IF RestoreAccepts(dest)
           THEN Opens(Restored(dest)) /\ ReadBack(Restored(dest)) = Current
           ELSE dest.man = Missing /\ Current = EmptyTable
<1>1. /\ pc = "idle" /\ mem = EmptyTable /\ dest.version = FormatVersion
      /\ dest.man \in ManifestFile
      /\ DOMAIN dest.files = AllIds(man)
      /\ \A id \in DOMAIN dest.files : dest.files[id] = disk.files[id]
    BY DEF BInv, CopyInv, Copying
<1>2. Running /\ Current = ViewOf(EmptyTable, man, disk.files)
    BY <1>1 DEF Running, Current
<1>3. disk.man.l0 = man.l0 /\ disk.man.segs = man.segs
    BY <1>1, <1>2 DEF BInv, FInv, ListsInv, SavesWork
<1>4. /\ disk.man \in Manifest /\ Intact(disk.man, disk.files)
      /\ Held(man, disk.files)
    BY <1>2 DEF BInv, IInv, TypeOK, DirectoryInv, Good, LiveInv, Images, IsDisk
<1>5. CASE dest.man = Missing
    <2>1. disk.man = NewManifest
        BY <1>1, <1>4, <1>5, BackupAssumption DEF ManifestFile
    <2>2. man.l0 = <<>> /\ man.segs = {}
        BY <1>3, <2>1 DEF NewManifest
    <2> QED  BY <1>2, <1>5, <2>2, EmptyView DEF RestoreAccepts
<1>6. CASE dest.man # Missing
    <2> DEFINE r == Restored(dest)
    <2>1. dest.man = disk.man
        BY <1>1, <1>6 DEF ManifestFile
    <2>2. AllIds(disk.man) = AllIds(man)
        BY <1>3 DEF AllIds
    <2>3. /\ r.man = disk.man /\ DOMAIN r.files = AllIds(man)
          /\ \A id \in AllIds(man) : r.files[id] = disk.files[id]
        BY <1>1, <2>1, <2>2 DEF Restored
    <2> HIDE DEF r
    <2>4. Intact(r.man, r.files) /\ Held(r.man, r.files)
        <3>1. \A id \in AllIds(disk.man) \cap DOMAIN r.files :
                 id \in DOMAIN disk.files /\ r.files[id] = disk.files[id]
            BY <1>4, <2>2, <2>3 DEF Held
        <3>2. Intact(disk.man, r.files)
            BY <1>4, <3>1, IntactFrame
        <3> QED  BY <2>2, <2>3, <3>2 DEF Held
    <2>5. Opens(r)
        BY <2>4, IntactOpens
    <2>6. ReadBack(r) = Current
        BY <1>2, <1>3, <2>3, ViewsAgree DEF ReadBack
    <2>7. RestoreAccepts(dest)
        BY <1>1, <1>6 DEF RestoreAccepts, Compatible
    <2> QED  BY <2>5, <2>6, <2>7 DEF r
<1> QED  BY <1>5, <1>6

-----------------------------------------------------------------------------
(* The invariant.                                                          *)

\* Every step of BNext is a step of the engine or leaves it alone.
LEMMA EngineBelow == BNext => [Next]_vars
<1>1. StartBackup => Next
    <2>1. Call("flush") => "flush" \in Calls
        BY DEF Call
    <2> QED  BY <2>1 DEF StartBackup, Next
<1>2. KilledInBackup => Next
    BY DEF KilledInBackup, Next
<1>3. FlushStep \/ EngineStep => Next
    BY DEF FlushStep, EngineStep
<1>4. PrepareDest \/ CopyVersion \/ CopyManifest \/ EndBackup \/ CopyFails
        \/ (\E id \in todo : CopyTable(id)) => UNCHANGED vars
    BY DEF PrepareDest, CopyVersion, CopyManifest, EndBackup, CopyFails, CopyTable
<1> QED  BY <1>1, <1>2, <1>3, <1>4 DEF BNext

\* The variables of the engine that the invariant looks at.
LEMMA VarsAre ==
    ASSUME UNCHANGED vars
    PROVE  UNCHANGED <<pc, mem, man, disk>>
BY DEF vars, local

\* A step that leaves copy and history alone keeps what is known of them.
LEMMA KeptFrame ==
    ASSUME CompleteInv, UNCHANGED <<dest, saved>>
    PROVE  CompleteInv'
BY DEF CompleteInv, BackupsReadBack, ReadBack, Restored, RestoreAccepts, NotSaved, FormatVersion,
       EmptyTable

\* Steps of the engine, under backup() or not, preserve the invariant.
LEMMA EngineSteps ==
    ASSUME BInv, StartBackup \/ FlushStep \/ KilledInBackup \/ EngineStep
    PROVE  CopyInv' /\ CompleteInv'
<1>1. CompleteInv'
    BY KeptFrame DEF BInv, StartBackup, FlushStep, KilledInBackup, EngineStep, backupVars
<1>2. CASE StartBackup
    <2>1. step' = "flush" /\ mem' = mem /\ (pc' = "idle" => mem = EmptyTable) /\ Running'
        BY <1>2 DEF StartBackup, Call, Goto, local, AfterFlush, Running
    <2> QED  BY <1>1, <2>1 DEF CopyInv, Copying
<1>3. CASE FlushStep
    <2>1. \/ step' = "none"
          \/ step' = "flush" /\ Running' /\ (pc' = "idle" => FlushSucceeds)
        BY <1>3 DEF FlushStep
    <2>2. step' = "flush" => Running' /\ (pc' = "idle" => mem' = EmptyTable)
        BY <2>1 DEF FlushSucceeds
    <2> QED  BY <1>1, <2>1, <2>2 DEF CopyInv, Copying
<1>4. CASE KilledInBackup \/ EngineStep
    <2>1. step' = "none"
        BY <1>4 DEF KilledInBackup, EngineStep, backupVars
    <2> QED  BY <1>1, <2>1 DEF CopyInv, Copying
<1> QED  BY <1>2, <1>3, <1>4

\* The steps of the copy preserve the invariant.
LEMMA CopySteps ==
    ASSUME BInv, SavesWork,
           \/ PrepareDest \/ CopyVersion \/ CopyManifest \/ EndBackup \/ CopyFails
           \/ \E id \in todo : CopyTable(id)
    PROVE  CopyInv' /\ CompleteInv'
<1>1. UNCHANGED vars /\ UNCHANGED <<pc, mem, man, disk>>
    BY VarsAre DEF PrepareDest, CopyVersion, CopyManifest, EndBackup, CopyFails, CopyTable
<1>2. CASE PrepareDest
    <2>1. UNCHANGED <<dest, saved>> /\ pc = "idle" /\ mem = EmptyTable
        BY <1>2 DEF PrepareDest, BInv, CopyInv
    <2>2. CompleteInv'
        BY <2>1, KeptFrame DEF BInv
    <2>3. CASE dest = EmptyDest
        <3>1. step' = "version" /\ todo' = AllIds(man)
            BY <1>2, <2>3 DEF PrepareDest, TablesToCopy
        <3>2. saved = NotSaved
            <4>1. Missing # FormatVersion
                BY BackupAssumption
            <4> QED  BY <2>3, <4>1 DEF BInv, CompleteInv, EmptyDest
        <3> QED
            BY <1>1, <2>1, <2>2, <2>3, <3>1, <3>2 DEF CopyInv, Copying, EmptyDest, NotSaved
    <2>4. CASE dest # EmptyDest
        <3>1. step' = "none"
            BY <1>2, <2>4 DEF PrepareDest
        <3> QED  BY <2>2, <3>1 DEF CopyInv, Copying
    <2> QED  BY <2>3, <2>4
<1>3. CASE CopyVersion
    <2>1. /\ step = "version" /\ step' = "manifest" /\ UNCHANGED <<todo, saved>>
          /\ dest' = [dest EXCEPT !.version = FormatVersion]
        BY <1>3 DEF CopyVersion
    <2>2. dest = EmptyDest /\ todo = AllIds(man) /\ pc = "idle" /\ mem = EmptyTable
          /\ saved = NotSaved
        BY <2>1 DEF BInv, CopyInv, Copying
    <2> QED
        BY <1>1, <2>1, <2>2
           DEF CopyInv, Copying, CompleteInv, EmptyDest, NotSaved, FormatVersion, AllIds, EmptyTable
<1>4. CASE CopyManifest
    <2>1. PICK m \in ManifestFile : dest' = [dest EXCEPT !.man = m]
        BY <1>4 DEF CopyManifest
    <2>2. step = "manifest" /\ step' = "tables" /\ UNCHANGED <<todo, saved>>
        BY <1>4 DEF CopyManifest
    <2>3. /\ dest = [EmptyDest EXCEPT !.version = FormatVersion] /\ todo = AllIds(man)
          /\ pc = "idle" /\ mem = EmptyTable /\ saved = NotSaved
        BY <2>2 DEF BInv, CopyInv, Copying
    <2>4. dest' = [version |-> FormatVersion, man |-> m, files |-> <<>>]
        BY <2>1, <2>3 DEF EmptyDest
    <2>5. DOMAIN dest'.files = {} /\ dest'.man = m
          /\ dest' = [version |-> FormatVersion, man |-> dest'.man, files |-> dest'.files]
        BY <2>4
    <2>6. ManifestFile' = ManifestFile /\ AllIds(man)' = AllIds(man)
        BY <1>1 DEF ManifestFile, AllIds, NewManifest
    <2> QED
        BY <1>1, <2>2, <2>3, <2>5, <2>6
           DEF CopyInv, Copying, CompleteInv, NotSaved, EmptyTable, FormatVersion
<1>5. CASE \E id \in todo : CopyTable(id)
    <2>1. PICK id \in todo : CopyTable(id)
        BY <1>5
    <2>2. /\ step = "tables" /\ step' = "tables" /\ saved' = saved
          /\ dest' = WithFile(dest, id, disk.files[id]) /\ todo' = todo \ {id}
        BY <2>1 DEF CopyTable
    <2>3. /\ dest = [version |-> FormatVersion, man |-> dest.man, files |-> dest.files]
          /\ dest.man \in ManifestFile
          /\ DOMAIN dest.files = AllIds(man) \ todo
          /\ \A i \in DOMAIN dest.files : dest.files[i] = disk.files[i]
          /\ pc = "idle" /\ mem = EmptyTable /\ saved = NotSaved
        BY <2>2 DEF BInv, CopyInv, Copying
    <2>4. todo \subseteq AllIds(man)
        BY <2>2 DEF BInv, CopyInv
    <2> DEFINE f == [i \in DOMAIN dest.files \cup {id} |->
                        IF i = id THEN disk.files[id] ELSE dest.files[i]]
    <2>5. dest' = [dest EXCEPT !.files = f]
        BY <2>2 DEF WithFile
    <2>6. DOMAIN f = DOMAIN dest.files \cup {id} /\ \A i \in DOMAIN f : f[i] = disk.files[i]
        BY <2>3
    <2> HIDE DEF f
    <2>7. dest' = [version |-> FormatVersion, man |-> dest.man, files |-> f]
        BY <2>3, <2>5
    <2>8. ManifestFile' = ManifestFile /\ AllIds(man)' = AllIds(man)
        BY <1>1 DEF ManifestFile, AllIds, NewManifest
    <2> QED
        BY <1>1, <2>2, <2>3, <2>4, <2>6, <2>7, <2>8
           DEF CopyInv, Copying, CompleteInv, NotSaved, EmptyTable, FormatVersion
<1>6. CASE EndBackup
    <2>1. step = "tables" /\ todo = {} /\ step' = "none" /\ saved' = Current /\ dest' = dest
        BY <1>6 DEF EndBackup
    <2>2. dest.version = FormatVersion
        BY <2>1 DEF BInv, CopyInv
    <2>3. BackupsReadBack'
        BY <2>1, CompleteCopy
           DEF BackupsReadBack, RestoreAccepts, Restored, ReadBack, EmptyTable
    <2> QED  BY <2>1, <2>2, <2>3 DEF CopyInv, Copying, CompleteInv, FormatVersion
<1>7. CASE CopyFails
    <2>1. Copying /\ step' = "none" /\ saved' = saved
        BY <1>7 DEF CopyFails, Copying
    <2>2. saved = NotSaved
        BY <2>1 DEF BInv, CopyInv
    <2> QED  BY <2>1, <2>2 DEF CopyInv, Copying, CompleteInv, NotSaved
<1> QED  BY <1>2, <1>3, <1>4, <1>5, <1>6, <1>7

\* The invariant holds initially and is preserved.
LEMMA BackupInvariance == SavesWork => (BSpec => []BInv)
<1> SUFFICES ASSUME SavesWork  PROVE BSpec => []BInv
    OBVIOUS
<1>1. BInit => BInv
    <2> SUFFICES ASSUME BInit  PROVE BInv
        OBVIOUS
    <2>1. step = "none" /\ saved = NotSaved /\ Init
        BY DEF BInit
    <2> QED  BY <2>1, InitInvariant, InitFInv DEF BInv, CopyInv, Copying, CompleteInv
<1>2. BInv /\ [BNext]_bvars => BInv'
    <2> SUFFICES ASSUME BInv, [BNext]_bvars  PROVE BInv'
        OBVIOUS
    <2>1. [Next]_vars
        BY EngineBelow DEF bvars
    <2>2. IInv' /\ FInv'
        BY <2>1, NextInvariant, NextFInv DEF BInv
    <2>3. CASE BNext
        BY <2>2, <2>3, EngineSteps, CopySteps DEF BNext, BInv
    <2>4. CASE UNCHANGED bvars
        <3>1. UNCHANGED <<pc, mem, man, disk>> /\ UNCHANGED <<step, todo, dest, saved>>
            BY <2>4, VarsAre DEF bvars, backupVars
        <3>2. CompleteInv'
            BY <3>1, KeptFrame DEF BInv
        <3>3. ManifestFile' = ManifestFile /\ AllIds(man)' = AllIds(man) /\ Running' = Running
            BY <3>1 DEF ManifestFile, AllIds, NewManifest, Running
        <3>4. CopyInv'
            BY <3>1, <3>3
               DEF BInv, CopyInv, Copying, EmptyDest, FormatVersion, NotSaved, EmptyTable
        <3> QED  BY <2>2, <3>2, <3>4 DEF BInv
    <2> QED  BY <2>3, <2>4
<1> QED  BY <1>1, <1>2, PTL DEF BSpec

\* A copy that Database::backup reported as complete is restored to a directory
\* that opens and reads as the database did, unless a save of the manifest may
\* have failed before; the run backup_after_failed_save shows that case.
THEOREM BackupsAlwaysReadBack == SavesWork => (BSpec => []BackupsReadBack)
<1>1. CompleteInv => BackupsReadBack
    BY DEF CompleteInv, BackupsReadBack
<1>2. BInv => BackupsReadBack
    BY <1>1 DEF BInv
<1> QED  BY <1>2, BackupInvariance, PTL

-----------------------------------------------------------------------------
(* What is durable once a backup is made.                                  *)

\* From the end of its flush on, backup() finds an idle engine with an empty
\* memtable.
QuietInv ==
    /\ step = "flush" /\ pc = "idle" => mem = EmptyTable
    /\ Copying => pc = "idle" /\ mem = EmptyTable

\* Every step preserves it, whether or not a save may fail.
LEMMA NextQuiet ==
    ASSUME QuietInv, [BNext]_bvars
    PROVE  QuietInv'
<1>1. CASE StartBackup
    <2>1. step' = "flush" /\ mem' = mem /\ (pc' = "idle" => mem = EmptyTable)
        BY <1>1 DEF StartBackup, Call, Goto, local, AfterFlush
    <2> QED  BY <2>1 DEF QuietInv, Copying, EmptyTable
<1>2. CASE FlushStep
    <2>1. step' = "none" \/ (step' = "flush" /\ (pc' = "idle" => FlushSucceeds))
        BY <1>2 DEF FlushStep
    <2> QED  BY <2>1 DEF QuietInv, Copying, FlushSucceeds
<1>3. CASE KilledInBackup \/ EngineStep \/ EndBackup \/ CopyFails
    <2>1. step' = "none"
        BY <1>3 DEF KilledInBackup, EngineStep, backupVars, EndBackup, CopyFails, QuietInv
    <2> QED  BY <2>1 DEF QuietInv, Copying
<1>4. CASE \/ PrepareDest \/ CopyVersion \/ CopyManifest
           \/ \E id \in todo : CopyTable(id)
    <2>1. UNCHANGED vars /\ UNCHANGED <<pc, mem, man, disk>>
        BY <1>4, VarsAre DEF PrepareDest, CopyVersion, CopyManifest, CopyTable
    <2>2. step' = "none" \/ (step = "flush" /\ pc = "idle") \/ Copying
        BY <1>4 DEF PrepareDest, CopyVersion, CopyManifest, CopyTable, Copying
    <2>3. step' # "flush"
        BY <1>4 DEF PrepareDest, CopyVersion, CopyManifest, CopyTable
    <2> QED  BY <2>1, <2>2, <2>3 DEF QuietInv, Copying, EmptyTable
<1>5. CASE UNCHANGED bvars
    <2>1. UNCHANGED vars /\ step' = step
        BY <1>5 DEF bvars, backupVars
    <2>2. UNCHANGED <<pc, mem, man, disk>>
        BY <2>1, VarsAre
    <2> QED  BY <2>1, <2>2 DEF QuietInv, Copying, EmptyTable
<1> QED  BY <1>1, <1>2, <1>3, <1>4, <1>5 DEF BNext

\* When Database::backup returns Ok, every end of the process leaves exactly
\* what is then read: what was put directly before is durable as after a
\* flush(), whether a copy or a save failed before or not (backup, put's contract).
THEOREM BackupsAreDurable == KeepsLog /\ Careful => (BSpec => BackupDurable)
<1> SUFFICES ASSUME KeepsLog, Careful  PROVE BSpec => BackupDurable
    OBVIOUS
<1> DEFINE Settled == pc = "idle" /\ mem = EmptyTable => Survivors = {Current}
<1>1. BInit => Init /\ QuietInv /\ older = {}
    BY DEF BInit, Init, QuietInv, Copying
<1>2. [BNext]_bvars => [Next]_vars
    BY EngineBelow DEF bvars
<1>3. older = {} /\ [Next]_vars => (older = {})'
    BY NoOlder, BackupAssumption
<1>4. QuietInv /\ [BNext]_bvars => QuietInv'
    BY NextQuiet
<1>5. PromiseInv /\ older = {} => Settled
    BY EmptySurvivors
<1>6. QuietInv /\ Settled' /\ [BNext]_bvars
        => [EndBackup => Survivors' = {Current'}]_bvars
    <2> SUFFICES ASSUME QuietInv, Settled', EndBackup  PROVE Survivors' = {Current'}
        OBVIOUS
    <2>1. UNCHANGED <<pc, mem, man, disk>>
        BY VarsAre DEF EndBackup
    <2>2. pc = "idle" /\ mem = EmptyTable
        BY DEF EndBackup, QuietInv, Copying
    <2> QED  BY <2>1, <2>2 DEF EmptyTable
<1>7. Spec => []PromiseInv
    BY PromiseInvariance
<1> HIDE DEF Settled
<1> QED  BY <1>1, <1>2, <1>3, <1>4, <1>5, <1>6, <1>7, PTL DEF BSpec, Spec, BackupDurable
=============================================================================

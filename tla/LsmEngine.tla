------------------------------ MODULE LsmEngine ------------------------------
(***************************************************************************)
(* The storage engine (`Database' in src/lib.rs with Wal, MemTable and     *)
(* Manifest) and the commit of a transaction.  Every call takes            *)
(* `&mut self', so calls do not interleave with each other; what does      *)
(* interleave is the end of the process, the loss of power and the failure *)
(* of a file operation, between any two file operations of a call.  A call *)
(* is therefore one action up to its first file operation that another     *)
(* step must be able to follow, and a sequence of actions, walked by `pc', *)
(* from there.                                                             *)
(***************************************************************************)
EXTENDS WriteAheadLog

CONSTANTS
    MemLimit,      \* Options.memtable_limit, in records
    L0Threshold,   \* Options.l0_compact_threshold
    Calls,         \* which calls the client makes besides puts and commits
    Batches,       \* the batches a transaction may commit
    Faults,        \* which file operations may fail
    PowerLoss,     \* whether power may fail, or only the process end
    Broken,        \* a file whose table was not written to the end
    MaxCalls,      \* bound: client calls that write or maintain
    MaxCrashes     \* bound: process ends and power losses

ASSUME LimitAssumption ==
    /\ MemLimit \in Nat \ {0}
    /\ L0Threshold \in Nat \ {0}
    /\ MaxCalls \in Nat
    /\ MaxCrashes \in Nat
ASSUME CallsAssumption == Calls \subseteq {"flush", "full", "close", "drop", "gc"}
ASSUME BatchesAssumption == Batches \subseteq Table
ASSUME FaultsAssumption ==
    Faults \subseteq {"append", "build", "read", "save", "sync", "torn",
                      "truncate", "unlink"}
ASSUME PowerLossAssumption == PowerLoss \in BOOLEAN
ASSUME BrokenAssumption == Broken \notin Table

VARIABLES
    pc,         \* the next step of the call under way
    cont,       \* the call that flush() returns to
    mem,        \* self.memtable
    man,        \* self.manifest
    disk,       \* the directory as the operating system shows it
    older,      \* earlier states of the directory a power loss may bring back
    job,        \* local variables of compact() and compact_full()
    tx,         \* the Transaction whose commit() is under way or has failed
    nextTx,     \* self.next_tx_id
    aborted,    \* history: ids of transactions aborted since the last open
    closed,     \* self.closed: close() has succeeded, the handle still exists
    nCalls,     \* calls made so far
    nCrashes    \* crashes so far

local == <<mem, man, job, tx, nextTx, aborted, closed>>
counters == <<nCalls, nCrashes>>
vars == <<pc, cont, local, disk, older, counters>>

-----------------------------------------------------------------------------
(* Manifest and directory.                                                 *)

\* Manifest: next_table_id, levels[0] (oldest first), and the L1 segments.
\* The segment vector is sorted by min_key, which is what the set's order is.
Segment == [id : Nat, min : Keys, max : Keys]
Manifest == [next : Nat, l0 : Seq(Nat), segs : SUBSET Segment]
NewManifest == [next |-> 1, l0 |-> <<>>, segs |-> {}]

\* Manifest::all_ids
AllIds(m) == Range(m.l0) \cup {s.id : s \in m.segs}

\* An id is taken; the table with that id becomes the newest of L0.
TakeId(m) == [m EXCEPT !.next = @ + 1]
AddL0(m, id) == [m EXCEPT !.l0 = Append(@, id)]

\* A state of the directory: MANIFEST, the .sst files, wal.log, and how many
\* records of the log are known to be on stable storage.  The log holds what
\* is still in the BufWriter too: a crash may keep any part of it.
NewDisk == [man |-> NewManifest, files |-> <<>>, wal |-> <<>>, synced |-> 0]

\* The file of table id is (over)written with contents t.
WithFile(d, id, t) ==
    [d EXCEPT !.files = [i \in DOMAIN d.files \cup {id} |->
                            IF i = id THEN t ELSE d.files[i]]]

WithoutFiles(d, ids) ==
    [d EXCEPT !.files = [i \in DOMAIN d.files \ ids |-> d.files[i]]]

\* The log holds the records `log', n of them on stable storage.
WithLog(d, log, n) == [d EXCEPT !.wal = log, !.synced = n]

\* The directory operations (create, rename, truncate, unlink) reach stable
\* storage in order, and at the latest with the next fsync of any file.
Lagging == IF PowerLoss THEN older \cup {disk} ELSE {}

\* The states of the directory the next crash may find.
Images == {disk} \cup older

NoJob == [chunks |-> <<>>, new |-> {}, keep |-> {}, old |-> {}]
NoTx == [id |-> 0, batch |-> EmptyTable]

\* The segment that file id with contents t is.
SegmentOf(id, t) == [id |-> id, min |-> MinKey(t), max |-> MaxKey(t)]

\* A segment's metadata is that of its file, and the file can be read.
SegmentOpens(files, s) ==
    /\ s.id \in DOMAIN files
    /\ files[s.id] # Broken
    /\ KeysOf(files[s.id]) # {}
    /\ s.min = MinKey(files[s.id])
    /\ s.max = MaxKey(files[s.id])

\* Manifest::validate: segments disjoint, table ids distinct.
Valid(m) ==
    /\ \A s \in m.segs : s.min <= s.max
    /\ \A s, r \in m.segs : s # r => s.max < r.min \/ r.max < s.min
    /\ \A i, j \in DOMAIN m.l0 : i # j => m.l0[i] # m.l0[j]
    /\ \A s, r \in m.segs : s.id = r.id => s = r
    /\ \A s \in m.segs : s.id \notin Range(m.l0)

\* Manifest::load and validate_open_state succeed.  L0 files need only exist.
Opens(d) ==
    /\ Valid(d.man)
    /\ Range(d.man.l0) \subseteq DOMAIN d.files
    /\ \A s \in d.man.segs : SegmentOpens(d.files, s)

-----------------------------------------------------------------------------
(* Reading: Database::get.                                                 *)

\* The L0 tables, oldest first.
L0Tables(m, files) == [i \in DOMAIN m.l0 |-> files[m.l0[i]]]

\* find_segment: the last segment with min_key <= k, if it reaches up to k.
FindSegment(m, k) ==
    LET starting == {s \in m.segs : s.min <= k}
    IN  {s \in starting : (\A r \in starting : r.min <= s.min) /\ k <= s.max}

\* The newest entry of key k: memtable, L0 newest first, one segment.
Lookup(memtable, m, files, k) ==
    LET l0 == NewestEntry(L0Tables(m, files), k)
    IN  IF memtable[k] # Absent THEN memtable[k]
        ELSE IF l0 # Absent THEN l0
        ELSE AnyEntry({files[s.id] : s \in FindSegment(m, k)}, k)

ViewOf(memtable, m, files) == [k \in Keys |-> Visible(Lookup(memtable, m, files, k))]

-----------------------------------------------------------------------------
(* Control: how calls continue and how they fail.                          *)

Running == pc # "down"

\* What follows flush() in the call c.
AfterFlush(c) ==
    CASE c = "flush" -> "idle"
      [] c = "full" -> "full"
      [] c \in {"close", "drop"} -> "sync"

Goto(p, c) ==
    /\ pc' = p
    /\ cont' = IF p \in {"idle", "down"} THEN "flush" ELSE c

\* flush() returns Ok.
FlushReturns == Goto(AfterFlush(cont), cont)

\* The file operation `fault' fails: the `?' ends the call, except that Drop
\* ignores what flush() returns.
Fails(fault) ==
    /\ fault \in Faults
    /\ Goto(IF cont = "drop" THEN "sync" ELSE "idle", cont)

\* The process is gone; of its state only the directory is left.
ProcessEnds ==
    /\ pc' = "down"
    /\ cont' = "flush"
    /\ mem' = EmptyTable
    /\ man' = NewManifest
    /\ job' = NoJob
    /\ tx' = NoTx
    /\ nextTx' = 0
    /\ aborted' = {}
    /\ closed' = FALSE

CountCall == nCalls < MaxCalls /\ nCalls' = nCalls + 1 /\ UNCHANGED nCrashes

Logged(records) == [disk EXCEPT !.wal = @ \o records]

\* put_internal and flush_if_over_limit: flush once the memtable is full.
FlushIfOverLimit == Goto(IF Size(mem') >= MemLimit THEN "build" ELSE "idle", "flush")

-----------------------------------------------------------------------------
(* Writes and transactions.                                                *)

\* put() and delete(): append to the log, then the memtable.
Put(k, e) ==
    /\ pc = "idle"
    /\ CountCall
    /\ disk' = Logged(<<PutRec(k, e)>>)
    /\ mem' = [mem EXCEPT ![k] = e]
    /\ FlushIfOverLimit
    /\ UNCHANGED <<man, older, job, tx, nextTx, aborted, closed>>

\* write_record fails between its two writes: the record's start stays in the
\* buffer, the memtable is untouched, put() returns Err.
PutFails ==
    /\ pc = "idle"
    /\ "append" \in Faults
    /\ CountCall
    /\ disk' = Logged(<<Torn>>)
    /\ UNCHANGED <<pc, cont, local, older>>

\* Transaction::commit up to the fsync: the batch goes to the log as a block.
LogBlock(t) ==
    /\ tx' = t
    /\ \/ /\ disk' = Logged(TxRecords(t.id, t.batch))
          /\ Goto("commit", "flush")
       \/ \E n \in 0 .. Size(t.batch) + 1 :
            /\ "append" \in Faults
            /\ disk' = Logged(Append(SubSeq(TxRecords(t.id, t.batch), 1, n), Torn))
            /\ Goto("failed", "flush")
    /\ UNCHANGED <<mem, man, older, job, aborted, closed>>

\* A transaction gets the next id, collects the batch b and calls commit().
\* Transactions belong to EntityStore, whose close() consumes the handle.
StartCommit(b) ==
    /\ pc = "idle"
    /\ ~closed
    /\ CountCall
    /\ nextTx' = nextTx + 1
    /\ LogBlock([id |-> nextTx, batch |-> b])

\* wal_sync is the commit point; the memtable follows, and cannot fail.
SyncCommit ==
    /\ pc = "commit"
    /\ disk' = [disk EXCEPT !.synced = Len(disk.wal)]
    /\ older' = {}
    /\ mem' = Over(tx.batch, mem)
    /\ tx' = NoTx
    /\ FlushIfOverLimit
    /\ UNCHANGED <<man, job, nextTx, aborted, closed, counters>>

\* commit() returns Err; the transaction is still Active.
SyncCommitFails ==
    /\ pc = "commit"
    /\ "sync" \in Faults
    /\ Goto("failed", "flush")
    /\ UNCHANGED <<local, disk, older, counters>>

\* The client calls commit() again: the whole block is logged again.
RetryCommit ==
    /\ pc = "failed"
    /\ CountCall
    /\ LogBlock(tx)
    /\ UNCHANGED nextTx

\* abort(), or the transaction is dropped: only its pending map is cleared.
Abort ==
    /\ pc = "failed"
    /\ Goto("idle", "flush")
    /\ aborted' = aborted \cup {tx.id}
    /\ tx' = NoTx
    /\ UNCHANGED <<mem, man, job, nextTx, closed, disk, older, counters>>

-----------------------------------------------------------------------------
(* flush()                                                                 *)

\* flush(), compact_full(), close() and Drop all start with flush(), which
\* does nothing when the memtable is empty.
Call(c) ==
    /\ pc = "idle"
    /\ c \in Calls \ {"gc"}
    /\ closed => c \notin {"close", "drop"}
    /\ CountCall
    /\ Goto(IF mem = EmptyTable THEN AfterFlush(c) ELSE "build", c)
    /\ UNCHANGED <<local, disk, older>>

\* The memtable becomes the file of a fresh id, fsynced, and the id enters L0.
BuildL0 ==
    /\ pc = "build"
    /\ disk' = WithFile(disk, man.next, mem)
    /\ older' = {}
    /\ man' = AddL0(TakeId(man), man.next)
    /\ Goto("save", cont)
    /\ UNCHANGED <<mem, job, tx, nextTx, aborted, closed, counters>>

BuildL0FailsMutant ==
    /\ pc = "build"
    /\ Fails("build")
    /\ disk' = WithFile(disk, man.next, Broken)
    /\ older' = Lagging
    /\ man' = AddL0(TakeId(man), man.next)
    /\ UNCHANGED <<mem, job, tx, nextTx, aborted, closed, counters>>

\* The table is not written to its end; its id is used up.
BuildL0Fails ==
    /\ pc = "build"
    /\ Fails("build")
    /\ disk' = WithFile(disk, man.next, Broken)
    /\ older' = Lagging
    /\ man' = TakeId(man)
    /\ UNCHANGED <<mem, job, tx, nextTx, aborted, closed, counters>>

\* Manifest::save: the new MANIFEST is fsynced under a temporary name, which
\* also settles every earlier directory operation, and renamed.
SaveL0 ==
    /\ pc = "save"
    /\ disk' = [disk EXCEPT !.man = man]
    /\ older' = IF PowerLoss THEN {disk} ELSE {}
    /\ Goto("truncate", cont)
    /\ UNCHANGED <<local, counters>>

\* The id stays in the L0 list in memory; MANIFEST does not have it.
SaveL0Fails ==
    /\ pc = "save"
    /\ Fails("save")
    /\ UNCHANGED <<local, disk, older, counters>>

TruncateMutant ==
    /\ pc = "truncate"
    /\ mem' = EmptyTable
    /\ IF Len(man.l0) >= L0Threshold THEN Goto("plan", cont) ELSE FlushReturns
    /\ UNCHANGED <<man, disk, older, job, tx, nextTx, aborted, closed, counters>>

TruncateResetMutant ==
    /\ pc = "truncate"
    /\ disk' = [disk EXCEPT !.wal = <<>>]
    /\ older' = Lagging
    /\ mem' = EmptyTable
    /\ IF Len(man.l0) >= L0Threshold THEN Goto("plan", cont) ELSE FlushReturns
    /\ UNCHANGED <<man, job, tx, nextTx, aborted, closed, counters>>

\* Wal::truncate, then a new memtable; compact() once L0 is long enough.
Truncate ==
    /\ pc = "truncate"
    /\ disk' = WithLog(disk, <<>>, 0)
    /\ older' = Lagging
    /\ mem' = EmptyTable
    /\ IF Len(man.l0) >= L0Threshold THEN Goto("plan", cont) ELSE FlushReturns
    /\ UNCHANGED <<man, job, tx, nextTx, aborted, closed, counters>>

TruncateFailsMutant ==
    /\ pc = "truncate"
    /\ Fails("truncate")
    /\ mem' = EmptyTable
    /\ UNCHANGED <<man, job, tx, nextTx, aborted, closed, disk, older, counters>>

TruncateFails ==
    /\ pc = "truncate"
    /\ Fails("truncate")
    /\ UNCHANGED <<local, disk, older, counters>>

-----------------------------------------------------------------------------
(* compact() and compact_full()                                            *)

\* The keys of the L0 tables; table_bounds is the span from the least to the
\* greatest of them.
BatchKeys == UNION {KeysOf(disk.files[id]) : id \in Range(man.l0)}

OverlapsMutant(s) == s.min >= Min(BatchKeys) /\ s.max <= Max(BatchKeys)

\* The segment's key range meets the span of the L0 tables.
Overlaps(s) == s.min <= Max(BatchKeys) /\ s.max >= Min(BatchKeys)

CompactionMutant(merged) ==
    [chunks |-> Chunks(Merge(L0Tables(man, disk.files),
                             {disk.files[s.id] : s \in merged})),
     new |-> {},
     keep |-> man.segs \ merged,
     old |-> Range(man.l0)]

\* The job that replaces all L0 tables and the segments `merged' by new segments.
Compaction(merged) ==
    [chunks |-> Chunks(Merge(L0Tables(man, disk.files),
                             {disk.files[s.id] : s \in merged})),
     new |-> {},
     keep |-> man.segs \ merged,
     old |-> Range(man.l0) \cup {s.id : s \in merged}]

\* compact(): the segments that overlap the L0 tables are merged with them.
PlanCompaction ==
    /\ pc = "plan"
    /\ job' = Compaction({s \in man.segs : Overlaps(s)})
    /\ Goto("write", cont)
    /\ UNCHANGED <<mem, man, disk, older, tx, nextTx, aborted, closed, counters>>

\* compact_full(), after its flush: everything is merged.
PlanFull ==
    /\ pc = "full"
    /\ job' = Compaction(man.segs)
    /\ Goto("write", "flush")
    /\ UNCHANGED <<mem, man, disk, older, tx, nextTx, aborted, closed, counters>>

\* A table of the merge cannot be read: nothing has changed yet.
PlanFails ==
    /\ pc \in {"plan", "full"}
    /\ Fails("read")
    /\ UNCHANGED <<local, disk, older, counters>>

WriteSegmentMutant ==
    LET t == Head(job.chunks) IN
    /\ pc = "write"
    /\ job.chunks # <<>>
    /\ disk' = WithFile(disk, man.next, t)
    /\ older' = {}
    /\ job' = [chunks |-> Tail(job.chunks),
               new |-> job.new \cup {SegmentOf(man.next, t)},
               keep |-> job.keep,
               old |-> job.old]
    /\ UNCHANGED <<pc, cont, mem, man, tx, nextTx, aborted, closed, counters>>

\* write_table: the next chunk becomes a segment file with a fresh id.
WriteSegment ==
    LET t == Head(job.chunks) IN
    /\ pc = "write"
    /\ job.chunks # <<>>
    /\ disk' = WithFile(disk, man.next, t)
    /\ older' = {}
    /\ man' = TakeId(man)
    /\ job' = [chunks |-> Tail(job.chunks),
               new |-> job.new \cup {SegmentOf(man.next, t)},
               keep |-> job.keep,
               old |-> job.old]
    /\ UNCHANGED <<pc, cont, mem, tx, nextTx, aborted, closed, counters>>

WriteSegmentFails ==
    /\ pc = "write"
    /\ job.chunks # <<>>
    /\ Fails("build")
    /\ disk' = WithFile(disk, man.next, Broken)
    /\ older' = Lagging
    /\ man' = TakeId(man)
    /\ job' = NoJob
    /\ UNCHANGED <<mem, tx, nextTx, aborted, closed, counters>>

\* The manifest in memory after the merge: no L0 tables, new segments.
Compacted == [next |-> man.next, l0 |-> <<>>, segs |-> job.keep \cup job.new]

SwapManifestMutant ==
    /\ pc = "write"
    /\ job.chunks = <<>>
    /\ man' = Compacted
    /\ IF job.old = {}
       THEN FlushReturns /\ job' = NoJob
       ELSE Goto("delete", cont) /\ job' = [NoJob EXCEPT !.old = job.old]
    /\ UNCHANGED <<mem, disk, older, tx, nextTx, aborted, closed, counters>>

\* The old files are dropped from the manifest and the manifest is saved;
\* unless there are none, their deletion follows.
SwapManifest ==
    /\ pc = "write"
    /\ job.chunks = <<>>
    /\ man' = Compacted
    /\ disk' = [disk EXCEPT !.man = man']
    /\ older' = IF PowerLoss THEN {disk} ELSE {}
    /\ IF job.old = {}
       THEN FlushReturns /\ job' = NoJob
       ELSE Goto("delete", cont) /\ job' = [NoJob EXCEPT !.old = job.old]
    /\ UNCHANGED <<mem, tx, nextTx, aborted, closed, counters>>

\* The manifest in memory has already been replaced; the old files stay.
SwapManifestFails ==
    /\ pc = "write"
    /\ job.chunks = <<>>
    /\ Fails("save")
    /\ man' = Compacted
    /\ job' = NoJob
    /\ UNCHANGED <<mem, disk, older, tx, nextTx, aborted, closed, counters>>

\* One old file is removed, or its removal fails, which is ignored.
DeleteOld(id) ==
    /\ pc = "delete"
    /\ id \in job.old
    /\ \/ disk' = WithoutFiles(disk, {id}) /\ older' = Lagging
       \/ "unlink" \in Faults /\ UNCHANGED <<disk, older>>
    /\ IF job.old = {id}
       THEN FlushReturns /\ job' = NoJob
       ELSE job' = [job EXCEPT !.old = @ \ {id}] /\ UNCHANGED <<pc, cont>>
    /\ UNCHANGED <<mem, man, tx, nextTx, aborted, closed, counters>>

-----------------------------------------------------------------------------
(* gc(), close(), the end of the process, open()                           *)

Orphans == DOMAIN disk.files \ AllIds(man)

\* gc(): every table file the manifest in memory does not name is removed;
\* a failing removal ends the call.
Gc ==
    /\ pc = "idle"
    /\ "gc" \in Calls
    /\ CountCall
    /\ \E gone \in SUBSET Orphans :
        /\ gone # Orphans => "unlink" \in Faults
        /\ disk' = WithoutFiles(disk, gone)
        /\ older' = IF PowerLoss
                    THEN older \cup {WithoutFiles(disk, some) : some \in SUBSET gone}
                    ELSE {}
    /\ UNCHANGED <<pc, cont, local>>

\* close() after close() returns Ok at once, whatever was written in between.
CloseAgain ==
    /\ pc = "idle"
    /\ closed
    /\ "close" \in Calls
    /\ CountCall
    /\ UNCHANGED <<pc, cont, local, disk, older>>

\* Drop after close(): the BufWriter empties its buffer into the file, no more.
DropClosed ==
    /\ pc = "idle"
    /\ closed
    /\ "drop" \in Calls
    /\ CountCall
    /\ ProcessEnds
    /\ UNCHANGED <<disk, older>>

\* close() and Drop: fsync the log; close() then saves the manifest.
SyncLog ==
    /\ pc = "sync"
    /\ disk' = [disk EXCEPT !.synced = Len(disk.wal)]
    /\ older' = {}
    /\ UNCHANGED counters
    /\ IF cont = "close"
       THEN Goto("closing", cont) /\ UNCHANGED local
       ELSE ProcessEnds

\* close() returns Err and the handle lives on; Drop ignores the failure.
SyncLogFails ==
    /\ pc = "sync"
    /\ "sync" \in Faults
    /\ UNCHANGED <<disk, older, counters>>
    /\ IF cont = "close"
       THEN Goto("idle", cont) /\ UNCHANGED local
       ELSE ProcessEnds

SaveAndClose ==
    /\ pc = "closing"
    /\ disk' = [disk EXCEPT !.man = man]
    /\ older' = IF PowerLoss THEN {disk} ELSE {}
    /\ closed' = TRUE
    /\ Goto("idle", cont)
    /\ UNCHANGED <<mem, man, job, tx, nextTx, aborted, counters>>

SaveAndCloseFails ==
    /\ pc = "closing"
    /\ Fails("save")
    /\ UNCHANGED <<local, disk, older, counters>>

\* What is left of the log when only its first n records reach the file, with
\* or without the start of the next one.
CutLogs(d, n) ==
    {SubSeq(d.wal, 1, n)}
        \cup (IF "torn" \in Faults /\ n < Len(d.wal)
              THEN {Append(SubSeq(d.wal, 1, n), Torn)} ELSE {})

CountCrash == nCrashes < MaxCrashes /\ nCrashes' = nCrashes + 1 /\ UNCHANGED nCalls

\* The process ends without Drop: the log's buffer is lost from some record on.
Kill ==
    /\ Running
    /\ CountCrash
    /\ \E n \in disk.synced .. Len(disk.wal) : \E log \in CutLogs(disk, n) :
        disk' = [disk EXCEPT !.wal = log]
    /\ UNCHANGED older
    /\ ProcessEnds

\* Power fails: any directory state since the last fsync, and any part of the
\* log past its last fsync, may be what is left.
LosePower ==
    /\ PowerLoss
    /\ CountCrash
    /\ \E d \in Images : \E n \in d.synced .. Len(d.wal) : \E log \in CutLogs(d, n) :
        disk' = WithLog(d, log, Len(log))
    /\ older' = {}
    /\ ProcessEnds

\* Database::open_with: load and check the manifest, replay the log.  A failed
\* check leaves the database closed.
Open ==
    /\ pc = "down"
    /\ IF Opens(disk)
       THEN /\ Goto("idle", "flush")
            /\ mem' = Replay(disk.wal)
            /\ man' = disk.man
            /\ nextTx' = MaxTxId(disk.wal) + 1
       ELSE UNCHANGED <<pc, cont, mem, man, nextTx>>
    /\ UNCHANGED <<disk, older, job, tx, aborted, closed, counters>>

\* get(): reads change nothing.
Get == pc = "idle" /\ UNCHANGED vars

-----------------------------------------------------------------------------
Init ==
    /\ pc = "down"
    /\ cont = "flush"
    /\ mem = EmptyTable
    /\ man = NewManifest
    /\ disk = NewDisk
    /\ older = {}
    /\ job = NoJob
    /\ tx = NoTx
    /\ nextTx = 0
    /\ aborted = {}
    /\ closed = FALSE
    /\ nCalls = 0
    /\ nCrashes = 0

Next ==
    \/ \E k \in Keys, e \in Entry : Put(k, e)
    \/ PutFails
    \/ \E b \in Batches : StartCommit(b)
    \/ SyncCommit
    \/ SyncCommitFails
    \/ RetryCommit
    \/ Abort
    \/ \E c \in Calls : Call(c)
    \/ BuildL0
    \/ BuildL0Fails
    \/ SaveL0
    \/ SaveL0Fails
    \/ Truncate
    \/ TruncateFails
    \/ PlanCompaction
    \/ PlanFull
    \/ PlanFails
    \/ WriteSegment
    \/ WriteSegmentFails
    \/ SwapManifest
    \/ SwapManifestFails
    \/ \E id \in job.old : DeleteOld(id)
    \/ Gc
    \/ CloseAgain
    \/ DropClosed
    \/ SyncLog
    \/ SyncLogFails
    \/ SaveAndClose
    \/ SaveAndCloseFails
    \/ Kill
    \/ LosePower
    \/ Open
    \/ Get

Spec == Init /\ [][Next]_vars
=============================================================================

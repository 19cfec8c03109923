--------------------------- MODULE LsmProperties ---------------------------
(***************************************************************************)
(* What the storage engine must get right, as invariants, action           *)
(* properties and a refinement.                                            *)
(***************************************************************************)
EXTENDS LsmEngine

IsFileMap(f) ==
    /\ f = [i \in DOMAIN f |-> f[i]]
    /\ DOMAIN f \subseteq Nat
    /\ \A i \in DOMAIN f : f[i] \in Table \cup {Broken}

IsDisk(d) ==
    /\ d = [man |-> d.man, files |-> d.files, wal |-> d.wal, synced |-> d.synced]
    /\ d.man \in Manifest
    /\ IsFileMap(d.files)
    /\ d.wal \in Seq(Record)
    /\ d.synced \in 0 .. Len(d.wal)

ControlOK ==
    /\ pc \in {"down", "idle", "commit", "failed", "build", "save", "truncate", "plan",
               "full", "write", "delete", "sync", "closing"}
    /\ cont \in {"flush", "full", "close", "drop"}
    /\ closed \in BOOLEAN
    /\ nCalls \in 0 .. MaxCalls
    /\ nCrashes \in 0 .. MaxCrashes

HandleOK ==
    /\ mem \in Table
    /\ man \in Manifest
    /\ tx \in [id : Nat, batch : Table]
    /\ nextTx \in Nat
    /\ aborted \in SUBSET Nat

JobOK ==
    /\ job.chunks \in Seq(Table)
    /\ job.new \in SUBSET Segment
    /\ job.keep \in SUBSET Segment
    /\ job.old \in SUBSET Nat
    /\ job = [chunks |-> job.chunks, new |-> job.new, keep |-> job.keep, old |-> job.old]

\* Type invariant: every variable has the type of the field it stands for, and
\* no more of the log is taken to be on stable storage than was written.
TypeOK ==
    /\ ControlOK
    /\ HandleOK
    /\ JobOK
    /\ \A d \in Images : IsDisk(d)

-----------------------------------------------------------------------------
(* What is read, now and after a crash.                                    *)

\* The map that opening the directory d, with n records of its log, yields.
Recovered(d, n) == ViewOf(Replay(SubSeq(d.wal, 1, n)), d.man, d.files)

\* The maps a crash at this instant may leave.
Survivors == UNION {{Recovered(d, n) : n \in d.synced .. Len(d.wal)} : d \in Images}

\* What get returns; of a closed database, what it will return once opened.
Current ==
    IF Running THEN ViewOf(mem, man, disk.files) ELSE Recovered(disk, Len(disk.wal))

\* The engine keeps the promise of DurableMap: a commit survives every crash
\* as a whole, an unacknowledged one as a whole or not at all, flush and
\* compaction change nothing a client reads (Transaction::commit, wal::replay,
\* flush, compact, open_with).
Promise == INSTANCE DurableMap WITH
    kv <- Current,
    survivors <- Survivors,
    prep <- IF pc \in {"commit", "failed"} THEN tx.batch ELSE EmptyTable

KeepsPromise == Promise!DSpec

-----------------------------------------------------------------------------
(* Invariants.                                                             *)

\* Whatever state of the directory a crash at this instant leaves, opening it
\* succeeds: no `manifest references missing ...' and no overlap
\* (validate_open_state, Manifest::validate, against compact, compact_full, gc).
AlwaysOpens == \A d \in Images : Opens(d)

\* The manifest in memory names only files that exist, were written to the end
\* and lie in disjoint ranges, at every step of every call: neither get nor a
\* merge can meet a missing or partial file (merge_ids, table_bounds, get).
LiveTablesReadable ==
    Running =>
        /\ Opens([disk EXCEPT !.man = man])
        /\ \A id \in AllIds(man) : disk.files[id] # Broken
        /\ \A id \in AllIds(man) : id < man.next

\* Between calls the log replays to exactly the memtable, unless a failed
\* append or commit left something in it (put_internal, commit, Wal::truncate).
LogReplaysToMemtable ==
    pc = "idle" /\ aborted = {} /\ Readable(disk.wal) = Len(disk.wal)
        => Replay(disk.wal) = mem

\* A process that never failed has no table file its manifest does not name
\* (compact and compact_full delete what they replaced).
OrphansOnlyFromFailures ==
    pc = "idle" /\ nCrashes = 0 /\ Faults = {} => Orphans = {}

\* The commit record of an aborted transaction is not in the log: `abort/drop
\* without commit leaves no trace' (Transaction::abort).
AbortedNotInLog == \A d \in Images : Committed(d.wal) \cap aborted = {}

-----------------------------------------------------------------------------
(* Action properties.                                                      *)

\* When commit() returns, every crash leaves exactly what is now read
\* (`after the fsync the block survives': Transaction::commit).
CommitDurable == [][SyncCommit => Survivors' = {Current'}]_vars

\* When a flush() that wrote something returns, every crash leaves exactly
\* what is now read (put's contract: durable after a successful flush()).
FlushSucceeds ==
    /\ pc \in {"truncate", "delete"}
    /\ pc' = "idle"
    /\ mem' = EmptyTable

FlushDurable == [][FlushSucceeds => Survivors' = {Current'}]_vars

\* When close() returns Ok, every crash leaves exactly what is now read (the
\* same contract names close() beside flush()).
CloseSucceeds ==
    \/ pc = "closing" /\ pc' = "idle" /\ closed'
    \/ CloseAgain

CloseDurable == [][CloseSucceeds => Survivors' = {Current'}]_vars

\* No step of flush, compaction, gc or close, and no other step that leaves the
\* memtable alone, changes what get returns: a dropped tombstone never uncovers
\* an older value (compact, merge_ids), and gc removes nothing that is read.
MaintenanceKeepsView ==
    [][Running /\ Running' /\ (pc \notin {"idle", "commit"} \/ mem' = mem)
        => Current' = Current]_vars

\* While the process runs, a table id in the manifest means the same contents:
\* what makes the cached readers of table_cache valid without invalidation.
TablesImmutable ==
    [][Running /\ Running' =>
        \A id \in AllIds(man) \cap AllIds(man') : disk'.files[id] = disk.files[id]]_vars
=============================================================================

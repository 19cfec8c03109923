# A verification development for myLSM-DB

TLA+ models of this repository, from the storage engine up to the query language,
checked with TLC on small instances and, where it matters most, proved with TLAPS for
every value of the constants. Paths such as `src/lib.rs` are relative to the repository's root.

1. [The system](#1-the-system)
2. [The modules](#2-the-modules)
3. [What is abstracted](#3-what-is-abstracted)
4. [The properties](#4-the-properties)
5. [The runs](#5-the-runs)
6. [Where the code and its documentation disagree](#6-where-the-code-and-its-documentation-disagree)
7. [The proofs](#7-the-proofs)
8. [What is not modelled, and the plan](#8-what-is-not-modelled-and-the-plan)

## 1. The system

myLSM-DB is an embedded, single-threaded document store. A key-value LSM engine
(`Database`) is at the bottom; entities, secondary indexes, transactions, a query
planner and a small query language sit on top of it. Every call takes `&mut self`:
there are no threads, locks or callbacks, and two calls never overlap. What can
happen between any two file operations of a call is that the process ends, that
power fails, or that the operation itself fails and the call returns `Err` with
some of its steps done. That is where the engine is hard to get right and hard to
test, and what the core models are about.

| Component | State | Operations | Works with | What makes it correct |
|---|---|---|---|---|
| **Database** `src/lib.rs` | memtable, manifest, log, `next_tx_id`, `closed`, table cache | `put`, `delete`, `get`, `scan`, `flush`, `compact`, `compact_full`, `gc`, `close`, `Drop`, `open_with`, `backup`, `restore` | owns Wal, MemTable and Manifest, writes tables | opens after every crash; an acknowledged write survives; maintenance changes nothing that is read |
| **Wal** `src/wal.rs` | `wal.log` and its `BufWriter` | append, transaction records, `sync`, `truncate`, `replay` | written before the memtable, read at open | replay yields the memtable; a transaction as a whole or not at all |
| **MemTable** `src/memtable.rs` | a sorted map, its size | put, get, iterate | filled by put and commit, emptied by flush | the latest entry of each key |
| **Manifest** `src/manifest.rs` | next table id, L0 list, L1 segments | load, validate, save (temporary file, fsync, rename) | names the table files that count | names only whole files; segments disjoint |
| **Tables** `src/sstable.rs`, `src/compaction.rs` | immutable files with a sparse index and a bloom filter | build, open, get, scan | written by flush and compaction | a lookup finds what was built |
| **MergeIter** `src/iterator.rs` | a heap of sources | next | scans and merges | each key once, newest source wins |
| **Transaction** `src/entity.rs` | pending map, id, status | update, delete, get, find, `commit`, `abort`, drop | overlays the store; writes its batch to the log | atomic; leaves no trace when aborted; reads its own writes |
| **EntityStore** `src/entity.rs` | schema, field hint | `put_entity`, `delete_entity`, `cas_update`, index management | one engine record per field, one per index entry | an entity reads back as written; the index lists it |
| **Indexes** `src/index.rs` | index records, `BUILDING` or `READY` | create, rebuild, find, drop | maintained by every put | no false negatives once `READY` |
| **Schema** `src/schema.rs` | ids of collections and fields, index states, the file `SCHEMA` | allot ids, register and drop indexes, save, load | saved after a put, before a commit, around an index build | an id never changes its meaning |
| **Backup** `src/lib.rs`, `src/version.rs` | the files of the destination | `backup`, `restore`, version check | flushes the engine, copies its files | a backup that returned `Ok` is restored to what was read |
| **Planner** `src/query/planner.rs`, `logical.rs`, `physical.rs` | the calls made on a builder | normal form, choice of indexes, ranges, residual filters, ordered scans | reads the schema | the plan has the result of a full scan |
| **Executor** `src/query/executor.rs`, `expression.rs` | streams of rows | scan, find, union, fetch, filter, sort, limit, project, aggregate | runs a plan on indexes and entities | each entity once, checked against its record |
| **Codecs** `src/ordering.rs`, `src/keycodec.rs`, `src/codec.rs` | none | encode, decode, ranges | keys of everything above | order and prefixes are preserved |
| **LSMQL** `src/lsmql/` | none | lex, parse, bind, validate, translate, run | produces query builders | the query it says, or an error |

How a write travels: `put` appends a record to the log (`Wal::append`, into a
buffer, without an fsync), inserts it into the memtable, and flushes once the
memtable is full. `flush` writes the memtable to a new table file and fsyncs it,
adds its id to L0, saves the manifest, truncates the log and, once L0 is long
enough, runs `compact`. `compact` merges all L0 tables with the segments that
overlap them, cuts the result into new segment files, replaces the manifest in
memory, saves it, and deletes the old files. A commit writes its batch between a
Begin and a Commit record and fsyncs the log before the memtable is touched.
`open_with` loads and checks the manifest and replays the log.

The behaviours that are hard are listed, each at its line, under `hazards` in
`PROJECT.json`; the properties of section 4 are aimed at them.

## 2. The modules

| Module | Models |
|---|---|
| `Tables` | entries, tables, the newest-first merge, the cut into segments: pure operators |
| `WriteAheadLog` | log records, the block of a commit, replay and the largest transaction id: pure operators |
| `LsmEngine` | the engine: one action per call up to its first file operation another event may follow, then one action per step |
| `DurableMap` | the abstract specification: a map, and the maps a crash may leave |
| `LsmProperties` | types, invariants, action properties, and the refinement of `DurableMap` |
| `OrderedScan` | the abstract specification of every iterator: the records of a table, each once, in key order |
| `KeyRange` | half-open key ranges: pure operators |
| `MergeIterator` | the k-way merge of `MergeIter`, one action per step of `next()` |
| `TransactionScan` | the lazy overlay `TxScan` of a transaction's writes over the committed stream |
| `SsTable` | one table file: building it with index and bloom filter, point lookups, range scans |
| `LoggedMap` | the engine as the entities see it: a map and a log of batches, of which a crash leaves a prefix |
| `EntityStore` | entities, their indexes and the schema, write by write, with transactions, the field hint, failures, crashes and recovery |
| `Backup` | `backup` and `restore` beside the engine, file by file |
| `IndexBounds`, `RangeMerge` | the bounds of an index scan, and the two loops that merge the literals of a query into one range |
| `Predicates` | what a predicate says of an entity, and its disjunctive normal form: pure operators |
| `QueryPlanner`, `QueryExecutor` | from a builder's calls to a plan, and from a plan to rows and totals: pure operators |
| `Lsmql` | from tokens to a builder: the parser, the parameters, validation, translation: pure operators |
| `Queries` | a query from the call to the answer, composing the four above, against a look at every entity |
| `ByteKeys`, `KeyCodec` | byte strings with their order and successors; the three codecs: pure operators |
| `IndexKeys` | the byte keys that puts, deletes and index builds leave, and what a search scans of them |
| `MC...` | the instances for TLC |
| `TableLemmas` | lemmas about naturals and tables, for all proofs below |
| `LsmEngineProofs` | lemmas about the directory, and the theorems about the engine's files |
| `DurabilityProofs` | lemmas about replay, and the theorems about what the engine returns, before and after a crash, the refinement of `DurableMap`, and the invariant of a backup |
| `EntityStoreProofs` | lemmas about maps, logs of batches, schemas and the writes of a call, and the theorems about entities, indexes and commits |
| `MergeIteratorProofs`, `TransactionScanProofs`, `SsTableProofs` | the invariant of each iterator and its refinement of `OrderedScan` |
| `RangeProofs` | the invariant of the two loops of the planner; the order of keys, and the range of a prefix |

**State of `LsmEngine`.** `mem` and `man` are `self.memtable` and `self.manifest`,
`nextTx` is `self.next_tx_id`, `closed` is `self.closed`. `disk` is the directory:
`MANIFEST`, the table files by id, the log, and how much of the log an fsync has
covered. `older` holds the earlier states of the directory a power loss may bring
back. `pc` is the step the call has reached and `cont` the caller `flush` returns
to (`compact_full`, `close`, `Drop` or none); `job` holds the local variables of a
merge and `tx` the transaction whose `commit` is under way or has failed.
`aborted` is a history variable. `nCalls` and `nCrashes` count towards the bounds
`MaxCalls` and `MaxCrashes`.

**Actions.** `Put`, `PutFails`; `StartCommit`, `SyncCommit`, `SyncCommitFails`,
`RetryCommit`, `Abort`; `Call` (the start of flush, compact_full, close and Drop);
`BuildL0`, `SaveL0`, `Truncate`; `PlanCompaction`, `PlanFull`, `WriteSegment`,
`SwapManifest`, `DeleteOld`; `Gc`; `SyncLog`, `SaveAndClose`, `CloseAgain`,
`DropClosed`; `Kill`, `LosePower`, `Open`, `Get`; and for every file operation the
action in which it fails. An action named `...Mutant` or an operator so named is a
plausible bug, used to show that a property notices it; the specification never
uses it.

**Crashes.** `Kill` is the end of the process: the file system keeps everything
it was given, the log's buffer is lost from some record on. `LosePower` also
loses what no fsync covers. The model of the file system is that of an ordered
journal: creations, renames, truncations and removals reach the disk in the order
they were made, and the next fsync of any file settles all earlier ones; a rename
is atomic. A weaker file system would lose more. `synced` says how much of the
log an fsync has covered; the rest may survive up to any record.

**The abstract specification.** `DurableMap` has three variables: `kv`, what reads
return; `survivors`, the maps a crash at this instant may leave; `prep`, the batch
of a commit under way. A plain write may or may not survive. A commit adds exactly
one survivor when it starts (all of the batch) and is the only survivor when it
returns. Maintenance leaves `kv` alone and may leave of each key only what could
be left before. `LsmProperties` maps the engine onto it: `kv` is what `get`
returns, `survivors` is computed by opening every state of the directory a crash
may leave with every prefix of its log. The property `KeepsPromise` is that the
engine refines `DurableMap` under this mapping.

The clause about maintenance is per key and not per map, and that is a fact about
the code. After `flush` has saved the manifest and before the log is truncated, a
crash can keep the new table and only a prefix of the log. Replay then puts older
values of some keys, those whose last record is cut off, over the newer ones in
the table. The result mixes keys of two moments. Each value was written once and
none was acknowledged as durable at that point, so nothing `put` promises is
broken, but the states a client may find after a crash are more than the prefixes
of its writes.

**The iterators.** `MergeIterator`, `TransactionScan` and `SsTable` each implement
`OrderedScan`, with a different idea of the table that is scanned: the newest
record of every key (`Newest`), the records as they would be after the commit
(`Overlay`), the records asked for (`Asked`). They justify what the engine's model
takes for granted: `Merge`, `ViewOf` and `Lookup` read tables as functions of keys,
and a merge, a scan or a point read delivers exactly that function; and the bounds of
a segment are the least and greatest key of its table (`IndexExact`). Their actions:
`Prime`, `Pop`, `Skip`, `Return`, `Exhausted` for `MergeIter::next`, the inner loop
being repeated `Skip`; `TakePending`, `TakeCommitted`, `Shadow`, `Exhausted` for
`TxScan::next`; `Add`, `Finish` for `TableBuilder`, then `StartLookup` or
`StartRange`, `Halve` and `Seek` for the binary search, `SkipRecord`, `YieldRecord`,
`EndOfRead` for the linear read. `ReadFails` is an I/O or checksum error: `next()`
returns `Err` and the scan is over: the callers in the engine and in `src/entity.rs`
pass the error up with `?` and drop the iterator. The executor's filter does not; it
drops such a row and reads on (`FilterRows` of `QueryExecutor`, section 6).

**The entities.** `EntityStore` is `EntityStore` and `Transaction` of `src/entity.rs`,
with `src/index.rs` and `src/schema.rs`, over `LoggedMap`. `base` and `log` are the
engine: what is in tables, and the batches logged since (`synced` of which an fsync
has covered); `schema` is `self.schema`, `saved` the file `SCHEMA`; `hint` is
`field_hint`, `pending` the transaction's map. An engine record is an entity's field
(`FieldKey`) or an index entry (`IndexKey`). A call computes its writes from what it
reads (`PutWrites` is `core_put_entity`, `DeleteWrites` is `core_delete_entity`,
`RebuildWrites` is `rebuild`), in phases; `WriteOne` makes them one at a time,
`SaveTables` and `Truncate` are the flush a write or `flush` may run into, and
`PutDone`, `DeleteDone`, `IndexDone`, `Persist` are what follows the writes. A
transaction's operations change `pending` at once (`TxUpdate`, `TxCasUpdate`,
`TxDelete`); `StartCommit`, `LogBlock`, `Sync` are `commit`. `CallFails` is the `?`
after any of these steps, `Crash` the end of the process or of power, and `Open`,
`RecoverIndex`, `Recovered` are `open_with`. `CreateIndex` and `DropIndex` are
`create_index` and `drop_index`, and the calls for composite indexes given two fields
or more. Given one field these register, or drop, what everything else takes for the
single-field index, but write, or clear, entries behind the prefix of a composite one,
where neither puts nor `find` look: `NarrowCreateIndex`, `NarrowDropIndex`. `want` and `was` are history variables:
each entity as it was last written, and what a crash could have left of the entities
before the call under way.

**Backups.** `Backup` adds to the engine the step `backup` has reached (`step`), the
tables still to be copied (`todo`), the destination (`dest`) and, as history, what was
read when it returned (`saved`). `StartBackup` and `FlushStep` are its flush, then
`PrepareDest`, `CopyVersion`, `CopyManifest`, `CopyTable` and `EndBackup`; `CopyFails`
is a copy that fails, with what its cleaning leaves, `KilledInBackup` the end of the
process. The engine's own steps (`EngineStep`) come before and after, not between,
as the call holds `&mut self`. `restore` works on a copy nobody else touches; it is
the function `Restored`, and opening its result is `Opens` of the engine.

**Queries.** The planner and the executor keep no state between calls, so they are
operators. `Plan` takes a schema and the logical plan a builder made (`Flatten` is the
loop that takes it apart) to a physical plan, by way of `Dnf`, `PlanClause` (with
`CheapestField` and `BestComposite`) and `IndexOrderEnabled`. `Exec` runs a plan on a
database, a record of its entities, of index entries left behind by earlier calls
(`stale`) and of fields that cannot be decoded (`damaged`). `Queries` is the call: a
text passes `ParseText`, `BindAndValidate`, `Translate`, a program calls the builder
(`CallFilter`, `CallSort`, ...) in any order. `PlanQuery` is the start of the call that
ends the builder, `execute_query` or `execute_aggregate` (`terminal`): a program makes
either, a text the one it is for. It refuses what that call refuses (`RefusedBy`: the
wrong kind of query, a projection of no field, an aggregate beside a projection).
`ExecuteQuery` and `ExecuteAggregate` are the rest. `asked` is what the caller said, kept apart from
everything the code makes of it, and `RightRows` and `RightTotal` answer it by looking
at every entity.

`RangeMerge` takes the two loops at the heart of the planner one literal at a time, as
a specification of its own that can be proved about: `TakeLiteral` is the loop of
`merge_bounds`, `TakeClause` that of `union_bounds`. `QueryPlanner` uses the same
operators of `IndexBounds` in folds.

**Keys.** `KeyCodec` encodes values and keys to sequences of bytes. `IndexKeys` is the
key-value store under entities and indexes, with these bytes as keys: `PutEntity`,
`DeleteEntity`, `CreateIndex`, `DropIndex` and their `Narrow...` forms are each one step
here (`EntityStore` has their steps, with abstract keys), and `Find` is the scan a
search makes. `records` says what the store should hold, `narrow` which indexes of one
field `create_composite_index` has made; no action reads `records` but to update it.

## 3. What is abstracted

- Keys are integers and only their order matters; values are model values. A
  record that does not parse or whose checksum is wrong is `Torn`; that a torn
  record always fails its checksum is assumed.
- The size of a memtable is its number of records, and so is that of a segment.
- A table file is its contents, or `Broken` when it was not written to its end.
  Sparse index, bloom filter and block reads are in `SsTable`, not in `LsmEngine`.
- In `SsTable` a byte offset is the number of the record that starts there, and the
  bloom filter's hash is any function from keys to sets of bits (`Bits`).
- The segment vector, sorted by `min_key`, is a set; `FindSegment` picks from it by
  order as the binary search does.
- `Wal`'s buffer and the part of the file no fsync covers are one: a crash may keep
  any prefix of both. For a process end this allows a little more than happens
  when bytes have left the buffer.
- `Batches` is a set of tables; the instances use none that is empty (such a commit
  only writes its Begin and Commit records). A transaction that never calls `commit`
  only uses up an id. `commit` saves the file `SCHEMA` first, which is no concern of
  the engine and a step of `EntityStore`; it ignores an error of the flush that may
  follow it, and so does the action for it.
- A failure of `set_len` in `truncate` is modelled as leaving the log whole, and
  success as emptying it; the case that `set_len` works and the following `seek`
  fails is not.
- `close_without_flush` (used by tests) is a `Kill` that keeps the whole log.
- `gc` removes its files in one step that may stop part way when a removal fails; a
  power loss may bring back any of them.
- The table cache is not a variable. It is keyed by table id, so what makes it
  correct is that an id never changes its contents while the process runs:
  `TablesImmutable`.
- `EntityStore` has one collection. Values are model values, so an index has an entry
  per value and the ranges of `find` are left out: a find misses nothing if the index
  lists every entity (`Complete`), and what it lists too much is filtered out by its
  own check of the entity. The keys of an index carry the ids of its fields, those of
  a composite index in the code carry the id of the index; the two name each other. Only
  for what `NarrowCreateIndex` writes there is a difference: an index dropped and created
  again has a new id in the code, and here finds the old entries again. No call of the
  model reads them. `find_composite` asked for an index of one field would; it is left out.
- In `EntityStore`, `Patch::Increment` is a `Set` to some value; `Expected` is the set of
  entities it accepts. The order of the writes within a phase is left open, as it is
  that of a hash map; the entity's fields are written in their own order. Deletions
  of records that are deleted already are left out.
- In `EntityStore`, saving `SCHEMA` is one step and durable. The failures of a
  commit's own writes are in `LsmEngine`. A crash between the save of the manifest and
  the truncation of the log mixes keys of two moments (section 2), and that breaks an
  index (`mixed_moments`, section 6); `entity_crashes` does not crash there (its `CrashAt`
  has no "truncate").
- In `Backup` a copy is durable at once: `backup` does not fsync what it copies, so the
  module is about process ends, not about power losses (its assumption says so). A
  failed copy of `MANIFEST` may leave an empty one behind, because only files that
  were copied completely are cleaned up; it counts as the manifest of a new database.
  A database that never held anything has no `MANIFEST`; its backup returns `Ok` and
  `restore` refuses it. `EntityStore::backup`, which also copies `SCHEMA`, and
  directories older than `VERSION` are left out.
- In the query modules a value is an integer, and 0 stands for `Null`: only the order
  of values is used (`value_cmp`, whose order across types is in `KeyCodec`). A field
  is a number, its place among the names and its id at once; a projection is a set of them. A stream is the sequence
  of all its rows: an operator that would stop early reads to the end here, which
  differs only in errors it would not have met. The texts are sequences of tokens.
- Aggregates are on integers. `MaxInt` stands for the largest `i64` and is small, so
  that sums exceed it.
- In `KeyCodec` a number of a fixed width has two bytes and a byte goes up to `Top`,
  which stands for 0xFF. A float is a sign bit and a magnitude whose largest values are
  infinity and NaNs, as in IEEE 754.
- In `IndexKeys` the log, failures and crashes are left out; they are in `EntityStore`.
  `NarrowIndexes` says which indexes get the calls for composite ones with one field.
- The conversion of legacy L1 tables at open, the steps of the binary search for a
  segment, inspection methods and diagnostics are left out.

## 4. The properties

Invariants:

- `TypeOK`: every variable has its type; no more of the log counts as durable than
  was written.
- `AlwaysOpens`: every state of the directory a crash at this instant may leave can
  be opened: no missing file, no overlap, no wrong bounds.
- `LiveTablesReadable`: at every step of every call the manifest in memory names
  only files that exist, are whole, and lie in disjoint ranges.
- `LogReplaysToMemtable`: between calls, replaying the log yields the memtable,
  unless a failed append or an aborted commit left something in it.
- `OrphansOnlyFromFailures`: a process that never failed leaves no table file that
  its manifest does not name.
- `AbortedNotInLog`: the log holds no commit record of an aborted transaction
  (violated, see section 6).

Action properties:

- `KeepsPromise`: refinement of `DurableMap`.
- `CommitDurable`, `FlushDurable`, `CloseDurable`: when `commit`, `flush` or `close`
  returns `Ok`, every crash leaves exactly what is now read.
- `MaintenanceKeepsView`: no step of flush, compaction, gc or close, and no other step
  that leaves the memtable alone, changes what is read; in particular a dropped
  tombstone never uncovers an older value.
- `TablesImmutable`: a table id in the manifest keeps its contents.

Of the iterators:

- `YieldsNewest` (merge), `ReadsOwnWrites` (transaction), `FindsRecords` (table file):
  refinement of `OrderedScan`, so nothing is skipped, repeated, stale or out of
  order, and the end is not announced early.
- `HeapIsCursors`: the heap holds exactly the cursors of the sources that are not
  exhausted, but for the one whose record is about to be returned. A source popped
  thus has a record: the `expect` in `MergeIter::next` cannot fail.
- `IndexExact`: the sparse index is in key order, points at its records, and begins
  and ends with the bounds of the table.
- `Drains` (merge, transaction), `ReadsEnd` (table file): the scan ends. The loop that
  skips duplicates, the binary search and the read over a block make this worth
  asking. The fairness is weak fairness of `Step`, the actions of the iterator
  without `ReadFails`: the callers loop until `None` (`while let Some`, `collect`), in
  the same thread, and nothing in a call waits for anything. Errors are not fair:
  they may happen or not.

Of the entities:

- `ReadsBack`: between calls and within a transaction an entity reads back as it was
  last written. This is about the hint: a stale one makes a put overlook fields.
- `FindsAll`: an index that `find` accepts lists every entity that has values for it,
  committed or pending.
- `ReadyIndexSurvives`: the same of whatever a crash now would leave, for the indexes
  that `SCHEMA` calls READY, because open does not rebuild those.
- `StoredIdsKnown`: after a crash now `SCHEMA` knows the field of every stored record.
- `CommitAtomic`: a crash in a commit leaves all entities as they could have been left
  before it or as they are after it, and as after it once the log is synced.
- `CasAtomic`: the same of a direct `cas_update` (violated, see section 6).
- `TypeOK`: types, and no more of the log counts as durable than there is.

Of backups:

- `BackupsReadBack`: a backup that returned `Ok` is restored to a directory that opens
  and reads as the database did when it was made, whatever the engine did before
  and since. It relates the manifest on disk, the one in memory and the copied files.
- `BackupDurable`: when `backup` returns `Ok`, what is read is durable, as after `flush`.

Of queries:

- `RangeCovers`, `RangeExact`: at every literal the range merged so far holds exactly the
  values that pass the literals merged so far. The planner drops these literals from
  the filter, so a range that is too wide shows in the result, and one that is too
  narrow loses entities. `RangeExact` is stated for queries without tied lower bounds
  (section 6).
- `UnionCovers`: the one range that an ordered scan reads covers every clause.
- `ClausesKeepMeaning`: the clauses say the same of every entity as the predicate, of
  fields that are missing too.
- `AnswersAsked`: the rows are those of a look at every entity; none twice, in the order
  asked for, the right window of them.
- `TotalsAsked`: an aggregate is that of the rows asked for, at the limit of `i64` too.
- `RefusesTheRest`: a text, or a builder ended by either call, is answered with an error
  exactly when it has no meaning: a malformed text, rows of an aggregate or of no field,
  a total of nothing or beside a projection.

`AnswersAsked` and `TotalsAsked` leave out the calls in `Excepted`, each a place where the
code answers otherwise and each shown in section 6: tied lower bounds, a prefix of a
composite index that hides an entity of the range, an ordered scan over an entry left
behind when both values lie in its range, a filter over a row that could not be read,
builder calls in which a limit is not the last or a second sort follows, and queries on
`id`. These are as narrow as the code allows: a stale entry or a damaged record that
is none of this must not show. `MCQueries`
asks for no text with several aggregates, with a second item of `ORDER BY`, with `OFFSET`
under `COUNT`, with tokens behind its end, or with a parameter that no `f64` holds.

Of keys:

- `ScansWhatIsAsked`: after any puts, deletes and index builds, a search scans the
  entries of just the entities whose values lie in its range, and the key of each
  entry says which values and which entity these are. Entities whose value was
  replaced by one that `==` and the codec do not agree on are left out, and so are
  indexes of one field that `create_composite_index` has made (section 6).
- `ValuesInOrder`: the scan yields them in the order of values.
- `ReadsOwnRecords`: an entity reads back from its bytes, and neither another entity nor
  an index, nor dropping one, touches its records.

No liveness is stated of `LsmEngine` or `EntityStore` and no fairness is assumed of them: calls are
synchronous, nothing is retried or scheduled in the background, and a call ends
after a bounded number of steps by construction.

## 5. The runs

`recovery` and `iofaults` check `Spec` of `LsmEngine`, `compaction` checks `BSpec` of
`Backup`, in which the engine runs unchanged. Deadlock is checked in all three (`Get`
keeps an open engine enabled, `Open` a closed one). `merge`, `txscan` and `sstable` check
`FairSpec` of an iterator; deadlock is not checked there, because a scan ends. The
next three check `Spec` of `EntityStore`; deadlock is not checked, because the clients
stop after `MaxCalls` calls. In the last three a behaviour ends with the merged range,
the answer or the search.

| Run | Instance | Properties | States |
|---|---|---|---|
| `recovery` | 2 keys, 1 value, segments of 1 record, memtable of 2, L0 threshold 2; flush and gc; truncation may fail; power loss; 3 calls, 2 crashes | `AlwaysOpens`, `KeepsPromise`, `CommitDurable` | 75 thousand |
| `compaction` | 3 keys, 1 value, segments of 2 records, memtable of 2, threshold 2; flush, compact_full, gc; a backup after the third call, whose copies may fail; 5 calls, 1 process end | `LiveTablesReadable`, `OrphansOnlyFromFailures`, `BackupsReadBack`, `FlushDurable`, `MaintenanceKeepsView`, `TablesImmutable`, `BackupDurable` | 1.3 million |
| `iofaults` | 2 keys, 1 value, as `recovery`, all calls but gc, all eight kinds of failure, power loss; 3 calls, 2 crashes | `TypeOK`, `AlwaysOpens`, `LiveTablesReadable`, `LogReplaysToMemtable` | 686 thousand |
| `merge` | every content of 3 sources over 3 keys; read errors | `HeapIsCursors`, `YieldsNewest`, `Drains` | 448 thousand |
| `txscan` | every committed and pending table over 3 keys, every range; read errors | `ReadsOwnWrites`, `Drains` | 56 thousand |
| `sstable` | every table over 5 keys, every lookup and range, an index entry per 2 records, a filter in which keys collide; read errors | `IndexExact`, `FindsRecords`, `ReadsEnd` | 128 thousand |
| `entities` | 1 entity, 2 fields, 2 values, an index on one field and one on both; put, cas_update, delete, transactions, flush; memtable of 6; 4 calls | `ReadsBack`, `FindsAll` | 403 thousand |
| `entity_crashes` | the same entity, an index on one field; put, cas_update, delete, transactions; memtable of 3; 3 calls, 2 crashes, between calls, in a commit or in open | `TypeOK`, `ReadsBack`, `ReadyIndexSurvives`, `StoredIdsKnown`, `CommitAtomic` | 58 thousand |
| `index_builds` | an index on one field is created and dropped, while it is READY also with the calls for composite indexes; put, delete, transactions, close; puts, deletes and commits may fail at any step; memtable of 3; 4 calls, 2 crashes while the index is built | `FindsAll` | 653 thousand |
| `ranges` | every query of two clauses with up to two literals each, and of one clause with three; all comparisons with two values, one literal of another field, one negated | `RangeCovers`, `RangeExact`, `UnionCovers` | 633 thousand |
| `queries` | nine entities, one of every kind over two fields (missing, null, 1, 2); no index, one, two, a composite one in either order; entries left behind, damaged fields; texts with up to three literals, every connective and negation, five choices of order, limit and offset, or a literal on `id`; all builder programs of three calls, a projection of no field among them, ended by either call; malformed texts | `AnswersAsked`, `TotalsAsked`, `RefusesTheRest`, `ClausesKeepMeaning` | 734 thousand |
| `codecs` | two collections and two fields whose ids have 0xFF bytes, two entities of which one id begins with the other, values at the edges of every type, a composite index under the id of a field; 2 puts, deletes, index builds and drops, of one index with the calls for composite ones too, then any search | `ScansWhatIsAsked`, `ValuesInOrder`, `ReadsOwnRecords` | 467 thousand |

Why the bounds are enough. A threshold of two makes a compaction follow two
flushes, which two transactions that fill the memtable reach; a third call meets
the segments they left. One value and the tombstone suffice for the interesting
confusions, deleted against present and old against new, because a key's history
is write, delete, write. With three keys and segments of two records a merge
yields several segments, some overlapped by the next compaction and some not. Two
crashes cover a crash during recovery's aftermath: a log cut once, appended to,
and cut again. The mutants in `PROJECT.json` confirm that each property is broken
within the bounds by a plausible bug: files deleted before the manifest is saved, a
dropped overlap at one end, a transaction id that is used again, a truncation
that does not happen, and so on.

Entities do not interact, but through the field ids and the memtable's limit, so one
entity suffices for what its records and entries can be. Two fields and two values
give a composite index every kind of change: complete or not, one field or both, the
same value again. A put, another one and a third that relies on the hint of the
second make three calls; a fourth comes between them as a transaction or a reopening.

A query's answer depends on an entity only through its literals, which tell missing, null
and two values apart; each combination of them is an entity, so a mistake about any
one shows as a row too many or too few. Two clauses of two literals make a tie, an empty
range and a union with a gap. Three literals make a clause with a residual beside a
composite index, and a disjunction under a conjunction. Two puts suffice for an index
entry to be replaced; with a byte of eight values ids and lengths still end in 0xFF.

`recovery` leaves out the torn tail, `gc` after a failed save and failing commits, and
`compaction` failing saves, because the code breaks the properties there; section 6 shows
each. For
the same reason `entity_crashes` has no composite index, creates none and does not crash before a truncation,
`index_builds` crashes only while an index is built, lets no build fail and does not make
a new index of one field with `create_composite_index`, and no run
asks for `ReadsBack` after a put that failed. `entity_crashes` need not crash within a
put to lose half of it: a crash between calls may keep any prefix of the log, and a
flush may have put the first half into a table. It does not crash in the flush that
may follow a commit either, so the last part of `CommitAtomic`, all of the batch once
the log is synced, does not apply in this run; the theorem `CommitsWhole` proves it of
crashes there too.

## 6. Where the code and its documentation disagree

Each instance below checks one documented property and finds, within seconds, a
behaviour of the code that breaks it. Six are kept as configurations: `torn_tail`,
`gc_after_failed_save` (with `MCLsmEngine`), `backup_after_failed_save` (`MCBackup`),
`stale_hint`, `ready_not_durable` (`MCEntityStore`) and `moved_entry` (`MCQueries`), as in
`tlc -config torn_tail.cfg MCLsmEngine`. The others are a configuration of section 5 with
the property and the constants of the second column.

Of the engine and its backups:

| Name | Instance | What happens |
|---|---|---|
| `torn_tail` | `CommitDurable` | A crash cuts the log inside a record. `Wal::create` reopens the log and appends behind the cut (`src/wal.rs:40`); replay stops at the cut. A transaction committed after the restart is lost in the next crash. |
| `gc_after_failed_save` | `AlwaysOpens` | `compact` replaces the manifest in memory before it saves it. When the save fails, `gc` takes the one in memory for the committed one and deletes tables that `MANIFEST` names (`src/lib.rs:675`). The next open fails. |
| `failed_commit` | `recovery`: `AbortedNotInLog`, `Faults = {"sync"}` | The fsync of `commit` fails after the block, with its Commit record, was written. `abort` clears the pending map only (`src/entity.rs:1511`): the transaction may show after a restart. |
| `flush_power_loss` | `recovery`: `FlushDurable` | The directory is not fsynced after the rename of `MANIFEST` (`src/manifest.rs:193`), nor the log after its truncation. A power loss after `flush` returned may bring back the old manifest and a cut log. |
| `close_twice` | `recovery`: `CloseDurable`, `Calls = {"close"}`, `PowerLoss = FALSE` | `Database::close` leaves a handle that accepts writes. The second `close`, and `Drop`, do nothing (`src/lib.rs:1128`). |
| `backup_after_failed_save` | `BackupsReadBack` | A compaction fails in the save of the manifest. The next `backup` copies `MANIFEST` from disk and the tables of the manifest in memory (`src/lib.rs:985`), returns `Ok`, and the restored copy does not open. |
| `killed_backup` | `compaction`: `RestoresOnlyBackups` | The process ends in a backup, after `MANIFEST` and before all tables were copied. `restore` leaves out the missing tables and returns `Ok` (`src/lib.rs:1069`). |

Of the entities:

| Name | Instance | What happens |
|---|---|---|
| `stale_hint` | `ReadsBack` | A put fails after writing some of its fields. The hint is that of the put before (`src/entity.rs:746`); the next put reads the hint's fields and its own only, and leaves the others behind. |
| `repeated_field` | `entities`: `FindsAll`, `Inputs <- Repeated` | `Entity::insert` accepts a field twice. The last value is stored, the first is listed in a composite index (`src/entity.rs:476`). |
| `mixed_tuple` | `entities`: `ReadyIndexSurvives`, `MaxCrashes = 1`, `CrashAt = {"put"}` | Between the writes of two fields of a put (`src/entity.rs:702`) an entity has one old and one new value. A composite index lists the old tuple and the new one, but not this one, which a crash may leave. |
| `building_find` | `entities`: `FindsAll`, `Calls = {"put", "create"}`, `Faults = {"create"}`, `InitialReady <- NoIndexes` | `create_index` fails while it rebuilds; the index stays BUILDING and is not maintained, but `find` accepts it (`src/index.rs:146`). |
| `narrow_composite` | `index_builds`: `FindsAll`, `Calls = {"put", "narrow_create"}` | `create_composite_index` with one field registers the index that `find` and the planner take for the single-field index of that field (`src/entity.rs:1124`, `src/index.rs:146`), but `rebuild_composite` puts the entries of the entities that are there behind a composite prefix (`src/index.rs:357`). The index is READY and misses them. |
| `create_again` | `entity_crashes`: `ReadyIndexSurvives`, `Calls = {"put", "recreate"}`, `CrashAt = {"create"}` | `create_index` of a READY index clears and rebuilds it while `SCHEMA` says READY (`src/entity.rs:1112`); a crash leaves it incomplete for good. |
| `ready_not_durable` | `ReadyIndexSurvives` | READY is saved and fsynced while the entries are in the log's buffer (`src/entity.rs:1115`). |
| `drop_crash` | `entity_crashes`: `ReadyIndexSurvives`, `Calls = {"put", "drop"}`, `CrashAt = {"drop"}` | `drop_index` deletes the entries, then the definition (`src/entity.rs:1135`); a crash in between leaves a READY index without entries. |
| `mixed_moments` | `entity_crashes`: `ReadyIndexSurvives`, `"truncate"` added to `CrashAt` | `flush` has saved the manifest and not yet emptied the log (`src/lib.rs:560`, `src/lib.rs:566`). A crash keeps the new table and a prefix of the log, and replay puts an older value of a field over the newer one. The index entry of the old value was deleted later, which the table knows: a READY index misses the entity. |
| `cas_crash` | `entities`: `CasAtomic`, `MaxCrashes = 1`, `CrashAt = {"cas"}` | A direct `cas_update` logs plain records one by one (`src/entity.rs:1073`); a crash keeps some of them. |
| `ids_after_data` | `entities`: `StoredIdsKnown`, `MaxCrashes = 1`, `CrashAt = {"put"}`, `Indexes <- NoIndexes`, `InitialReady <- NoIndexes` | `put_entity` saves `SCHEMA` after the records (`src/entity.rs:1044`); a crash leaves records under an id that will be given out again. |

Of queries and keys. In the instances of `queries` but `call_order`, `MaxCalls = 0`:

| Name | Instance | What happens |
|---|---|---|
| `lower_tie` | `ranges`: `MergedRangeExact` | Of `x >= 1` and `x > 1` the planner keeps the first (`src/query/planner.rs:268`) and drops both from the filter: an entity with `x = 1` is in the answer. |
| `composite_prefix` | `queries`: `AnswersAlways`, `Texts <- PlainTexts`, `TextIndexes <- PairIndex`, `Databases <- CleanDatabases` | A query for the first field of a composite index is planned on it, but an entity without the second field has no entry there (`src/index.rs:398`). |
| `moved_entry` | `AnswersAlways` | A put that crashed half way left an entry under the former value. An ordered scan whose range holds both values checks each against the range only and yields the entity twice (`src/query/executor.rs:392`). |
| `id_query` | `queries`: `AnswersAlways`, `Texts <- IdTexts`, `TextIndexes <- NoIndex`, `Databases <- CleanDatabases` | Validation lets every collection have a field `id` (`src/lsmql/validate.rs:86`); to all that follows it is a field like others, which no entity has. `WHERE id = ...` gives no row, `id != ...` every row. |
| `dropped_error` | `queries`: `AnswersAlways`, `Texts <- PlainTexts`, `TextIndexes <- NoIndex`, `Databases <- DamagedDatabases` | A record cannot be decoded. A filter drops the error as a row that does not match (`src/query/executor.rs:107`), and the query returns `Ok` with what is left. |
| `call_order` | `queries`: `AnswersAlways`, `Texts <- NoTexts`, `Databases <- CleanDatabases` | Builder calls nest, but the planner keeps one sort and one limit, the first called, and applies filters that come later before the limit (`src/query/planner.rs:568`). |
| `order_by_two` | `queries`: `AnswersAsked`, `Texts <- TwoOrders` | Of several items of `ORDER BY` only the first orders the rows: each becomes a call of `sort` (`src/lsmql/translate.rs:29`), of which the planner keeps the first. |
| `large_param` | `queries`: `AnswersAsked`, `Texts <- LargeParams`, `MaxExact = 0` | An integer parameter becomes an `f64` and then an integer again (`src/lsmql/engine.rs:160`); above 2^53 it is another one. (`MaxExact` stands for 2^53.) |
| `trailing_tokens` | `queries`: `RefusesTheRest`, `Texts <- Trailing` | The parser stops after `OFFSET` and does not ask for the end of the text (`src/lsmql/parser.rs:134`): what follows is ignored. |
| `float_put` | `codecs`: `NoFalseNegatives` | A put of `-0.0` over `0.0` leaves the index alone, as the two are `==` (`src/entity.rs:646` on); they have different keys, so a search for what is stored finds nothing. |

What is documented: `torn_tail`: "Transaktionale Writes ... sind nach dem Commit durable (WAL +
fsync)" (`OPERATIONS.md:20`). `gc_after_failed_save`: "Referenzierte Dateien werden niemals
angetastet" (`src/lib.rs:663`). `failed_commit`: "Ein `abort()`/`drop` ohne Commit hinterlässt
**keine** Spur" (`README.md:482`). `flush_power_loss`, `close_twice`: "der Write wird erst
nach einem erfolgreichen `flush()`/`close()` dauerhaft" (`src/lib.rs:322`).
`backup_after_failed_save`, `killed_backup`: "Ein halbfertiger Zustand wird niemals als
Erfolg gemeldet" (`src/lib.rs:954`). `stale_hint`:
the hint is "nie Wahrheitsquelle" (`src/entity.rs:270`). `repeated_field`, `building_find`,
`drop_crash`, `ready_not_durable`, `mixed_moments`, `float_put`: an index has "NIEMALS False Negatives"
(`src/index.rs:8`). `narrow_composite`: that, and "Bei einem einzigen Feld entspricht das einem
Single-Field-Index" (`src/entity.rs:1120`). `mixed_tuple`: the
order of writes keeps the index "temporär immer ein Superset" (`src/entity.rs:489`).
`create_again`: "Existiert bereits ein Index, ist das ein No-Op" (`src/entity.rs:1109`).
`cas_crash`: "Der direkte Pfad ist atomar" (`src/entity.rs:1058`). `ids_after_data`: "damit
die Bedeutung eines gespeicherten Keys zwischen zwei Datenbankstarts identisch bleibt"
(`src/schema.rs:4`). `lower_tie`, `composite_prefix`, `moved_entry`, `dropped_error`,
`call_order`: queries are compared "gegen einen **Full-Scan**" with one filter, one sort and
one limit (`README.md:313`, `tests/query.rs:133`); the tests have no ties, no stale entries and
no damaged records. `order_by_two`: "`"ORDER" "BY" orderItem ("," orderItem)*`"
(`docs/design-lsmql.md:122`). `id_query`: "`SELECT * FROM tasks WHERE id = "w1"`" has the
result "eine Task" (`docs/design-lsmql.md:378`). `trailing_tokens`: the grammar of a query ends with its `offset`
(`docs/design-lsmql.md:94`). `large_param`: "`$name` wird **vor** dem Planner durch den
Parameterwert ersetzt" (`docs/design-lsmql.md:252`).

## 7. The proofs

`LsmEngineProofs` proves, for every finite set of keys, every set of values and
batches, all limits and bounds, all subsets of faults and calls, with and without
power loss:

- `TypeCorrect`: `Spec => []TypeOK`.
- `LiveTablesAlwaysReadable`: `Spec => []LiveTablesReadable`, under every failure.
- `OpensAfterEveryCrash`: `Careful => (Spec => []AlwaysOpens)`, where `Careful` says
  that gc is not called if saving the manifest may fail. `gc_after_failed_save` shows
  that the condition is needed.
- `NoOrphansWithoutFailures`: `Spec => []OrphansOnlyFromFailures`.
- `TablesNeverChange`: `Spec => TablesImmutable`.

The assumptions are those of the modules' `ASSUME`s: keys are integers and finitely
many, tombstone, absence and a broken file differ from values, limits are positive.

**The argument.** None of the first three invariants is inductive. `AlwaysOpens` speaks of
what is on disk now; that the next step keeps it depends on what is in memory. The
inductive invariant `IInv` adds, to the types:

- `DirectoryInv`: every `MANIFEST` a crash may find is *intact* with respect to the
  files beside it (those of its files that exist are whole, non-empty and have the
  recorded bounds, its ids are below `next`, its segments are disjoint) and, if the
  engine is used with care, all of its files exist. `next` is needed because a
  restarted process writes its next file under that id: it must not be one that
  any manifest names.
- `LiveInv`: the same of the manifest in memory, without a condition on care, and
  its `next` is not below the one on disk.
- `SavedInv`: what gc relies on: memory names every file that `MANIFEST` names,
  except between adding a table to L0 and saving it.
- `StepInv`: a flush has records to write, a compaction has L0 tables, and while
  old files are deleted the manifest on disk is the one in memory and names none
  of them.
- `WriteInv`: while segments are written, the manifest the merge will end with
  (`Compacted`) is intact already, the chunks still to write are in order and lie
  between its segments, and the files to be replaced are none of its files.

`WriteInv` holds at first because the segments that are kept do not meet the span
of the L0 tables (`PlanCompaction`) and the merged ones are disjoint from them. It
is here that `ChunksProper` of `TableLemmas` is used: cutting a merged table into
chunks yields non-empty tables in increasing, disjoint ranges. It rests on facts
about ranks, and those on minima of finite sets of integers; as induction with an
operator parameter is not available to the prover, `NatLeast` derives the least
element of a set of naturals from the well-foundedness of their order.

The last two theorems need to know which files exist, not only that those which are
named do. `FInv` adds, in three parts: where saves work, `MANIFEST` and the manifest in
memory name the same tables but for the step before a save (`ListsInv`); the tables of
the manifest that a merge does not keep are the ones it will delete (`JobInv`); where
nothing failed and no process ended early, every file is named by the manifest or
belongs to the merge under way (`FilesInv`). The hard step is the swap of the manifest,
which makes the segments of the merge live and its inputs garbage at once.
`FilesInvariance` is `Spec => [](IInv /\ FInv)`.

There is one lemma per action (`PutStep`, `BuildL0Step`, ...). Steps that leave the
manifest and the files alone share `Frame`, ends of the process share `DownFrame`.
`NextInvariant` puts the lemmas together and `Invariance` is `Spec => []IInv`.

`DurabilityProofs` proves, for the same constants, what a client reads:

- `MaintenanceAlwaysKeepsView`: `Spec => MaintenanceKeepsView`, under every failure.
- `LogAlwaysReplays`: `Spec => []LogReplaysToMemtable`, under every failure.
- `EngineKeepsPromise`: `KeepsLog /\ Careful => (Spec => KeepsPromise)`, the refinement of
  `DurableMap`, power losses included.
- `CommitsAreDurable`: `KeepsLog /\ Careful => (Spec => CommitDurable)`.
- `FlushesAreDurable`: `KeepsLog /\ Careful /\ ~PowerLoss => (Spec => FlushDurable)`.

`KeepsLog` says that no append and no fsync of the log fails and that no crash cuts it
inside a record; every other operation may fail. The conditions are needed: `torn_tail`
breaks `CommitDurable`, `failed_commit` leaves an aborted transaction in the log, an append
that failed may be found by the next open, `gc_after_failed_save` loses tables, and
`flush_power_loss` breaks `FlushDurable` (section 6).

**What is read.** `Seen` is the entry of one key, and `ViewSeen` makes a map of entries
of what `get` returns. `VInv` says what a step may rely on: once the L0 table is written it
equals the memtable and is read before all others (`FlushedInv`), and while a merge writes its
segments, every chunk still to write has the visible entries of its keys, while all
other keys read from the manifest the merge will end with as from the one it started
with (`MergeInv`). Planning a merge establishes this (`MergeShows`): tombstones can be dropped
because every segment that holds a key of an L0 table takes part, so nothing older is left
to uncover. `ViewInvariance` is `Spec => [](IInv /\ FInv /\ VInv)`.

**What the log holds.** `LogInv` says that the readable log replays to the memtable between
calls, to the memtable together with the batch in a commit, and what may be in it else
after a failure. The lemmas on replay say what one more record, or one more block,
does to it; replay is given key by key by the last record that counts, so no induction is needed.

**What a crash leaves.** `PromiseInv` adds three invariants. `EmptyInv`: a merge and the end
of `close` have an empty memtable. `KeptInv`: with `KeepsLog` no log has a torn
record and no commit fails, and the memtable reads the same over the manifest in memory and
over the one on disk, which a save that failed leaves behind. `Recoverable`: every
directory a crash may find is sound, and a crash that loses nothing returns what `get` does,
but for the batch of a commit under way. The step lemmas map each action to a step of
`DurableMap`: `PutWrites` to `Write`, `StartPrepares` to `Prepare`, `SyncCommits` to
`Commit`, `EndCrashes` to `Crash`; `UpkeepMaintains`, `SavingMaintains` and
`TruncateMaintains` map flush, merges, gc and close to `Maintain`; the rest are stutters
(`OtherSteps`). The hardest are those between saving the manifest and truncating the log:
the directory then has the new table and the old log, and replaying a prefix of that log
over the table mixes two moments, but of each key only what could be left before.

`MergeIteratorProofs` proves, for any number of sources, any keys and any contents:

- `HeapHoldsCursors`: `Spec => []HeapIsCursors`.
- `MergeYieldsNewest`: `Spec => YieldsNewest`, the refinement of `OrderedScan`.

Its invariant `IInv` says, besides the types, two things. Between calls
(`BetweenCalls`) each source is *untouched* at every key: it still has its record,
unless the key has been yielded, and then it has none. Within a call (`InCall`) the
same holds of all keys but the popped one, whose record is the newest one there is,
no smaller key is left anywhere, and its source has moved past it. The step that
needs an argument is the end of the inner loop (`AllSkipped`): if the cursor on top
of the heap has another key, no source has the popped key any more. The heap's order
puts cursors of the popped key before all others, and among them the least index
before the rest, so one of them would be on top; `NatLeast` provides that index.
`NewestFacts` ties the popped record to `Newest` in the same way. `ReturnYields` and
`ExhaustedEnds` then map the steps to `Yield` and `End`; `Prime`, `Pop` and `Skip` are
stutters.

`TransactionScanProofs` proves, for any committed records, pending writes and range:

- `TransactionReadsOwnWrites`: `Spec => ReadsOwnWrites`.

Its invariant says of each of the two streams that the buffer and what is behind it hold the
records of the range that have not been yielded, the buffered one first (`Streams`).
`Loading` shows that filling a buffer keeps this, whichever buffers were full; the three ways
to yield then differ only in which stream the record is taken from, and whether the other
one holds its key.

`SsTableProofs` proves, for any contents, block length, bits of keys, lookup and range:

- `IndexAlwaysExact`: `Spec => []IndexExact`.
- `ReadsFindRecords`: `Spec => FindsRecords`.

Neither is inductive. `IndexInv` adds that the index begins with record 1, what
`lastIndexed` says, and that it ends with the last record once the file is finished; `RecordsInv`
that the file holds the least keys of the contents in order, with their bits. `SearchInv` is the
invariant of the binary search: entries up to `lo` are not above the key, those beyond `hi`
are. `SeekStep` concludes that no record before the block found is asked for, so the
linear read (`ReadInv`) misses nothing; `StartStep` that a key the filter excludes is absent.

Of `Backup`, `DurabilityProofs` proves, on top of the engine's invariants and for the same constants:

- `BackupsAlwaysReadBack`: `SavesWork => (BSpec => []BackupsReadBack)`, where `SavesWork`
  says that saving the manifest does not fail; `backup_after_failed_save` shows that
  the condition is needed. Copies may fail and the process may end at any step.
- `BackupsAreDurable`: `KeepsLog /\ Careful => (BSpec => BackupDurable)`. It does not need
  `SavesWork`: a backup that ended well has an empty memtable, whatever failed before.

The invariant of the first, with `ListsInv` of the engine, says that between the steps of a
backup memory and disk name the same tables, that what was copied are files of it as they are
now, and that the files still to be copied are exactly the rest. Once the last is copied, the
copy opens because the directory does, and reads the same because `flush` has emptied the
memtable.

`RangeProofs` proves of values, for any fields, any set of integers as values and any queries:

- `RangeCoversAlways`, `RangeExactAlways`, `UnionCoversAlways`: the three properties of the
  run `ranges`.

The invariant says, besides the types, that every bound of the merged range is the
bound of some literal passed: this is what `RangeExact` needs to know that the looser
bound it was merged with does not tie with it. Each step then is the lemma that
`TightenLower` and `TightenUpper` intersect, and that `Widen` covers both.

And of keys, for every alphabet of at least eight bytes:

- `BeforeIrreflexive`, `BeforeTotal`, `BeforeTransitive`: the order of keys is a strict
  total order.
- `PrefixRangeExact`: the range from a prefix to its successor, with or without one,
  holds the keys that begin with the prefix and no others.

Both rest on the first place at which two byte strings differ (`FirstDifference`).

`EntityStoreProofs` proves, for all sets of entities, fields, values, indexes, inputs and
updates, every memtable limit, and all subsets of calls, faults and places to crash that the
conditions leave:

- `Types`: `Spec => []TypeOK`.
- `IdsKnown`: `SchemaFirst => (Spec => []StoredIdsKnown)`.
- `EntitiesReadBack`: `SchemaFirst => (Spec => []ReadsBack)`.
- `CommitsWhole`: `SchemaFirst => (Spec => CommitAtomic)`.
- `IndexesFindAll`: `Findable => (Spec => []FindsAll)`.
- `IndexesSurvive`: `Findable /\ Stable => (Spec => []ReadyIndexSurvives)`.

The conditions say what the code needs; each part is there because section 6 has an instance
that fails without it.

- `SchemaFirst`: no direct put or cas_update is cut short, by an error or a crash. Such a call
  writes fields before `SCHEMA` has their names (`ids_after_data`) and leaves the hint behind
  what is stored (`stale_hint`). Deletes, transactions and index builds may fail and crash
  anywhere.
- `Findable`: no index of one field is first made by `create_composite_index`
  (`narrow_composite`; of a READY index, that call and `drop_composite_index` may come); composite indexes go with `SchemaFirst` and with inputs that name each field once
  (`repeated_field`); no creation or drop of an index fails (`building_find`); and the store
  does not crash, or only while its one index is created, or is `Stable` (`create_again`,
  `drop_crash`, `ready_not_durable`). With single-field indexes puts, deletes and commits
  may fail at any step.
- `Stable`: indexes are neither created nor dropped (but `create_composite_index` of a READY
  one of one field may come, which leaves its entries alone), no call fails, a composite index is not
  written by direct puts (`mixed_tuple`), and no crash falls between the save of the manifest
  and the truncation of the log (`mixed_moments`). A crash may fall between any two writes of
  a put, delete or commit, and in recovery.

The runs `entities`, `index_builds` and `entity_crashes` meet `Findable`, the last one `Stable`
and `SchemaFirst` too, so the theorems cover what these runs check.

**Replay.** The map a log leaves is given key by key, by the last batch that writes the key
(`LastWrites`), so no induction over the log is needed: `ReplayAppend` says what one more batch
does, `ReplayAgain` that replaying a log twice, as after a flush whose log is not yet empty, is
replaying it once.

**What is kept.** `TInv` is the type invariant with that of the log, of the pending map and of the
writes a call has left (`job.todo`), with ids that are given out once and that mean the same in
memory and in `SCHEMA`. `Control` says which steps of which calls can be at which `pc`, and what is
still to be done there. On these rest four more:

- `Known`: every field id in tables, log, pending map and writes to come has a name in memory, and
  outside a put in the file.
- `Own`: the writes a put has left are of its own entity; other calls write only index entries
  and deletions.
- `Reads`: an entity reads as `want` says once the writes left are made (`Final`). It is the
  invariant behind `ReadsBack`, which speaks only of the moments between calls.
- `Hints`: a hint names all stored fields of its entity, so a put that trusts it overlooks none;
  but for the entity being put, and those of a commit that is not over.

`Committing`, for `CommitAtomic`, says that until the block is logged every cut of the log, from what
is synced on, reads as one of the states in `was`; afterwards so does every cut without the block.

**Indexes.** `Found` is the invariant behind `FindsAll`. An index is *held* if it is READY or
being built and not being dropped. A held index is complete once the writes left are made; for
calls that may be cut short it is complete *wherever the writes left stop* (`Safe`: after any
prefix of the phases and any part of the next one, as the order within a phase is open); and a
transaction that may be given up leaves it complete without its pending map. Plain completeness
is not inductive: in the middle of a put the old entry is gone from what will be stored, and that the
new one came first is only visible in the writes still to come. `PutSafe` proves `Safe` for the
writes of a put and a single-field index: new entries first, then the fields, then the old entries,
and an entry that serves both values is not deleted. `PutWhole` does composite indexes at the
end of a put, where repeated names matter; `DeleteSafe` does deletes, for all indexes;
`RebuildWhole` shows that clearing and rebuilding lists every entity. `Built` ties BUILDING to the
call that builds; `Closed` is what open may rely on; `Lasting` is `Closed` at every cut of the
log, and needs `Stable`, since a crash cuts off the deletions and keeps the values only if
the log alone decides.

**Model-checked only.** The query pipeline (`Queries`) evaluates trees with recursive operators,
and `IndexKeys` folds over encoded strings: what these compute for every input is an induction
the prover cannot do, and both are checked, not proved. Liveness under fairness (`Drains`,
`ReadsEnd`) is out of the prover's reach and stays with TLC. `CasAtomic`, `CloseDurable` and
`AbortedNotInLog` are false (section 6).

## 8. What is not modelled, and the plan

Not modelled in components that otherwise are, and what a next step would be:

1. **`find_segment`**: its binary search step by step, at the first, last and missing
   keys of segments, as `SsTable` does for the index. The engine's model takes the
   segment by its range.
2. **Proofs**: `IndexesFindAll` with several indexes, one READY while a crash interrupts the
   building of another; the planner's clauses, once they are recursive functions over trees
   of bounded depth.
3. **Queries within a transaction**: they run the same planner and executor over the
   overlay that `TransactionScan` describes; the two models are not composed.
4. **`EntityStore::backup`**: it copies `SCHEMA` beside what `Backup` models.
5. **Aggregates on floats and strings**, and the statistics of indexes.
6. **The conversion of legacy L1 tables** at open, and directories without `VERSION`.

Not planned: the lexer of LSMQL, the text of `EXPLAIN` and of errors, the errors of
decoders for bytes no encoder writes, diagnostics, error types and the command line
tools: they have no state, and nothing the properties speak of depends on them.
`PROJECT.json` lists every component with its status.

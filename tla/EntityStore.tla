---------------------------- MODULE EntityStore ----------------------------
(***************************************************************************)
(* Entities, their secondary indexes and the schema (src/entity.rs,        *)
(* src/index.rs, src/schema.rs) over the engine.  An entity is one engine  *)
(* record per field; an index is one record per entry, of the values it    *)
(* lists and the entity.  A call reads first, then makes its writes one by *)
(* one; between any two of them a crash may come, and each may fail.       *)
(*                                                                         *)
(* One collection.  An index is the sequence of the names of its fields:   *)
(* a single-field index has one, a composite index more.                   *)
(***************************************************************************)
EXTENDS LoggedMap

CONSTANTS
    Ids,           \* ids of entities
    Names,         \* names of fields
    Values,        \* values of fields
    Listed,        \* the empty value of an index record
    Indexes,       \* the indexes that may be created
    Inputs,        \* the entities put: sequences of [name, val]
    Updates,       \* cas_update: [accept |-> the entities expected, set |-> new values]
    InitialReady,  \* the indexes that exist from the start
    MemLimit,      \* Options.memtable_limit, in records
    Calls,         \* the calls that clients make
    Faults,        \* the calls of which any step may fail
    CrashAt,       \* the steps a crash may come before: writes go by the call's name
    MaxCalls,      \* bound on calls
    MaxCrashes     \* bound on crashes

ASSUME NamesAssumption ==
    /\ IsFiniteSet(Names)
    /\ Indexes \subseteq Seq(Names) \ {<<>>}
    /\ InitialReady \subseteq Indexes
ASSUME ValuesAssumption == None \notin Values \cup {Listed} \cup Nat
ASSUME InputsAssumption ==
    /\ Inputs \subseteq Seq([name : Names, val : Values])
    /\ \A u \in Updates : /\ DOMAIN u.set \subseteq Names
                         /\ \A n \in DOMAIN u.set : u.set[n] \in Values \cup {None}
ASSUME LimitsAssumption == MemLimit \in Nat \ {0} /\ MaxCalls \in Nat /\ MaxCrashes \in Nat

VARIABLES
    base, log,     \* the engine: table files and log
    synced,        \* how much of the log an fsync has covered
    schema,        \* EntityStore::schema
    saved,         \* the file SCHEMA
    hint,          \* field_hint: {} or {the ids of the fields} of each entity
    pending,       \* the transaction's writes
    job,           \* the call under way
    pc,            \* its next step
    want,          \* history: each entity as it was last written
    was,           \* history: what a crash could leave before the call
    nCalls, nCrashes

engine == <<base, log, synced>>
history == <<want, was>>
vars == <<engine, schema, saved, hint, pending, job, pc, history, nCalls, nCrashes>>

Kv == Replayed(base, log)
View == Apply(Kv, pending)

-----------------------------------------------------------------------------
(* The schema.                                                             *)

NoSchema == [next |-> 0,
             idOf |-> [n \in Names |-> None],
             status |-> [ix \in Indexes |-> "none"]]

AllotMutant(s, ns) ==
    LET new == {n \in ToSet(ns) : s.idOf[n] = None}
    IN  [s EXCEPT !.idOf = [n \in Names |-> IF n \in new THEN s.next ELSE s.idOf[n]]]

\* Schema::field_id for each name of ns in turn: a new name gets the next id.
Allot(s, ns) ==
    LET new == {n \in ToSet(ns) : s.idOf[n] = None}
        first(n) == Min({j \in DOMAIN ns : ns[j] = n})
        before(n) == {k \in new : first(k) < first(n)}
    IN  [next |-> s.next + Cardinality(new),
         idOf |-> [n \in Names |-> IF n \in new THEN s.next + Cardinality(before(n)) ELSE s.idOf[n]],
         status |-> s.status]

FieldIds(s, ns) == {s.idOf[n] : n \in ns} \ {None}
WithStatus(s, ix, st) == [s EXCEPT !.status[ix] = st]
IndexesWith(s, st) == {ix \in Indexes : s.status[ix] = st}

\* The schema of an empty store with the indexes of S, their fields numbered in
\* any order (that of the first puts, of what has been deleted since).
SchemaWith(S) ==
    [Allot(NoSchema, SetToSeq(UNION {ToSet(ix) : ix \in S}))
        EXCEPT !.status = [ix \in Indexes |-> IF ix \in S THEN "ready" ELSE "none"]]

-----------------------------------------------------------------------------
(* Keys, and what is stored under them.                                    *)

FieldKey(e, f) == [tag |-> "E", ent |-> e, fld |-> f]
IndexKey(s, ix, vals, e) ==
    [tag |-> "I", flds |-> [i \in DOMAIN ix |-> s.idOf[ix[i]]], vals |-> vals, ent |-> e]

\* The key of the same entry under the prefix of a composite index.  Of two fields
\* or more there is no other; of one field, puts and find go by IndexKey.
NarrowKey(k) == [k EXCEPT !.tag = "C"]

\* The ids of the fields that e has in m.
StoredFields(m, e) == {k.fld : k \in {x \in DOMAIN m : x.tag = "E" /\ x.ent = e}}

\* The values in m of those fields of e whose ids are in F.
Stored(m, e, F) == [f \in StoredFields(m, e) \cap F |-> m[FieldKey(e, f)]]

\* get_entity
ReadEntity(m, s, e) ==
    [n \in Names |-> IF FieldKey(e, s.idOf[n]) \in DOMAIN m
                     THEN m[FieldKey(e, s.idOf[n])] ELSE None]
Read(m, s) == [e \in Ids |-> ReadEntity(m, s, e)]

NoEntity == [n \in Names |-> None]

\* The positions of name n in the input x: Entity::insert does not replace.
Places(x, n) == {j \in DOMAIN x : x[j].name = n}
AsEntity(x) == [n \in Names |-> IF Places(x, n) = {} THEN None ELSE x[Max(Places(x, n))].val]
NamesOf(x) == [j \in DOMAIN x |-> x[j].name]

\* An entity without repeated names, as a list of fields.
AsInput(ent) ==
    LET field(n) == [name |-> n, val |-> ent[n]]
    IN  SetToSeq({field(n) : n \in {n \in Names : ent[n] # None}})

-----------------------------------------------------------------------------
(* The writes of each call, in phases; the order within a phase is not     *)
(* determined (the iteration order of hash maps).                          *)

Puts(K) == {Write(k, Listed) : k \in K}
Deletes(K) == {Write(k, None) : k \in K}

\* The index entries of e for the field values fv (a function on field ids).
OldEntries(s, ix, fv, e) ==
    IF FieldIds(s, ToSet(ix)) \subseteq DOMAIN fv
    THEN {IndexKey(s, ix, [i \in DOMAIN ix |-> fv[s.idOf[ix[i]]]], e)} ELSE {}

\* The entries for the fields written: every value of an indexed field; of a
\* composite index the first value of each field (`written.iter().find').
NewEntries(s, ix, x, e) ==
    IF Len(ix) = 1
    THEN {IndexKey(s, ix, <<x[j].val>>, e) : j \in Places(x, ix[1])}
    ELSE IF \A i \in DOMAIN ix : Places(x, ix[i]) # {}
         THEN {IndexKey(s, ix, [i \in DOMAIN ix |-> x[Min(Places(x, ix[i]))].val], e)}
         ELSE {}

\* All entries of e in the READY indexes: for its values fv, for those of x.
EntriesFor(s, fv, e) == UNION {OldEntries(s, ix, fv, e) : ix \in IndexesWith(s, "ready")}
EntriesPut(s, x, e) == UNION {NewEntries(s, ix, x, e) : ix \in IndexesWith(s, "ready")}

\* Fields that x lacks are deleted, the others put in turn.
FieldWrites(s, fv, x, e) ==
    <<Deletes({FieldKey(e, f) : f \in DOMAIN fv \ FieldIds(s, ToSet(NamesOf(x)))})>>
    \o [j \in DOMAIN x |-> {Write(FieldKey(e, s.idOf[x[j].name]), x[j].val)}]

\* What put_entity reads of e first: without a hint h all its fields, else
\* those of the hint and those to write.
OldValues(m, s, h, x, e) ==
    Stored(m, e, IF h = {} THEN StoredFields(m, e)
                 ELSE (UNION h) \cup FieldIds(s, ToSet(NamesOf(x))))

PutFieldsFirstMutant(m, s, h, e, x) ==
    LET fv == OldValues(m, s, h, x, e)
        old == EntriesFor(s, fv, e)
        new == EntriesPut(s, x, e)
    IN  FieldWrites(s, fv, x, e) \o <<Puts(new \ old), Deletes(old \ new)>>

PutDropsSameMutant(m, s, h, e, x) ==
    LET fv == OldValues(m, s, h, x, e)
        old == EntriesFor(s, fv, e)
        new == EntriesPut(s, x, e)
    IN  <<Puts(new \ old)>> \o FieldWrites(s, fv, x, e) \o <<Deletes(old)>>

\* core_put_entity: new index entries, then the entity, then the deletion of
\* old index entries.
PutWrites(m, s, h, e, x) ==
    LET fv == OldValues(m, s, h, x, e)
        old == EntriesFor(s, fv, e)
        new == EntriesPut(s, x, e)
    IN  <<Puts(new \ old)>> \o FieldWrites(s, fv, x, e) \o <<Deletes(old \ new)>>

\* core_delete_entity: the fields, then the index entries.
DeleteWrites(m, s, e) ==
    LET fv == Stored(m, e, StoredFields(m, e))
    IN  FieldWrites(s, fv, <<>>, e) \o <<Deletes(EntriesFor(s, fv, e))>>

\* index::clear: all entries of an index.
EntriesOf(m, s, ix) ==
    {k \in DOMAIN m : k.tag = "I" /\ k.flds = [i \in DOMAIN ix |-> s.idOf[ix[i]]]}

\* The entries an index should have.
RightEntries(m, s, ix) ==
    UNION {OldEntries(s, ix, Stored(m, e, StoredFields(m, e)), e) : e \in Ids}

\* index::rebuild: clear, then an entry for every entity.
RebuildWrites(m, s, ix) ==
    <<Deletes(EntriesOf(m, s, ix)), Puts(RightEntries(m, s, ix))>>

\* index::clear_composite of an index of one field ...
NarrowEntriesOf(m, s, ix) ==
    {k \in DOMAIN m : k.tag = "C" /\ k.flds = [i \in DOMAIN ix |-> s.idOf[ix[i]]]}

\* ... and index::rebuild_composite: the entries go where puts and find do not look.
NarrowRebuildWrites(m, s, ix) ==
    <<Deletes(NarrowEntriesOf(m, s, ix)), Puts({NarrowKey(k) : k \in RightEntries(m, s, ix)})>>

\* The phase whose turn it is, and what is left to write after its write w.
Current(phases, i) == phases[i] # {} /\ \A j \in DOMAIN phases : phases[j] # {} => i <= j
Without(phases, i, w) == [phases EXCEPT ![i] = phases[i] \ {w}]
NoneLeft(phases) == \A i \in DOMAIN phases : phases[i] = {}

-----------------------------------------------------------------------------
(* Calls.                                                                  *)

NoJob == [op |-> "none",       \* the call
          ent |-> {},          \* its entity, if any
          ids |-> {},          \* the ids of the fields it writes
          ix |-> <<>>,         \* its index
          todo |-> <<>>,       \* the writes left, in phases
          after |-> "idle",    \* the step after SCHEMA is saved
          back |-> "idle"]     \* the step after the call

Called(call) ==
    /\ pc = "idle"
    /\ call \in Calls
    /\ nCalls < MaxCalls
    /\ nCalls' = nCalls + 1

InTransaction ==
    /\ pc = "tx"
    /\ nCalls < MaxCalls
    /\ nCalls' = nCalls + 1

\* What a crash could leave of the entities now.
Before == {Read(m, schema) : m \in Survivors(base, log, synced)}

\* EntityStore::put_entity
PutEntity(e, x) ==
    /\ Called("put")
    /\ schema' = Allot(schema, NamesOf(x))
    /\ job' = [NoJob EXCEPT !.op = "put", !.ent = {e},
                            !.ids = FieldIds(schema', ToSet(NamesOf(x))),
                            !.todo = PutWrites(Kv, schema', hint[e], e, x)]
    /\ want' = [want EXCEPT ![e] = AsEntity(x)]
    /\ pc' = "write"
    /\ UNCHANGED <<engine, saved, hint, pending, was, nCrashes>>

\* apply_patch on what get_entity returns, if that is as expected.
Patched(m, s, e, u) ==
    [n \in Names |-> IF n \in DOMAIN u.set THEN u.set[n] ELSE ReadEntity(m, s, e)[n]]
Expects(m, s, e, u) == ReadEntity(m, s, e) \in u.accept

\* EntityStore::cas_update: put_entity of the patched entity.
CasUpdate(e, u) ==
    /\ Called("cas")
    /\ Expects(Kv, schema, e, u)
    /\ LET x == AsInput(Patched(Kv, schema, e, u)) IN
        /\ schema' = Allot(schema, NamesOf(x))
        /\ job' = [NoJob EXCEPT !.op = "cas", !.ent = {e},
                                !.ids = FieldIds(schema', ToSet(NamesOf(x))),
                                !.todo = PutWrites(Kv, schema', hint[e], e, x)]
    /\ want' = [want EXCEPT ![e] = Patched(Kv, schema, e, u)]
    /\ was' = Before
    /\ pc' = "write"
    /\ UNCHANGED <<engine, saved, hint, pending, nCrashes>>

\* EntityStore::delete_entity
DeleteEntity(e) ==
    /\ Called("delete")
    /\ job' = [NoJob EXCEPT !.op = "delete", !.ent = {e},
                            !.todo = DeleteWrites(Kv, schema, e)]
    /\ want' = [want EXCEPT ![e] = NoEntity]
    /\ pc' = "write"
    /\ UNCHANGED <<engine, schema, saved, hint, pending, was, nCrashes>>

RegisteredMutant(s, ix) == WithStatus(Allot(s, ix), ix, "ready")

\* Schema::create_index: the index is BUILDING, unless there is one.
Registered(s, ix) ==
    LET t == Allot(s, ix)
    IN  IF t.status[ix] = "none" THEN WithStatus(t, ix, "building") ELSE t

\* create_index saves SCHEMA, rebuilds the index, and then goes on to step `to'.
StartCreate(ix, to) ==
    /\ schema' = Registered(schema, ix)
    /\ job' = [NoJob EXCEPT !.op = "create", !.ix = ix, !.after = "write", !.back = to,
                            !.todo = RebuildWrites(Kv, schema', ix)]
    /\ pc' = "persist"

\* EntityStore::create_index, and create_composite_index of two fields or more
CreateIndex(ix) ==
    /\ Called(IF schema.status[ix] = "none" THEN "create" ELSE "recreate")
    /\ StartCreate(ix, "idle")
    /\ UNCHANGED <<engine, saved, hint, pending, history, nCrashes>>

\* EntityStore::create_composite_index of one field: what it registers is the
\* single-field index, what it builds is not.
NarrowCreateIndex(ix) ==
    /\ Called(IF schema.status[ix] = "none" THEN "narrow_create" ELSE "narrow_recreate")
    /\ Len(ix) = 1
    /\ schema' = Registered(schema, ix)
    /\ job' = [NoJob EXCEPT !.op = "narrow_create", !.ix = ix, !.after = "write",
                            !.todo = NarrowRebuildWrites(Kv, schema', ix)]
    /\ pc' = "persist"
    /\ UNCHANGED <<engine, saved, hint, pending, history, nCrashes>>

\* EntityStore::drop_index, and drop_composite_index of two fields or more
DropIndex(ix) ==
    /\ Called("drop")
    /\ schema.status[ix] # "none"
    /\ job' = [NoJob EXCEPT !.op = "drop", !.ix = ix,
                            !.todo = <<Deletes(EntriesOf(Kv, schema, ix))>>]
    /\ pc' = "write"
    /\ UNCHANGED <<engine, schema, saved, hint, pending, history, nCrashes>>

\* EntityStore::drop_composite_index of one field
NarrowDropIndex(ix) ==
    /\ Called("narrow_drop")
    /\ Len(ix) = 1
    /\ schema.status[ix] # "none"
    /\ job' = [NoJob EXCEPT !.op = "narrow_drop", !.ix = ix,
                            !.todo = <<Deletes(NarrowEntriesOf(Kv, schema, ix))>>]
    /\ pc' = "write"
    /\ UNCHANGED <<engine, schema, saved, hint, pending, history, nCrashes>>

\* EntityStore::flush
Flush ==
    /\ Called("flush")
    /\ log # <<>>
    /\ job' = [NoJob EXCEPT !.op = "flush"]
    /\ pc' = "save"
    /\ UNCHANGED <<engine, schema, saved, hint, pending, history, nCrashes>>

\* EntityStore::close
Close ==
    /\ Called("close")
    /\ job' = [NoJob EXCEPT !.op = "close", !.after = "save", !.back = "down"]
    /\ pc' = IF schema # saved THEN "persist" ELSE "save"
    /\ UNCHANGED <<engine, schema, saved, hint, pending, history, nCrashes>>

-----------------------------------------------------------------------------
(* The steps of a call.                                                    *)

\* A call that fails returns there and then; close and open_with drop the store.
\* Of the entities nothing is promised but what is read.
CallFails(step) ==
    /\ pc = step
    /\ job.op \in Faults
    /\ ~(job.op = "commit" /\ step = "persist")
    /\ pc' = IF job.op = "close" \/ job.back = "recover" THEN "down" ELSE "idle"
    /\ want' = Read(Kv, schema)
    /\ job' = NoJob
    /\ pending' = {}
    /\ UNCHANGED <<engine, schema, saved, hint, was, nCalls, nCrashes>>

Full(l) == Cardinality(KeysOfLog(l)) >= MemLimit

\* Database::put, delete: the next write, and a flush if the memtable is full.
WriteOne ==
    /\ pc = "write"
    /\ \E i \in DOMAIN job.todo :
        /\ Current(job.todo, i)
        /\ \E w \in job.todo[i] :
            /\ log' = Append(log, {w})
            /\ job' = [job EXCEPT !.todo = Without(job.todo, i, w)]
    /\ pc' = IF Full(log') THEN "save" ELSE "write"
    /\ UNCHANGED <<base, synced, schema, saved, hint, pending, history, nCalls, nCrashes>>

\* The calls that write record by record.
Writers == {"put", "cas", "delete", "create", "drop", "narrow_create", "narrow_drop"}

WriteFails == ~NoneLeft(job.todo) /\ CallFails("write")

TruncateMutant ==
    /\ pc = "truncate"
    /\ log' = <<>>
    /\ pc' = IF job.op \in Writers THEN "write" ELSE job.back
    /\ UNCHANGED <<base, synced, schema, saved, hint, pending, job, history, nCalls, nCrashes>>

\* Database::flush: the memtable becomes a table that MANIFEST names ...
SaveTables ==
    /\ pc = "save"
    /\ base' = Kv
    /\ pc' = "truncate"
    /\ UNCHANGED <<log, synced, schema, saved, hint, pending, job, history, nCalls, nCrashes>>

\* ... and the log is emptied.
Truncate ==
    /\ pc = "truncate"
    /\ log' = <<>>
    /\ synced' = 0
    /\ pc' = IF job.op \in Writers THEN "write" ELSE job.back
    /\ UNCHANGED <<base, schema, saved, hint, pending, job, history, nCalls, nCrashes>>

Finish(next, after) ==
    /\ pc = "write"
    /\ NoneLeft(job.todo)
    /\ job' = [job EXCEPT !.todo = <<>>, !.after = after]
    /\ pc' = next

PutDoneMutant ==
    /\ job.op \in {"put", "cas"}
    /\ Finish("idle", "idle")
    /\ \E e \in job.ent : hint' = [hint EXCEPT ![e] = {job.ids}]
    /\ UNCHANGED <<engine, schema, saved, pending, history, nCalls, nCrashes>>

\* The hint is what was written; SCHEMA is saved if ids were given out.
PutDone ==
    /\ job.op \in {"put", "cas"}
    /\ Finish(IF schema # saved THEN "persist" ELSE "idle", "idle")
    /\ \E e \in job.ent : hint' = [hint EXCEPT ![e] = {job.ids}]
    /\ UNCHANGED <<engine, schema, saved, pending, history, nCalls, nCrashes>>

DeleteDone ==
    /\ job.op = "delete"
    /\ Finish("idle", "idle")
    /\ \E e \in job.ent : hint' = [hint EXCEPT ![e] = {}]
    /\ UNCHANGED <<engine, schema, saved, pending, history, nCalls, nCrashes>>

\* The index is READY, or gone, once SCHEMA says so.
IndexDone ==
    /\ job.op \in {"create", "drop", "narrow_create", "narrow_drop"}
    /\ Finish("persist", job.back)
    /\ schema' = WithStatus(schema, job.ix,
                            IF job.op \in {"create", "narrow_create"} THEN "ready" ELSE "none")
    /\ UNCHANGED <<engine, saved, hint, pending, history, nCalls, nCrashes>>

\* persist_schema, Schema::save
Persist ==
    /\ pc = "persist"
    /\ saved' = schema
    /\ pc' = job.after
    /\ UNCHANGED <<engine, schema, hint, pending, job, history, nCalls, nCrashes>>

MayCrash == (IF pc = "write" THEN job.op ELSE pc) \in CrashAt

-----------------------------------------------------------------------------
(* Transactions: the store is theirs until they end.                       *)

\* The pending writes after those of all phases.
Pended(phases) == LastWrites(<<pending>> \o phases)

\* EntityStore::transaction
Begin ==
    /\ Called("transaction")
    /\ job' = NoJob
    /\ pc' = "tx"
    /\ UNCHANGED <<engine, schema, saved, hint, pending, history, nCrashes>>

\* Transaction::update: as put_entity, on the overlay and without the hint.
TxUpdate(e, x) ==
    /\ InTransaction
    /\ schema' = Allot(schema, NamesOf(x))
    /\ pending' = Pended(PutWrites(View, schema', {}, e, x))
    /\ want' = [want EXCEPT ![e] = AsEntity(x)]
    /\ UNCHANGED <<engine, saved, hint, job, pc, was, nCrashes>>

\* Transaction::cas_update
TxCasUpdate(e, u) ==
    /\ InTransaction
    /\ Expects(View, schema, e, u)
    /\ LET x == AsInput(Patched(View, schema, e, u)) IN
        /\ schema' = Allot(schema, NamesOf(x))
        /\ pending' = Pended(PutWrites(View, schema', {}, e, x))
    /\ want' = [want EXCEPT ![e] = Patched(View, schema, e, u)]
    /\ UNCHANGED <<engine, saved, hint, job, pc, was, nCrashes>>

\* Transaction::delete
TxDelete(e) ==
    /\ InTransaction
    /\ pending' = Pended(DeleteWrites(View, schema, e))
    /\ want' = [want EXCEPT ![e] = NoEntity]
    /\ UNCHANGED <<engine, schema, saved, hint, job, pc, was, nCrashes>>

\* Transaction::abort, or drop
Abort ==
    /\ pc = "tx"
    /\ pending' = {}
    /\ want' = Read(Kv, schema)
    /\ pc' = "idle"
    /\ UNCHANGED <<engine, schema, saved, hint, job, was, nCalls, nCrashes>>

\* Transaction::commit saves SCHEMA first ...
StartCommit ==
    /\ pc = "tx"
    /\ job' = [NoJob EXCEPT !.op = "commit", !.after = "block"]
    /\ was' = Before
    /\ pc' = IF schema # saved THEN "persist" ELSE "block"
    /\ UNCHANGED <<engine, schema, saved, hint, pending, want, nCalls, nCrashes>>

\* If that fails, the transaction is still active.
CommitFails ==
    /\ pc = "persist"
    /\ job.op = "commit"
    /\ "commit" \in Faults
    /\ job' = NoJob
    /\ pc' = "tx"
    /\ UNCHANGED <<engine, schema, saved, hint, pending, history, nCalls, nCrashes>>

LogBlockMutant ==
    /\ pc = "block"
    /\ log' = log \o SetToSeq({{w} : w \in pending})
    /\ pc' = "sync"
    /\ UNCHANGED <<base, synced, schema, saved, hint, pending, job, history, nCalls, nCrashes>>

\* ... then logs its writes as one block ...
LogBlock ==
    /\ pc = "block"
    /\ log' = Append(log, pending)
    /\ pc' = "sync"
    /\ UNCHANGED <<base, synced, schema, saved, hint, pending, job, history, nCalls, nCrashes>>

\* The entities that the transaction has written.
Touched == {e \in Ids : \E w \in pending : w.key.tag = "E" /\ w.key.ent = e}

SyncMutant ==
    /\ pc = "sync"
    /\ synced' = Len(log)
    /\ pending' = {}
    /\ pc' = IF Full(log) THEN "save" ELSE "idle"
    /\ UNCHANGED <<base, log, schema, saved, hint, job, history, nCalls, nCrashes>>

\* ... and, once they are durable, forgets the hints for what it wrote.
Sync ==
    /\ pc = "sync"
    /\ synced' = Len(log)
    /\ hint' = [e \in Ids |-> IF e \in Touched THEN {} ELSE hint[e]]
    /\ pending' = {}
    /\ pc' = IF Full(log) THEN "save" ELSE "idle"
    /\ UNCHANGED <<base, log, schema, saved, job, history, nCalls, nCrashes>>

-----------------------------------------------------------------------------
(* Crashes and opening.                                                    *)

\* The process or the machine stops: a prefix of the log is left.
Crash ==
    /\ MayCrash
    /\ nCrashes < MaxCrashes
    /\ nCrashes' = nCrashes + 1
    /\ \E n \in synced .. Len(log) : log' = SubSeq(log, 1, n)
    /\ pending' = {}
    /\ pc' = "down"
    /\ UNCHANGED <<base, synced, schema, saved, hint, job, history, nCalls>>

\* EntityStore::open_with
Open ==
    /\ pc = "down"
    /\ schema' = saved
    /\ hint' = [e \in Ids |-> {}]
    /\ want' = Read(Kv, saved)
    /\ was' = {}
    /\ job' = NoJob
    /\ pc' = "recover"
    /\ UNCHANGED <<engine, saved, pending, nCalls, nCrashes>>

\* recover_indexes: an index that was being built is built again.
RecoverIndex(ix) ==
    /\ pc = "recover"
    /\ schema.status[ix] = "building"
    /\ StartCreate(ix, "recover")
    /\ UNCHANGED <<engine, saved, hint, pending, history, nCalls, nCrashes>>

Recovered ==
    /\ pc = "recover"
    /\ IndexesWith(schema, "building") = {}
    /\ job' = NoJob
    /\ pc' = "idle"
    /\ UNCHANGED <<engine, schema, saved, hint, pending, history, nCalls, nCrashes>>

-----------------------------------------------------------------------------
Init ==
    /\ base = <<>>
    /\ log = <<>>
    /\ synced = 0
    /\ schema = SchemaWith(InitialReady)
    /\ saved = schema
    /\ hint = [e \in Ids |-> {}]
    /\ pending = {}
    /\ job = NoJob
    /\ pc = "idle"
    /\ want = [e \in Ids |-> NoEntity]
    /\ was = {}
    /\ nCalls = 0
    /\ nCrashes = 0

Next ==
    \/ \E e \in Ids, x \in Inputs : PutEntity(e, x) \/ TxUpdate(e, x)
    \/ \E e \in Ids, u \in Updates : CasUpdate(e, u) \/ TxCasUpdate(e, u)
    \/ \E e \in Ids : DeleteEntity(e) \/ TxDelete(e)
    \/ \E ix \in Indexes : CreateIndex(ix) \/ DropIndex(ix) \/ RecoverIndex(ix)
    \/ \E ix \in Indexes : NarrowCreateIndex(ix) \/ NarrowDropIndex(ix)
    \/ Flush \/ Close
    \/ WriteOne \/ WriteFails
    \/ SaveTables \/ CallFails("save")
    \/ Truncate \/ CallFails("truncate")
    \/ Persist \/ CallFails("persist") \/ CommitFails
    \/ PutDone \/ DeleteDone \/ IndexDone
    \/ Begin \/ Abort \/ StartCommit \/ LogBlock \/ Sync
    \/ Crash \/ Open \/ Recovered

Spec == Init /\ [][Next]_vars

-----------------------------------------------------------------------------
(* Properties.                                                             *)

Field == Nat \cup {None}
MapOfKeys(m) == \A k \in DOMAIN m : m[k] \in Values \cup {Listed}

\* Type invariant.
TypeOK ==
    /\ MapOfKeys(base)
    /\ synced \in 0 .. Len(log)
    /\ \A s \in {schema, saved} :
        /\ s.next \in Nat
        /\ s.idOf \in [Names -> Field]
        /\ s.status \in [Indexes -> {"none", "building", "ready"}]
    /\ hint \in [Ids -> SUBSET SUBSET Nat]
    /\ want \in [Ids -> [Names -> Values \cup {None}]]
    /\ pc \in {"idle", "tx", "write", "save", "truncate", "persist", "block", "sync",
               "recover", "down"}

\* Whatever the hint says, whatever was committed, aborted, dropped or reopened
\* in between: an entity reads back as it was last written, in a transaction as
\* the transaction last wrote it (core_put_entity, `nie Wahrheitsquelle').
ReadsBack == pc \in {"idle", "tx"} => Read(View, schema) = want

\* The index of s lists every entity of m that it should.
Complete(m, s, ix) == RightEntries(m, s, ix) \subseteq DOMAIN m

\* find asks only whether there is such an index, find_composite also whether
\* it is READY.
Usable(ix) == schema.status[ix] = "ready" \/ (Len(ix) = 1 /\ schema.status[ix] # "none")

\* No index that find accepts misses an entity (index.rs: an index has false
\* positives but no false negatives), in a transaction its own writes included.
FindsAll ==
    pc \in {"idle", "tx"} => \A ix \in Indexes : Usable(ix) => Complete(View, schema, ix)

\* What a crash may leave now.
AfterCrash == IF MayCrash THEN Survivors(base, log, synced) ELSE {}

\* The same of what a crash at this instant leaves: an index that SCHEMA calls
\* READY, and that open does not rebuild, lists every entity.
ReadyIndexSurvives ==
    \A m \in AfterCrash :
        \A ix \in IndexesWith(saved, "ready") : Complete(m, saved, ix)

\* Every stored field has a name in SCHEMA after a crash at this instant
\* (schema.rs: the meaning of a stored key stays the same between two starts).
StoredIdsKnown ==
    \A m \in AfterCrash :
        \A e \in Ids : StoredFields(m, e) \subseteq FieldIds(saved, Names)

\* A crash in the call leaves what it could have left before, or all of it.
Atomic(op) ==
    pc # "down" /\ pc' = "down" /\ job.op = op
    => Read(Kv', schema) \in was \cup {want}

\* So it is with commit, and all of it once the block is synced (`COMMIT POINT').
CommitAtomic ==
    [][/\ Atomic("commit")
       /\ pc \in {"save", "truncate"} /\ pc' = "down" /\ job.op = "commit"
          => Read(Kv', schema) = want]_vars

\* A crash in cas_update leaves the entity as before or as after (`atomar via
\* eines WAL-Transaction-Blocks').
CasAtomic == [][Atomic("cas")]_vars
=============================================================================

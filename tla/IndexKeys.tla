------------------------------ MODULE IndexKeys ------------------------------
(***************************************************************************)
(* The byte keys under which an engine holds the records of entities and   *)
(* the entries of their indexes (core_put_entity and core_delete_entity of *)
(* src/entity.rs, src/index.rs, over src/keycodec.rs): what each operation *)
(* puts and deletes, and what a scan of a range finds.  EntityStore models *)
(* the steps of these operations and their failures; here each is one step *)
(* and the keys are bytes.                                                 *)
(* `records' says what the store should hold; no operation reads it.       *)
(***************************************************************************)
EXTENDS KeyCodec

CONSTANTS
    Collections, EntityIds, FieldIds,
    Contents,       \* what is put: [collection, fields], where fields is a
                    \* function from field ids to values
    Indexes,        \* [id, collection, fields]; of one field, or composite
    NarrowIndexes,  \* those of one field that are created and dropped with the
                    \* calls for composite indexes too
    Bounds,         \* the bounds that are searched for
    MaxPuts         \* bound on the puts

ASSUME IndexKeysAssumption ==
    /\ EntityIds \subseteq ByteString
    /\ FieldIds \subseteq 0 .. Base * Base - 2
    /\ \A ix \in Indexes : ix.fields # <<>>
    /\ NarrowIndexes \subseteq {ix \in Indexes : Len(ix.fields) = 1}

VARIABLES
    db,         \* a function from keys to the values they hold
    records,    \* the fields of each entity; none if it is not there
    ready,      \* the indexes that are kept up
    narrow,     \* those of one field that create_composite_index has made
    blurred,    \* the entities put with a value that == and the codec disagree on
    puts,       \* the number of puts
    search      \* the last search: [index, leading, keys]

indexes == <<ready, narrow>>
vars == <<db, records, indexes, blurred, puts, search>>

NoSearch == [index |-> [id |-> 0, collection |-> 0, fields |-> <<>>],
             leading |-> <<>>, keys |-> <<>>]

Composite(ix) == Len(ix.fields) > 1

\* What the engine yields of a range, in the order of keys.
Scan(range) ==
    SortSeq(FoldSet(LAMBDA k, s : Append(s, k), <<>>, {k \in DOMAIN db : InRange(k, range)}),
            Before)

-----------------------------------------------------------------------------
(* Bounds: [kind, value].                                                  *)

Unbounded == [kind |-> "unbounded", value |-> Numeric("null", 0)]

AboveLower(v, b) ==
    CASE b.kind = "unbounded" -> TRUE
      [] b.kind = "inclusive" -> ~Less(v, b.value)
      [] b.kind = "exclusive" -> Less(b.value, v)

BelowUpper(v, b) ==
    CASE b.kind = "unbounded" -> TRUE
      [] b.kind = "inclusive" -> ~Less(b.value, v)
      [] b.kind = "exclusive" -> Less(v, b.value)

\* within
InBounds(v, r) == AboveLower(v, r.lower) /\ BelowUpper(v, r.upper)

IndexRangeMutant(prefix, r) ==
    LET at(b) == prefix \o EncodeOrdered(b.value)
    IN  [start |-> CASE r.lower.kind = "unbounded" -> prefix
                     [] r.lower.kind = "inclusive" -> at(r.lower)
                     [] r.lower.kind = "exclusive" -> Successor(at(r.lower)),
         end |-> CASE r.upper.kind = "unbounded" -> Successor(prefix)
                   [] r.upper.kind \in {"exclusive", "inclusive"} -> at(r.upper)]

\* index_range, and the last step of composite_index_range, behind a prefix.
IndexRange(prefix, r) ==
    LET at(b) == prefix \o EncodeOrdered(b.value)
    IN  [start |-> CASE r.lower.kind = "unbounded" -> prefix
                     [] r.lower.kind = "inclusive" -> at(r.lower)
                     [] r.lower.kind = "exclusive" -> Successor(at(r.lower)),
         end |-> CASE r.upper.kind = "unbounded" -> Successor(prefix)
                   [] r.upper.kind = "exclusive" -> at(r.upper)
                   [] r.upper.kind = "inclusive" -> Successor(at(r.upper))]

\* composite_index_range: all bounds but the last are equalities; if one is not
\* bound from below by an inclusive bound, the whole index is scanned.
CompositeRange(prefix, leading) ==
    LET last == Len(leading)
        enc == [n \in 1 .. last - 1 |-> EncodeOrdered(leading[n].lower.value)]
    IN  IF \E n \in 1 .. last - 1 : leading[n].lower.kind # "inclusive"
        THEN PrefixRange(prefix)
        ELSE IndexRange(prefix \o FlattenSeq(enc), leading[last])

PrefixOf(ix) == IF Composite(ix) THEN CompositePrefix(ix.collection, ix.id)
                ELSE FieldPrefix(ix.collection, ix.fields[1])

RangeOf(ix, leading) ==
    IF Composite(ix) THEN CompositeRange(PrefixOf(ix), leading)
    ELSE IndexRange(PrefixOf(ix), leading[1])

-----------------------------------------------------------------------------
(* Reading keys.                                                           *)

\* The values at the start of a string of n encoded values, and the rest.
Values(s, n) ==
    FoldLeft(LAMBDA st, i :
                LET len == OrderedLen(st.rest)
                IN  [vals |-> Append(st.vals, DecodeOrdered(SubSeq(st.rest, 1, len))),
                     rest |-> SubSeq(st.rest, len + 1, Len(st.rest))],
             [vals |-> <<>>, rest |-> s], [i \in 1 .. n |-> i])

\* decode_index_key_value and decode_composite_key_value
DecodeIndexKey(ix, key) ==
    LET head == Len(PrefixOf(ix))
        got == Values(SubSeq(key, head + 1, Len(key)), Len(ix.fields))
    IN  [index |-> ix, values |-> got.vals,
         id |-> SubSeq(got.rest, 3, 2 + FromLittle(SubSeq(got.rest, 1, 2)))]

FieldsOfMutant(c, e) ==
    LET keys == {k \in DOMAIN db : InRange(k, [start |-> EntityPrefix(c, e),
                                              end |-> Successor(CollectionPrefix(c))])}
        fields == {DecodeEntityKey(k).field : k \in keys}
    IN  [f \in fields |-> Decode(db[CHOOSE k \in keys : DecodeEntityKey(k).field = f])]

\* core_get_entity: the fields of an entity, read from its records.
FieldsOf(c, e) ==
    LET keys == {k \in DOMAIN db : InRange(k, PrefixRange(EntityPrefix(c, e)))}
        fields == {DecodeEntityKey(k).field : k \in keys}
    IN  [f \in fields |-> Decode(db[CHOOSE k \in keys : DecodeEntityKey(k).field = f])]

-----------------------------------------------------------------------------
(* Operations.                                                             *)

\* A behaviour ends with its search.
Open == search = NoSearch

Without(keys) == [k \in DOMAIN db \ keys |-> db[k]]

Within(range) == {k \in DOMAIN db : InRange(k, range)}

\* The key that rebuild_composite gives an entity in an index, of one field too;
\* none if the entity lacks a field.
CompositeKeysFor(ix, fields, e) ==
    IF Range(ix.fields) \subseteq DOMAIN fields
    THEN {CompositeKey(ix.collection, ix.id,
                       [n \in DOMAIN ix.fields |-> EncodeOrdered(fields[ix.fields[n]])], e)}
    ELSE {}

\* The key of an entity in an index, as puts and deletes and rebuild take it.
KeysFor(ix, fields, e) ==
    LET f == ix.fields[1]
    IN  IF Composite(ix) THEN CompositeKeysFor(ix, fields, e)
        ELSE IF f \in DOMAIN fields THEN {IndexKey(ix.collection, f, EncodeOrdered(fields[f]), e)}
        ELSE {}

\* Whether old and new fields give the same values for an index.
Unchanged(ix, old, new) ==
    \A f \in Range(ix.fields) :
        /\ f \in DOMAIN old <=> f \in DOMAIN new
        /\ f \in DOMAIN old => Same(old[f], new[f])

\* The entries of an entity in the indexes that the new fields change.
Changed(c, e, old, new, fields) ==
    UNION {KeysFor(ix, fields, e) :
        ix \in {i \in ready : i.collection = c /\ ~Unchanged(i, old, new)}}

\* core_put_entity: new entries are put, then the fields, then the old entries
\* are deleted.
PutEntity(c, e, fields) ==
    LET old == FieldsOf(c, e)
        keys == {EntityKey(c, e, f) : f \in DOMAIN fields}
        entries == Changed(c, e, old, fields, fields)
        stale == Changed(c, e, old, fields, old)
        gone == {EntityKey(c, e, f) : f \in DOMAIN old \ DOMAIN fields}
        disagree == \E f \in DOMAIN old \cap DOMAIN fields :
                        ~(Same(old[f], fields[f]) <=>
                          EncodeOrdered(old[f]) = EncodeOrdered(fields[f]))
    IN  /\ Open
        /\ puts < MaxPuts
        /\ puts' = puts + 1
        /\ db' = [k \in ((DOMAIN db \ gone) \cup entries \cup keys) \ stale |->
                    IF k \in keys THEN Encode(fields[DecodeEntityKey(k).field])
                    ELSE IF k \in entries THEN <<>> ELSE db[k]]
        /\ records' = [records EXCEPT ![c, e] = fields]
        /\ blurred' = IF disagree THEN blurred \cup {<<c, e>>} ELSE blurred
        /\ UNCHANGED <<indexes, search>>

\* core_delete_entity: the records, then the entries.
DeleteEntity(c, e) ==
    LET old == FieldsOf(c, e)
    IN  /\ Open
        /\ db' = Without(Within(PrefixRange(EntityPrefix(c, e))) \cup
                         UNION {KeysFor(ix, old, e) : ix \in {i \in ready : i.collection = c}})
        /\ records' = [records EXCEPT ![c, e] = <<>>]
        /\ UNCHANGED <<indexes, blurred, puts, search>>

\* rebuild and rebuild_composite: what is behind the prefix is cleared, and the
\* entries of the entities of the collection are put.
IdsOf(c) == {DecodeEntityKey(k).id : k \in Within(PrefixRange(CollectionPrefix(c)))}

Rebuilt(prefix, entries) ==
    [k \in (DOMAIN db \ Within(PrefixRange(prefix))) \cup entries |->
        IF k \in entries THEN <<>> ELSE db[k]]

\* create_index, and create_composite_index of two fields or more; an index that
\* is READY is built again.
CreateIndex(ix) ==
    /\ Open
    /\ db' = Rebuilt(PrefixOf(ix),
                     UNION {KeysFor(ix, FieldsOf(ix.collection, e), e) : e \in IdsOf(ix.collection)})
    /\ ready' = ready \cup {ix}
    /\ narrow' = narrow \ {ix}
    /\ UNCHANGED <<records, blurred, puts, search>>

\* create_composite_index of one field: the index that puts and find_m take for a
\* single-field index gets its entries behind the prefix of a composite one.
NarrowCreateIndex(ix) ==
    /\ Open
    /\ db' = Rebuilt(CompositePrefix(ix.collection, ix.id),
                     UNION {CompositeKeysFor(ix, FieldsOf(ix.collection, e), e) :
                              e \in IdsOf(ix.collection)})
    /\ ready' = ready \cup {ix}
    /\ narrow' = IF ix \in ready THEN narrow ELSE narrow \cup {ix}
    /\ UNCHANGED <<records, blurred, puts, search>>

\* What both calls that drop an index have in common.
Drop(ix, prefix) ==
    /\ Open
    /\ ix \in ready
    /\ db' = Without(Within(PrefixRange(prefix)))
    /\ ready' = ready \ {ix}
    /\ narrow' = narrow \ {ix}
    /\ UNCHANGED <<records, blurred, puts, search>>

\* drop_index, and drop_composite_index of two fields or more
DropIndex(ix) == Drop(ix, PrefixOf(ix))

\* drop_composite_index of one field: the entries of the puts stay.
NarrowDropIndex(ix) == Drop(ix, CompositePrefix(ix.collection, ix.id))

\* The scan of find_m and find_composite_m; that the candidates are checked
\* against the entities is part of QueryExecutor.
Find(ix, leading) ==
    /\ Open
    /\ ix \in ready
    /\ search' = [index |-> ix, leading |-> leading, keys |-> Scan(RangeOf(ix, leading))]
    /\ UNCHANGED <<db, records, indexes, blurred, puts>>

-----------------------------------------------------------------------------
Init ==
    /\ db = <<>>
    /\ records = [c \in Collections, e \in EntityIds |-> <<>>]
    /\ ready = {}
    /\ narrow = {}
    /\ blurred = {}
    /\ puts = 0
    /\ search = NoSearch

Equality(b) == [lower |-> b, upper |-> b]

\* An equality, or one bound.
OneRange ==
    {Equality(b) : b \in {x \in Bounds : x.kind = "inclusive"}}
    \cup {[lower |-> b, upper |-> Unbounded] : b \in Bounds \cup {Unbounded}}
    \cup {[lower |-> Unbounded, upper |-> b] : b \in Bounds}

\* The planner's leading bounds: equalities and then any range.
Leadings(ix) ==
    {<<r>> : r \in OneRange}
    \cup (IF ~Composite(ix) THEN {}
          ELSE {<<Equality(b), r>> : b \in {x \in Bounds : x.kind = "inclusive"}, r \in OneRange})

Next ==
    \/ \E x \in Contents, e \in EntityIds : PutEntity(x.collection, e, x.fields)
    \/ \E c \in Collections, e \in EntityIds : DeleteEntity(c, e)
    \/ \E ix \in Indexes : CreateIndex(ix) \/ DropIndex(ix)
    \/ \E ix \in NarrowIndexes : NarrowCreateIndex(ix) \/ NarrowDropIndex(ix)
    \/ \E ix \in Indexes : \E leading \in Leadings(ix) : Find(ix, leading)

Spec == Init /\ [][Next]_vars

-----------------------------------------------------------------------------
(* Properties.                                                             *)

Found == {DecodeIndexKey(search.index, search.keys[n]) : n \in DOMAIN search.keys}

\* All NaNs are encoded as one.
Canonical(v) == IF v.t = "float" /\ IsNaN(v.n) THEN [v EXCEPT !.n = Infinity + 1] ELSE v

\* What the searched index should list of an entity, and in the range.
Asked(e) ==
    LET ix == search.index
        fields == records[ix.collection, e]
        values == [n \in DOMAIN ix.fields |-> fields[ix.fields[n]]]
    IN  IF /\ Range(ix.fields) \subseteq DOMAIN fields
           /\ \A n \in DOMAIN search.leading : InBounds(values[n], search.leading[n])
        THEN {[index |-> ix, id |-> e, values |-> [n \in DOMAIN values |-> Canonical(values[n])]]}
        ELSE {}

\* Of an index that create_composite_index has made of one field nothing is said:
\* it misses the entities that were there.
Searched == search # NoSearch /\ search.index \notin narrow

\* A search of an index scans exactly the entries of the entities whose values
\* lie in its range, and each key says which entry it is: whatever was put and
\* deleted before, none is missing, none is left behind, none belongs to another
\* index.  Left out are the entities whose value was replaced by one that ==
\* takes for the same but the codec does not, or the other way round.
ScansWhatIsAsked ==
    Searched =>
        \A e \in EntityIds : <<search.index.collection, e>> \notin blurred =>
            {x \in Found : x.id = e} = Asked(e)

\* Without the last exception: no entity is missed (index.rs: never a false
\* negative).
NoFalseNegatives == Searched => \A e \in EntityIds : Asked(e) \subseteq Found

\* Entries come in the order of their values (encode_ordered).
ValuesInOrder ==
    LET row(n) == DecodeIndexKey(search.index, search.keys[n]).values
        comes(v, w) == \E n \in DOMAIN v : /\ \A m \in 1 .. n - 1 : v[m] = w[m]
                                          /\ Less(v[n], w[n])
    IN  \A n, m \in DOMAIN search.keys : n < m => row(n) = row(m) \/ comes(row(n), row(m))

\* The records of an entity are read back from their bytes, and belong to it
\* only: neither another entity, nor the entries of an index, nor dropping one
\* shows in them (entity_range, decode_entity_key, clear).
ReadsOwnRecords ==
    \A c \in Collections, e \in EntityIds : FieldsOf(c, e) = records[c, e]
=============================================================================

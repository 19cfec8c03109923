---------------------------- MODULE QueryExecutor ----------------------------
(***************************************************************************)
(* The executor (src/query/executor.rs) over the records of a collection   *)
(* and the index scans it makes (src/index.rs).  A database is a record of *)
(*   known     whether the collection exists,                              *)
(*   entities  a function from the ids of the entities to the entities,    *)
(*   stale     index entries that no entity has any more: [index, values,  *)
(*             id],                                                        *)
(*   damaged   the fields that cannot be decoded: <<id, field>>.           *)
(* A stream is a sequence of rows, some of which may be read errors; an    *)
(* operator that returns an error instead of a stream returns Failed.      *)
(***************************************************************************)
EXTENDS QueryPlanner

CONSTANT MaxInt    \* the largest i64

ASSUME MaxIntAssumption == MaxInt \in Nat

Row(id, e) == [id |-> id, entity |-> e]
ReadError == [id |-> 0, entity |-> <<>>]

Stream(rows) == [ok |-> TRUE, rows |-> rows]
Failed == [ok |-> FALSE, rows |-> <<>>]

NoErrors(rows) == \A i \in DOMAIN rows : rows[i] # ReadError

\* collect::<Result<Vec<_>>>()
Collected(stream) == IF stream.ok /\ NoErrors(stream.rows) THEN stream ELSE Failed

Ids(db) == DOMAIN db.entities

\* The elements of a set in an order.
InOrder(S, Less(_, _)) == SortSeq(FoldSet(LAMBDA x, s : Append(s, x), <<>>, S), Less)

\* The rows of a sequence without those whose id came before.
FirstPerId(rows) ==
    FoldLeft(LAMBDA out, r : IF \E i \in DOMAIN out : out[i].id = r.id
                             THEN out ELSE Append(out, r), <<>>, rows)

-----------------------------------------------------------------------------
(* FullScan.                                                               *)

\* The keys of the records of the collection, in order.
EntityKeys(db) ==
    InOrder(UNION {{<<id, f>> : f \in DOMAIN db.entities[id]} : id \in Ids(db)},
            LAMBDA k, l : k[1] < l[1] \/ (k[1] = l[1] /\ k[2] < l[2]))

\* Entity::insert of a field that the entity does not have yet.
WithField(e, f, v) == [g \in DOMAIN e \cup {f} |-> IF g = f THEN v ELSE e[g]]

\* ScanAssembler::next, one record of the scan: the fields of an entity are put
\* together, a field that cannot be decoded is an error of its own.
Assemble(db, state, key) ==
    LET id == key[1]
        f == key[2]
    IN  IF key \in db.damaged THEN [state EXCEPT !.out = Append(@, ReadError)]
        ELSE IF state.current.id = id
        THEN [state EXCEPT !.current.entity = WithField(@, f, db.entities[id][f])]
        ELSE [current |-> Row(id, WithField(<<>>, f, db.entities[id][f])),
              out |-> IF state.current = ReadError THEN state.out
                      ELSE Append(state.out, state.current)]

\* scan_collection_stream
ScanCollection(db) ==
    LET end == FoldLeft(LAMBDA s, k : Assemble(db, s, k),
                        [current |-> ReadError, out |-> <<>>], EntityKeys(db))
    IN  IF ~db.known THEN <<>>
        ELSE IF end.current = ReadError THEN end.out ELSE Append(end.out, end.current)

-----------------------------------------------------------------------------
(* Index scans.                                                            *)

\* The entries of an index: those of the entities that have all its fields, and
\* those that were left behind.
Entries(db, ix) ==
    {[values |-> [n \in DOMAIN ix |-> db.entities[id][ix[n]]], id |-> id] :
        id \in {i \in Ids(db) : Range(ix) \subseteq DOMAIN db.entities[i]}}
      \cup {[values |-> s.values, id |-> s.id] : s \in {t \in db.stale : t.index = ix}}

\* index_range and composite_index_range: the entries that are scanned, by the
\* equalities of all leading fields but the last and the range of that one.  A
\* field in between that is not bound from below by an inclusive bound makes it
\* the whole index.
InScan(entry, leading) ==
    LET last == Len(leading)
    IN  \/ \E n \in 1 .. last - 1 : leading[n].lower.kind # "inclusive"
        \/ /\ \A n \in 1 .. last - 1 : entry.values[n] = leading[n].lower.value
           /\ Within(entry.values[last], leading[last])

\* The order of the keys of an index.
EntryBefore(s, t) ==
    Before(s.values, t.values) \/ (s.values = t.values /\ s.id < t.id)

Scan(db, ix, leading) ==
    InOrder({e \in Entries(db, ix) : InScan(e, leading)}, EntryBefore)

\* core_get_entity
GetEntity(db, id) ==
    IF \E f \in DOMAIN db.entities[id] : <<id, f>> \in db.damaged
    THEN ReadError ELSE Row(id, db.entities[id])

HasField(db, id, f) == id \in Ids(db) /\ f \in DOMAIN db.entities[id]

\* The check of a candidate against what the entity holds now.
Verified(db, id, ix, leading) ==
    \A n \in DOMAIN leading :
        HasField(db, id, ix[n]) /\ Within(db.entities[id][ix[n]], leading[n])

\* find_m and find_composite_m: the ids that hold, each once; a candidate that
\* cannot be decoded fails the call.  (find_composite_m stops at the first
\* field that does not hold and may not meet the damaged one.)
FindIds(db, ix, leading) ==
    LET found == FirstPerId(Scan(db, ix, leading))
        fails == \E i \in DOMAIN found : \E n \in DOMAIN leading :
                    /\ <<found[i].id, ix[n]>> \in db.damaged
                    /\ Verified(db, found[i].id, ix, SubSeq(leading, 1, n - 1))
    IN  IF fails THEN Failed
        ELSE Stream(SelectSeq(found, LAMBDA e : Verified(db, e.id, ix, leading)))

\* FetchIter::next for every id.
FetchRows(db, ids) ==
    LET live == SelectSeq(ids, LAMBDA e : e.id \in Ids(db))
    IN  [i \in DOMAIN live |-> GetEntity(db, live[i].id)]

\* The order of the candidates of an ordered scan: by value, then by id.
CandidateBefore(dir, s, t) ==
    LET v == s.values[1]
        w == t.values[1]
    IN  \/ IF dir = "asc" THEN v < w ELSE v > w
        \/ v = w /\ s.id < t.id

\* index_order_stream and IndexOrderIter::next: every entry of the range whose
\* entity still lies in it.  An entity is not remembered.
OrderedScan(db, f, r, dir) ==
    LET candidates == InOrder({e \in Entries(db, <<f>>) : InScan(e, <<r>>)},
                                   LAMBDA s, t : CandidateBefore(dir, s, t))
        kept == SelectSeq(candidates, LAMBDA e :
                    \/ <<e.id, f>> \in db.damaged
                    \/ Verified(db, e.id, <<f>>, <<r>>))
    IN  [i \in DOMAIN kept |-> GetEntity(db, kept[i].id)]

-----------------------------------------------------------------------------
(* The operators on rows.                                                  *)

ValueOf(r, f) == IF f \in DOMAIN r.entity THEN {r.entity[f]} ELSE {}

\* The order of values, where a missing one (the empty set) is the smallest.
Smaller(v, w) == (v = {} /\ w # {}) \/ (\E x \in v, y \in w : x < y)

\* The order of sort_rows: ties go by id, in either direction.
RowBefore(f, dir, r, s) ==
    LET v == ValueOf(r, f)
        w == ValueOf(s, f)
    IN  \/ IF dir = "asc" THEN Smaller(v, w) ELSE Smaller(w, v)
        \/ v = w /\ r.id < s.id

\* The filter lets no error through.
FilterRows(rows, pred) ==
    SelectSeq(rows, LAMBDA r : r # ReadError /\ Eval(r.entity, pred))

\* sort_rows
SortRows(rows, f, dir) == SortSeq(rows, LAMBDA r, s : RowBefore(f, dir, r, s))

\* Iterator::take
Take(rows, n) == SubSeq(rows, 1, Min({n, Len(rows)}))

RECURSIVE Exec(_, _)

\* UnionIds: the branches one after the other, every id once.
Union(db, branches) ==
    LET outcomes == [b \in DOMAIN branches |-> Collected(Exec(db, branches[b]))]
    IN  IF \E b \in DOMAIN outcomes : ~outcomes[b].ok THEN Failed
        ELSE Stream(FirstPerId(FoldLeft(LAMBDA rows, o : rows \o o.rows, <<>>, outcomes)))

\* exec_rows
Exec(db, plan) ==
    CASE plan.op = "full" -> Stream(ScanCollection(db))
      [] plan.op = "index" -> FindIds(db, <<plan.field>>, <<plan.range>>)
      [] plan.op = "composite" -> FindIds(db, plan.index, plan.leading)
      [] plan.op = "order" -> Stream(OrderedScan(db, plan.field, plan.range, plan.dir))
      [] plan.op = "union" -> Union(db, plan.branches)
      [] OTHER ->
            LET in == Exec(db, plan.input)
            IN  CASE ~in.ok -> Failed
                  [] plan.op = "fetch" -> Stream(FetchRows(db, in.rows))
                  [] plan.op = "filter" -> Stream(FilterRows(in.rows, plan.pred))
                  [] plan.op = "limit" -> Stream(Take(in.rows, plan.n))
                  [] plan.op = "sort" -> IF NoErrors(in.rows)
                                         THEN Stream(SortRows(in.rows, plan.field, plan.dir))
                                         ELSE Failed

\* executor::run
Run(db, plan) == Collected(Exec(db, plan))

-----------------------------------------------------------------------------
(* The last step of a query.                                               *)

\* project_rows: a field that the entity does not have is left out.
Project(rows, fields) ==
    [i \in DOMAIN rows |->
        Row(rows[i].id, [f \in DOMAIN rows[i].entity \cap fields |-> rows[i].entity[f]])]

\* The numbers that an aggregate takes: Null, the value 0, is passed over like
\* a field that is not there.
Numbers(rows, f) ==
    LET has == SelectSeq(rows, LAMBDA r : f \in DOMAIN r.entity /\ r.entity[f] # 0)
    IN  [i \in DOMAIN has |-> has[i].entity[f]]

Total(numbers) == FoldLeft(LAMBDA sum, n : sum + n, 0, numbers)

NoNumber == [kind |-> "none"]
Number(n) == [kind |-> "int", value |-> n]
Average(sum, count) == [kind |-> "float", sum |-> sum, count |-> count]

\* i128 to i64
Saturated(n) == Max({Min({n, MaxInt}), -MaxInt - 1})

AggregateMutant(rows, kind, f) ==
    LET all == Numbers(rows, f)
    IN  CASE kind = "count" -> Number(Len(rows))
          [] all = <<>> /\ kind # "count" -> NoNumber
          [] all # <<>> /\ kind = "sum" -> Number(Total(all))
          [] all # <<>> /\ kind = "avg" -> Average(Total(all), Len(all))
          [] all # <<>> /\ kind = "min" -> Number(Min(Range(all)))
          [] all # <<>> /\ kind = "max" -> Number(Max(Range(all)))

\* aggregate_rows, on integers.
Aggregate(rows, kind, f) ==
    LET all == Numbers(rows, f)
    IN  CASE kind = "count" -> Number(Len(rows))
          [] all = <<>> /\ kind # "count" -> NoNumber
          [] all # <<>> /\ kind = "sum" -> Number(Saturated(Total(all)))
          [] all # <<>> /\ kind = "avg" -> Average(Total(all), Len(all))
          [] all # <<>> /\ kind = "min" -> Number(Min(Range(all)))
          [] all # <<>> /\ kind = "max" -> Number(Max(Range(all)))
==============================================================================

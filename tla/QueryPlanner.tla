---------------------------- MODULE QueryPlanner ----------------------------
(***************************************************************************)
(* The planner (src/query/planner.rs): a logical plan (logical.rs), which  *)
(* says what is asked, becomes a physical plan (physical.rs), which says   *)
(* which index is read and what is still filtered and sorted.              *)
(* A schema is a record of whether the collection is known and of its      *)
(* READY indexes, each the sequence of its fields; an index that is still  *)
(* BUILDING is passed over as if it were not there.                        *)
(***************************************************************************)
EXTENDS Predicates, SequencesExt

-----------------------------------------------------------------------------
(* LogicalPlan and QueryBuilder.                                           *)

Collection == [op |-> "collection"]
Sort(p, f, dir) == [op |-> "sort", input |-> p, field |-> f, dir |-> dir]
Limit(p, n) == [op |-> "limit", input |-> p, n |-> n]
Filter(p, pred) == [op |-> "filter", input |-> p, pred |-> pred]

\* QueryBuilder::filter: a filter on a filter joins it.
AddFilter(plan, p) ==
    IF plan.op = "filter" THEN [plan EXCEPT !.pred = And(@, p)] ELSE Filter(plan, p)

NoSort == [field |-> 0, dir |-> "none"]
NoLimit == -1

RECURSIVE Flatten(_, _)

\* The loop of plan(): the filters from the outside in; of several sorts and
\* limits the innermost one stays.
Flatten(p, q) ==
    CASE p.op = "collection" -> q
      [] p.op = "filter" -> Flatten(p.input, [q EXCEPT !.preds = Append(@, p.pred)])
      [] p.op = "sort" ->
            Flatten(p.input, [q EXCEPT !.sort = [field |-> p.field, dir |-> p.dir]])
      [] p.op = "limit" -> Flatten(p.input, [q EXCEPT !.limit = p.n])

Parts(logical) == Flatten(logical, [preds |-> <<>>, sort |-> NoSort, limit |-> NoLimit])

-----------------------------------------------------------------------------
(* PhysicalPlan: Filter, Sort and Limit are those of the logical plan.     *)

FullScan == [op |-> "full"]
IndexScan(f, r) == [op |-> "index", field |-> f, range |-> r]
CompositeIndexScan(ix, leading) == [op |-> "composite", index |-> ix, leading |-> leading]
IndexOrderScan(f, r, dir) == [op |-> "order", field |-> f, range |-> r, dir |-> dir]
UnionIds(branches) == [op |-> "union", branches |-> branches]
Fetch(p) == [op |-> "fetch", input |-> p]

-----------------------------------------------------------------------------
(* The index of a clause.                                                  *)

MergeBounds(lits, f) ==
    FoldLeft(LAMBDA r, l : MergeLiteral(r, l, f), EverythingRange, lits)

\* The literals that the index scan does not answer.
Residual(lits, fields) ==
    SelectSeq(lits, LAMBDA l : ~(Indexable(l) /\ l.field \in fields))

\* clause_residual
Conjunction(lits) ==
    FoldLeft(LAMBDA p, l : And(p, LitPredicate(l)), LitPredicate(Head(lits)), Tail(lits))

\* Shape::selectivity, as a rank: an equality, two bounds, one bound.
Cost(lits, f, r) ==
    IF \E i \in DOMAIN lits : Bounds(lits[i], f) /\ lits[i].cmp = "Eq" THEN 1
    ELSE IF r.lower = Unbounded \/ r.upper = Unbounded THEN 3 ELSE 2

\* cheaper: the shape, then the tighter range, then the name.
Cheaper(lits, f, g) ==
    LET rf == MergeBounds(lits, f)
        rg == MergeBounds(lits, g)
        cf == Cost(lits, f, rf)
        cg == Cost(lits, g, rg)
    IN  \/ cf < cg
        \/ cf = cg /\ TighterRange(rf, rg)
        \/ cf = cg /\ ~TighterRange(rg, rf) /\ f < g

IndexedFields(schema, lits) ==
    {lits[i].field : i \in {j \in DOMAIN lits :
        Indexable(lits[j]) /\ <<lits[j].field>> \in schema.indexes}}

\* pick_index_field_cost, of at least one field
CheapestField(lits, fields) ==
    CHOOSE f \in fields : \A g \in fields \ {f} : Cheaper(lits, f, g)

\* The first literal of a field that can be read off an index.
FirstOf(lits, f) == lits[CHOOSE i \in DOMAIN lits :
                            Bounds(lits[i], f) /\ \A j \in 1 .. i - 1 : ~Bounds(lits[j], f)]

HasBounds(lits, f) == \E i \in DOMAIN lits : Bounds(lits[i], f)

\* The leading fields of a composite index that the clause bounds; a field
\* that is not bound by an equality is the last one.
Leading(lits, ix) ==
    LET ends == {n \in DOMAIN ix : \/ ~HasBounds(lits, ix[n])
                                   \/ /\ n > 1 /\ HasBounds(lits, ix[n - 1])
                                      /\ FirstOf(lits, ix[n - 1]).cmp # "Eq"}
        len == IF ends = {} THEN Len(ix) ELSE Min(ends) - 1
    IN  [n \in 1 .. len |-> MergeBounds(lits, ix[n])]

\* The order of vectors of field ids.
Before(s, t) ==
    \/ IsStrictPrefix(s, t)
    \/ \E n \in DOMAIN s \cap DOMAIN t :
         SubSeq(s, 1, n - 1) = SubSeq(t, 1, n - 1) /\ s[n] < t[n]

Composites(schema, lits) ==
    {ix \in schema.indexes : Len(ix) >= 2 /\ Leading(lits, ix) # <<>>}

\* pick_composite_index, of at least one index
BestComposite(lits, composites) ==
    CHOOSE ix \in composites : \A other \in composites \ {ix} :
        LET n == Len(Leading(lits, ix))
            m == Len(Leading(lits, other))
        IN  n > m \/ (n = m /\ Before(ix, other))

\* plan_clause: a composite index if it binds two fields, or if it is all
\* there is.
PlanClause(schema, lits) ==
    LET single == IndexedFields(schema, lits)
        composite == Composites(schema, lits)
        best == BestComposite(lits, composite)
        leading == Leading(lits, best)
        field == CheapestField(lits, single)
    IN  IF ~schema.known THEN [source |-> FullScan, residual |-> lits]
        ELSE IF composite # {} /\ (Len(leading) >= 2 \/ single = {})
        THEN [source |-> Fetch(CompositeIndexScan(best, leading)),
              residual |-> Residual(lits, {best[n] : n \in DOMAIN leading})]
        ELSE IF single # {}
        THEN [source |-> Fetch(IndexScan(field, MergeBounds(lits, field))),
              residual |-> Residual(lits, {field})]
        ELSE [source |-> FullScan, residual |-> lits]

-----------------------------------------------------------------------------
(* The whole plan.                                                         *)

\* union_bounds
UnionBounds(clauses, f) ==
    FoldLeft(LAMBDA r, c : Widen(r, MergeBounds(c, f)),
             MergeBounds(Head(clauses), f), Tail(clauses))

IndexOrderEnabledMutant(schema, f, clauses) ==
    /\ schema.known
    /\ <<f>> \in schema.indexes
    /\ \E c \in DOMAIN clauses : HasBounds(clauses[c], f)

\* index_order_enabled: no row that can match lacks the field.
IndexOrderEnabled(schema, f, clauses) ==
    /\ schema.known
    /\ <<f>> \in schema.indexes
    /\ \A c \in DOMAIN clauses : HasBounds(clauses[c], f)

FilterBy(p, lits) == IF lits = <<>> THEN p ELSE Filter(p, Conjunction(lits))

\* The rows before they are sorted: one clause needs only its residual, several
\* are united and filtered by the whole predicate.
Rows(schema, clauses, whole) ==
    IF Len(clauses) = 1
    THEN LET plan == PlanClause(schema, clauses[1])
         IN  FilterBy(plan.source, plan.residual)
    ELSE Filter(UnionIds([c \in DOMAIN clauses |->
                            PlanClause(schema, clauses[c]).source]), whole)

\* The rows in the order of an index.
OrderedRows(clauses, whole, sort) ==
    LET scan == IndexOrderScan(sort.field, UnionBounds(clauses, sort.field), sort.dir)
    IN  IF Len(clauses) = 1
        THEN FilterBy(scan, Residual(clauses[1], {sort.field}))
        ELSE Filter(scan, whole)

LimitBy(p, n) == IF n = NoLimit THEN p ELSE Limit(p, n)

\* plan
Plan(schema, logical) ==
    LET q == Parts(logical)
        whole == FoldLeft(And, Head(q.preds), Tail(q.preds))
        clauses == IF q.preds = <<>> THEN <<<<>>>> ELSE Dnf(whole)
    IN  IF /\ q.sort # NoSort /\ q.limit # NoLimit
           /\ IndexOrderEnabled(schema, q.sort.field, clauses)
        THEN Limit(OrderedRows(clauses, whole, q.sort), q.limit)
        ELSE LET rows == Rows(schema, clauses, whole)
             IN  LimitBy(IF q.sort = NoSort THEN rows
                         ELSE Sort(rows, q.sort.field, q.sort.dir), q.limit)
=============================================================================

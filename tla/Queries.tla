------------------------------- MODULE Queries -------------------------------
(***************************************************************************)
(* A query from the call to the answer: a text goes through lsmql::run, or *)
(* a program calls the QueryBuilder; both end in EntityStore's             *)
(* execute_query or execute_aggregate (src/entity.rs), that is in the      *)
(* planner and the executor.  A query only reads, and the store is         *)
(* borrowed for its whole run, so the database is fixed when it starts.  A *)
(* transaction runs the same steps over its own view of the records.       *)
(***************************************************************************)
EXTENDS QueryExecutor, Lsmql

CONSTANTS
    Databases,      \* the databases that are asked
    Schemas,        \* the schemas: which indexes are READY
    Texts,          \* LSMQL calls: [asked, tokens, params]
    Filters,        \* what a program gives to filter(): expressions
    Sorts,          \* what it gives to sort(): [field, dir]
    Limits,         \* what it gives to limit()
    Projections,    \* what it gives to project(): sets of fields
    Totals,         \* what it gives to aggregate(): [agg, field]
    MaxCalls        \* bound on its calls

ASSUME QueriesAssumption == MaxCalls \in Nat /\ Limits \subseteq Nat

VARIABLES
    db, schema,
    via,            \* "lsmql" or "api"
    asked,          \* what is asked, as the caller says it
    calls,          \* the names of the builder's calls, in order
    tokens, params, \* of an LSMQL call
    query,          \* the syntax tree
    builder,
    terminal,       \* the call that ends the builder: "rows" or "total"
    plan,
    result,         \* [ok, rows, total]
    pc              \* "text", "tree", "valid", "builder", "planned", "done"

store == <<db, schema>>
call == <<via, tokens, params>>
vars == <<store, call, asked, calls, query, builder, terminal, plan, result, pc>>

NoResult == [ok |-> FALSE, rows |-> <<>>, total |-> NoNumber]

NewBuilder == [logical |-> Collection, project |-> NoProjection, aggregate |-> NoAggregate]

\* A program starts with a query for everything.
Everything ==
    [where |-> <<>>, order |-> <<>>, limit |-> NoLimit, offset |-> 0,
     project |-> NoProjection, aggregate |-> NoAggregate, valid |-> TRUE]

Init ==
    /\ db \in Databases
    /\ schema \in Schemas
    /\ \/ /\ via = "api" /\ pc = "builder"
          /\ asked = Everything /\ tokens = <<>> /\ params = <<>>
       \/ /\ via = "lsmql" /\ pc = "text"
          /\ \E t \in Texts : asked = t.asked /\ tokens = t.tokens /\ params = t.params
    /\ calls = <<>>
    /\ query = <<>>
    /\ builder = NewBuilder
    /\ terminal = "none"
    /\ plan = <<>>
    /\ result = NoResult

-----------------------------------------------------------------------------
(* lsmql::run                                                              *)

Fail ==
    /\ result' = NoResult
    /\ pc' = "done"

ParseText ==
    /\ pc = "text"
    /\ LET tree == Parse(tokens)
       IN  IF tree.ok THEN query' = tree.val /\ pc' = "tree" /\ UNCHANGED result
           ELSE Fail /\ UNCHANGED query
    /\ UNCHANGED <<store, call, asked, calls, builder, terminal, plan>>

BindAndValidate ==
    /\ pc = "tree"
    /\ query' = Substitute(query, params)
    /\ IF Valid(query') THEN pc' = "valid" /\ UNCHANGED result ELSE Fail
    /\ UNCHANGED <<store, call, asked, calls, builder, terminal, plan>>

\* EXPLAIN is refused: it has a call of its own.
Translate ==
    /\ pc = "valid"
    /\ IF Translatable(query) /\ ~query.explain
       THEN builder' = ToBuilder(query) /\ pc' = "builder" /\ UNCHANGED result
       ELSE Fail /\ UNCHANGED builder
    /\ UNCHANGED <<store, call, asked, calls, query, terminal, plan>>

-----------------------------------------------------------------------------
(* QueryBuilder                                                            *)

Calling(name) ==
    /\ via = "api" /\ pc = "builder"
    /\ Len(calls) < MaxCalls
    /\ calls' = Append(calls, name)
    /\ UNCHANGED <<store, call, query, terminal, plan, result, pc>>

CallFilter(e) ==
    /\ Calling("filter")
    /\ builder' = [builder EXCEPT !.logical = AddFilter(@, ToPred(e))]
    /\ asked' = [asked EXCEPT !.where = Append(@, e)]

CallSort(s) ==
    /\ Calling("sort")
    /\ builder' = [builder EXCEPT !.logical = Sort(@, s.field, s.dir)]
    /\ asked' = [asked EXCEPT !.order = Append(@, s)]

CallLimit(n) ==
    /\ Calling("limit")
    /\ builder' = [builder EXCEPT !.logical = Limit(@, n)]
    /\ asked' = [asked EXCEPT !.limit = IF @ = NoLimit THEN n ELSE Min({@, n})]

CallProject(fields) ==
    /\ Calling("project")
    /\ builder' = [builder EXCEPT !.project = ProjectOn(fields)]
    /\ asked' = [asked EXCEPT !.project = ProjectOn(fields)]

CallAggregate(a) ==
    /\ Calling("aggregate")
    /\ builder' = [builder EXCEPT !.aggregate = a]
    /\ asked' = [asked EXCEPT !.aggregate = a]

-----------------------------------------------------------------------------
(* EntityStore                                                             *)

\* The calls that may end the builder: lsmql::run makes the one that its query is
\* for, a program either.
Terminals ==
    IF via = "api" THEN {"rows", "total"}
    ELSE IF builder.aggregate = NoAggregate THEN {"rows"} ELSE {"total"}

\* execute_query refuses an aggregation and a projection of no field,
\* execute_aggregate any projection and a builder without an aggregation.
RefusedBy(t) ==
    \/ t = "rows" /\ (builder.aggregate # NoAggregate \/ builder.project = ProjectOn({}))
    \/ t = "total" /\ (builder.aggregate = NoAggregate \/ builder.project # NoProjection)

PlanQuery(t) ==
    /\ pc = "builder"
    /\ t \in Terminals
    /\ terminal' = t
    /\ IF RefusedBy(t) THEN Fail /\ UNCHANGED plan
       ELSE plan' = Plan(schema, builder.logical) /\ pc' = "planned" /\ UNCHANGED result
    /\ UNCHANGED <<store, call, asked, calls, query, builder>>

\* lsmql::run skips the rows before the offset.
SkipOffset(rows) ==
    IF via = "lsmql" THEN SubSeq(rows, query.offset + 1, Len(rows)) ELSE rows

\* execute_query
ExecuteQuery ==
    /\ pc = "planned"
    /\ terminal = "rows"
    /\ LET out == Run(db, plan)
           rows == IF builder.project = NoProjection THEN out.rows
                   ELSE Project(out.rows, builder.project[1])
       IN  result' = IF out.ok THEN [NoResult EXCEPT !.ok = TRUE, !.rows = SkipOffset(rows)]
                     ELSE NoResult
    /\ pc' = "done"
    /\ UNCHANGED <<store, call, asked, calls, query, builder, terminal, plan>>

\* execute_aggregate
ExecuteAggregate ==
    /\ pc = "planned"
    /\ terminal = "total"
    /\ LET out == Run(db, plan)
           a == builder.aggregate
       IN  result' = IF out.ok
                     THEN [NoResult EXCEPT !.ok = TRUE,
                                           !.total = Aggregate(out.rows, a.agg, a.field)]
                     ELSE NoResult
    /\ pc' = "done"
    /\ UNCHANGED <<store, call, asked, calls, query, builder, terminal, plan>>

Next ==
    \/ ParseText \/ BindAndValidate \/ Translate
    \/ \E e \in Filters : CallFilter(e)
    \/ \E s \in Sorts : CallSort(s)
    \/ \E n \in Limits : CallLimit(n)
    \/ \E fields \in Projections : CallProject(fields)
    \/ \E a \in Totals : CallAggregate(a)
    \/ \E t \in {"rows", "total"} : PlanQuery(t)
    \/ ExecuteQuery \/ ExecuteAggregate

Spec == Init /\ [][Next]_vars

-----------------------------------------------------------------------------
(* What a query means, by a look at every entity of the collection.        *)

\* The value of a field of an entity, if there is one; `id' is the entity's own
\* id (docs/design-lsmql.md, section 9).
ValueIn(id, f) ==
    IF f = IdField THEN {id}
    ELSE IF f \in DOMAIN db.entities[id] THEN {db.entities[id][f]} ELSE {}

RECURSIVE Means(_, _)

\* An expression of an entity; of a missing field only "not equal" holds.
Means(id, x) ==
    CASE x.op = "and" -> \A k \in DOMAIN x.args : Means(id, x.args[k])
      [] x.op = "or" -> \E k \in DOMAIN x.args : Means(id, x.args[k])
      [] x.op = "not" -> ~Means(id, x.args[1])
      [] x.op = "pred" ->
            LET value == ValueIn(id, x.field)
            IN  CASE x.kind = "Ne" -> x.values[1].v \notin value
                  [] x.kind = "IsNull" -> 0 \in value
                  [] x.kind \in {"Eq", "In"} -> \E k \in DOMAIN x.values : x.values[k].v \in value
                  [] x.kind = "Lt" -> \E v \in value : v < x.values[1].v
                  [] x.kind = "Le" -> \E v \in value : v <= x.values[1].v
                  [] x.kind = "Gt" -> \E v \in value : v > x.values[1].v
                  [] x.kind = "Ge" -> \E v \in value : v >= x.values[1].v

Matching ==
    IF db.known THEN {id \in Ids(db) : \A k \in DOMAIN asked.where : Means(id, asked.where[k])}
    ELSE {}

\* The place of an entity under one item of the order; a missing field is last
\* or first.
Place(id, o) ==
    LET v == Max({-1} \cup ValueIn(id, o.field)) IN IF o.dir = "asc" THEN v ELSE -v

\* The first item on which two entities differ decides, then the id.
Comes(i, j) ==
    \/ \E k \in DOMAIN asked.order :
         /\ \A m \in 1 .. k - 1 : Place(i, asked.order[m]) = Place(j, asked.order[m])
         /\ Place(i, asked.order[k]) < Place(j, asked.order[k])
    \/ /\ \A k \in DOMAIN asked.order : Place(i, asked.order[k]) = Place(j, asked.order[k])
       /\ i < j

\* The ids from the offset on, as many as the limit allows.
Window ==
    LET all == InOrder(Matching, Comes)
        last == IF asked.limit = NoLimit THEN Len(all)
                ELSE Min({Len(all), asked.limit + asked.offset})
    IN  SubSeq(all, asked.offset + 1, last)

\* What a row shows of an entity; its id stands beside that in any case.
Shown(e) ==
    IF asked.project = NoProjection THEN e
    ELSE [f \in DOMAIN e \cap asked.project[1] |-> e[f]]

RightRows ==
    LET rows == result.rows
        ids == [i \in DOMAIN rows |-> rows[i].id]
    IN  /\ IF asked.order # <<>> THEN ids = Window
           ELSE IsInjective(ids) /\ Range(ids) \subseteq Matching /\ Len(ids) = Len(Window)
        /\ \A i \in DOMAIN rows : rows[i].entity = Shown(db.entities[rows[i].id])

\* The total of the numbers among the values of a field.
RightTotal ==
    LET a == asked.aggregate
        taken == {id \in Range(Window) : /\ a.field \in DOMAIN db.entities[id]
                                         /\ db.entities[id][a.field] # 0}
        values == {db.entities[id][a.field] : id \in taken}
        sum == MapThenSumSet(LAMBDA id : db.entities[id][a.field], taken)
    IN  result.total =
            CASE a.agg = "count" -> Number(Len(Window))
              [] a.agg # "count" /\ taken = {} -> NoNumber
              [] a.agg = "sum" /\ taken # {} ->
                    Number(IF sum > MaxInt THEN MaxInt ELSE sum)
              [] a.agg = "avg" /\ taken # {} -> Average(sum, Cardinality(taken))
              [] a.agg = "min" /\ taken # {} -> Number(Min(values))
              [] a.agg = "max" /\ taken # {} -> Number(Max(values))

-----------------------------------------------------------------------------
(* Where the planner and the executor are known to give another answer.    *)

RECURSIVE Nodes(_)

\* The operators of a physical plan.
Nodes(p) ==
    CASE p.op \in {"full", "index", "composite", "order"} -> {p}
      [] p.op = "union" -> UNION {Nodes(p.branches[b]) : b \in DOMAIN p.branches}
      [] OTHER -> {p} \cup Nodes(p.input)

NodesOf(op) == {n \in Nodes(plan) : n.op = op}

\* An inclusive and an exclusive lower bound at one value: the inclusive one is
\* taken for the tighter (planner.rs, lower_stronger).
LowerBoundsTie ==
    LET atoms == UNION {Atoms(asked.where[k]) : k \in DOMAIN asked.where}
        bounds(kinds) == UNION {{<<x.field, x.values[k].v>> : k \in DOMAIN x.values} :
                                    x \in {y \in atoms : y.kind \in kinds}}
    IN  bounds({"Eq", "In", "Ge"}) \cap bounds({"Gt"}) # {}

\* An entity in the range that a composite index is scanned for, but without one
\* of its other fields, has no entry in it (index.rs, rebuild_composite).
PrefixHidesEntity ==
    \E n \in NodesOf("composite"), id \in Ids(db) :
        /\ Verified(db, id, n.index, n.leading)
        /\ \E k \in DOMAIN n.index : ~HasField(db, id, n.index[k])

\* An ordered scan meets an entity under its former value too, and both values
\* lie in its range (executor.rs, IndexOrderIter).
MovedEntry ==
    \E n \in NodesOf("order"), s \in db.stale :
        /\ s.index = <<n.field>>
        /\ InScan(s, <<n.range>>)
        /\ Verified(db, s.id, s.index, <<n.range>>)

\* A filter drops a row that could not be read (executor.rs, Filter).
DroppedError == \E n \in NodesOf("filter") : ~NoErrors(Exec(db, n.input).rows)

\* Builder calls that the planner does not nest: of two sorts or limits one is
\* left, and a limit comes last (planner.rs, plan).
OutOfOrder ==
    \E c, d \in DOMAIN calls :
        /\ c < d
        /\ \/ calls[c] = "limit" /\ calls[d] \in {"filter", "sort", "limit"}
           \/ calls[c] = "sort" /\ calls[d] = "sort"

\* `id' is not the entity's id but a field that no entity has (validate.rs,
\* check_field; expression.rs, eval).
AsksForId ==
    \/ \E k \in DOMAIN asked.where : \E x \in Atoms(asked.where[k]) : x.field = IdField
    \/ \E k \in DOMAIN asked.order : asked.order[k].field = IdField

Excepted ==
    \/ LowerBoundsTie \/ PrefixHidesEntity \/ MovedEntry \/ DroppedError \/ OutOfOrder
    \/ AsksForId

-----------------------------------------------------------------------------
(* Properties.                                                             *)

Answered == pc = "done" /\ result.ok

\* What is asked for: rows or a total.  A text says it, a program by its last call.
Wants ==
    IF via = "api" THEN terminal
    ELSE IF asked.aggregate = NoAggregate THEN "rows" ELSE "total"

\* Whatever index the planner picks and whatever is left behind in it, the rows
\* are those of a look at every entity: none is missed, none comes twice, the
\* order and the limit are kept (execute_query, lsmql::run).
AnswersAsked ==
    Answered /\ Wants = "rows" /\ ~Excepted => RightRows

\* A limit without an order takes any rows.
AnyRows == asked.limit # NoLimit /\ asked.order = <<>> /\ asked.aggregate.agg # "count"

\* The same of an aggregate: it is that of the rows asked for, and a sum that is
\* too large is the largest number (execute_aggregate, aggregate_rows).
TotalsAsked ==
    Answered /\ Wants = "total" /\ ~Excepted /\ ~AnyRows => RightTotal

\* Whether what is asked has a meaning: rows of no field and of an aggregate have
\* none, nor has a total of nothing or beside a projection.
Meaningful ==
    /\ asked.valid
    /\ IF Wants = "rows"
       THEN asked.aggregate = NoAggregate /\ asked.project # ProjectOn({})
       ELSE asked.aggregate # NoAggregate /\ asked.project = NoProjection

\* Whichever of the two calls ends it, a query is refused just when it has no
\* meaning, or when a record that it reads is damaged (parse, validate,
\* to_builder, execute_query, execute_aggregate).
RefusesTheRest == pc = "done" /\ db.damaged = {} => (result.ok <=> Meaningful)

\* The clauses that the planner works on say the same of every entity as the
\* predicate, of fields that it lacks too (dnf, dnf_not).
ClausesKeepMeaning ==
    pc = "builder" /\ builder.logical.op = "filter" =>
        LET p == builder.logical.pred
            clauses == Dnf(p)
        IN  \A id \in Ids(db) :
                Eval(db.entities[id], p) <=>
                    \E c \in DOMAIN clauses : \A k \in DOMAIN clauses[c] :
                        Eval(db.entities[id], LitPredicate(clauses[c][k]))

\* What the whole pipeline promises without the exceptions above.
AnswersAlways == Answered /\ Wants = "rows" => RightRows
==============================================================================

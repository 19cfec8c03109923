----------------------------- MODULE RangeMerge -----------------------------
(***************************************************************************)
(* The two loops of the planner that turn the literals of a query into one *)
(* range of an index (src/query/planner.rs): merge_bounds intersects the   *)
(* literals of a clause, union_bounds covers the ranges of the clauses.    *)
(* Both drop what they have merged: an index scan is not filtered again by *)
(* the literals of its field.                                              *)
(***************************************************************************)
EXTENDS IndexBounds, Sequences

CONSTANTS
    Fields,
    Values,       \* the values a field may have
    Queries       \* the queries in disjunctive normal form

Cmps == {"Eq", "Ne", "Lt", "Lte", "Gt", "Gte"}

\* Lit
Literal == [field : Fields, cmp : Cmps, value : Values, negated : BOOLEAN]

ASSUME ValuesAssumption == Values \subseteq Int
ASSUME QueriesAssumption == Queries \subseteq Seq(Seq(Literal))

VARIABLES
    query,        \* the clauses
    field,        \* the field whose index is scanned
    at,           \* the clause in work
    next,         \* its literal that is merged next
    range,        \* the bounds of the clause so far
    union         \* the bounds that cover the clauses before it

vars == <<query, field, at, next, range, union>>

Init ==
    /\ query \in Queries
    /\ field \in Fields
    /\ at = 1
    /\ next = 1
    /\ range = EverythingRange
    /\ union = EverythingRange

InClause == at \in DOMAIN query /\ next \in DOMAIN query[at]

\* merge_bounds
TakeLiteral ==
    /\ InClause
    /\ range' = MergeLiteral(range, query[at][next], field)
    /\ next' = next + 1
    /\ UNCHANGED <<query, field, at, union>>

\* union_bounds
TakeClause ==
    /\ at \in DOMAIN query
    /\ next \notin DOMAIN query[at]
    /\ union' = IF at = 1 THEN range ELSE Widen(union, range)
    /\ at' = at + 1
    /\ next' = 1
    /\ range' = EverythingRange
    /\ UNCHANGED <<query, field>>

Next == TakeLiteral \/ TakeClause

Spec == Init /\ [][Next]_vars

-----------------------------------------------------------------------------
(* Properties.                                                             *)

\* What a literal says of the value of its field.
Holds(l, v) ==
    \/ l.cmp = "Eq" /\ v = l.value
    \/ l.cmp = "Ne" /\ v # l.value
    \/ l.cmp = "Lt" /\ v < l.value
    \/ l.cmp = "Lte" /\ v <= l.value
    \/ l.cmp = "Gt" /\ v > l.value
    \/ l.cmp = "Gte" /\ v >= l.value

\* v has passed the literals before n that bound the field.
Passes(clause, n, v) ==
    \A i \in DOMAIN clause : i < n /\ Bounds(clause[i], field) => Holds(clause[i], v)

\* Two literals whose lower bounds lie at one value, with and without it.
Tie(l, m) ==
    /\ Bounds(l, field) /\ Bounds(m, field)
    /\ l.value = m.value
    /\ LowerOf(l).kind = "inclusive" /\ LowerOf(m).kind = "exclusive"

NoTies ==
    \A c, d \in DOMAIN query :
        \A i \in DOMAIN query[c], j \in DOMAIN query[d] : ~Tie(query[c][i], query[d][j])

\* The range of a clause never leaves out a value that all its literals let
\* through: the index scan misses no entity (merge_bounds).
RangeCovers ==
    at \in DOMAIN query =>
        \A v \in Values : Passes(query[at], next, v) => Within(v, range)

\* Unless two lower bounds tie, the range holds nothing else either, so that
\* plan_clause may drop the literals of the field from the filter.
RangeExact ==
    NoTies /\ at \in DOMAIN query =>
        \A v \in Values : Within(v, range) => Passes(query[at], next, v)

\* Unless two lower bounds tie, the union covers every clause merged so far:
\* an IndexOrderScan over it sees every row (union_bounds).
UnionCovers ==
    NoTies =>
        \A c \in DOMAIN query : c < at =>
            \A v \in Values :
                Passes(query[c], Len(query[c]) + 1, v) => Within(v, union)

\* What the planner relies on where it drops the literals of the field it
\* scans: the range holds exactly the values that pass them.
MergedRangeExact ==
    at \in DOMAIN query =>
        \A v \in Values : Within(v, range) <=> Passes(query[at], next, v)
=============================================================================

---------------------------- MODULE IndexBounds ----------------------------
(***************************************************************************)
(* The range of an index that a query needs (src/query/planner.rs and the  *)
(* Bound of src/index.rs): which of two bounds is the tighter one, and how *)
(* the literals of a clause and the clauses of a query are merged.         *)
(* Values are integers: all that is used of them is their total order,     *)
(* ordering::value_cmp.                                                    *)
(***************************************************************************)
EXTENDS Integers

Unbounded == [kind |-> "unbounded", value |-> 0]
Inclusive(v) == [kind |-> "inclusive", value |-> v]
Exclusive(v) == [kind |-> "exclusive", value |-> v]

EverythingRange == [lower |-> Unbounded, upper |-> Unbounded]

\* within
AboveLower(v, b) ==
    \/ b.kind = "unbounded"
    \/ b.kind = "inclusive" /\ v >= b.value
    \/ b.kind = "exclusive" /\ v > b.value

BelowUpper(v, b) ==
    \/ b.kind = "unbounded"
    \/ b.kind = "inclusive" /\ v <= b.value
    \/ b.kind = "exclusive" /\ v < b.value

Within(v, r) == AboveLower(v, r.lower) /\ BelowUpper(v, r.upper)

-----------------------------------------------------------------------------
(* The tighter bound.                                                      *)

\* At equal values the inclusive bound counts as the tighter lower bound.
LowerStronger(a, b) ==
    /\ a.kind # "unbounded"
    /\ \/ b.kind = "unbounded"
       \/ a.value > b.value
       \/ a.value = b.value /\ a.kind = "inclusive" /\ b.kind = "exclusive"

UpperStrongerMutant(a, b) ==
    /\ a.kind # "unbounded"
    /\ \/ b.kind = "unbounded"
       \/ a.value < b.value

\* At equal values the exclusive bound is the tighter upper bound.
UpperStronger(a, b) ==
    /\ a.kind # "unbounded"
    /\ \/ b.kind = "unbounded"
       \/ a.value < b.value
       \/ a.value = b.value /\ a.kind = "exclusive" /\ b.kind = "inclusive"

TightenLower(cur, new) == IF LowerStronger(new, cur) THEN new ELSE cur
TightenUpper(cur, new) == IF UpperStronger(new, cur) THEN new ELSE cur

\* tighter: the lower bounds decide first.
TighterRange(r, s) ==
    \/ LowerStronger(r.lower, s.lower)
    \/ ~LowerStronger(s.lower, r.lower) /\ UpperStronger(r.upper, s.upper)

-----------------------------------------------------------------------------
(* Merging.                                                                *)

\* Lit::indexable
Indexable(l) == ~l.negated /\ l.cmp # "Ne"

\* The literals that bound the values of field f in an index.
Bounds(l, f) == Indexable(l) /\ l.field = f

LowerOfMutant(l) ==
    IF l.cmp = "Eq" THEN Inclusive(l.value)
    ELSE IF l.cmp \in {"Gt", "Gte"} THEN Exclusive(l.value) ELSE Unbounded

LowerOf(l) ==
    IF l.cmp \in {"Eq", "Gte"} THEN Inclusive(l.value)
    ELSE IF l.cmp = "Gt" THEN Exclusive(l.value) ELSE Unbounded

UpperOf(l) ==
    IF l.cmp \in {"Eq", "Lte"} THEN Inclusive(l.value)
    ELSE IF l.cmp = "Lt" THEN Exclusive(l.value) ELSE Unbounded

\* merge_bounds: one round of the loop over the literals of a clause.
MergeLiteral(r, l, f) ==
    IF Bounds(l, f)
    THEN [lower |-> TightenLower(r.lower, LowerOf(l)),
          upper |-> TightenUpper(r.upper, UpperOf(l))]
    ELSE r

WidenMutant(r, s) ==
    [lower |-> IF LowerStronger(s.lower, r.lower) THEN r.lower ELSE s.lower,
     upper |-> IF UpperStronger(s.upper, r.upper) THEN s.upper ELSE r.upper]

\* union_bounds: one round of the loop over the clauses.
Widen(r, s) ==
    [lower |-> IF LowerStronger(s.lower, r.lower) THEN r.lower ELSE s.lower,
     upper |-> IF UpperStronger(s.upper, r.upper) THEN r.upper ELSE s.upper]
=============================================================================

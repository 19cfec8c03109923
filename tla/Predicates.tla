----------------------------- MODULE Predicates -----------------------------
(***************************************************************************)
(* The predicates of a query (src/query/ast.rs), what they say of an       *)
(* entity (src/query/expression.rs) and their disjunctive normal form      *)
(* (src/query/planner.rs).  A field is a number: the place of its name in  *)
(* the order of names, and its id.  An entity is a function from the       *)
(* fields it has to their values; values are integers.                     *)
(***************************************************************************)
EXTENDS IndexBounds, Sequences

\* Predicate
Field(f, c, v) == [op |-> "field", field |-> f, cmp |-> c, value |-> v]
And(p, q) == [op |-> "and", left |-> p, right |-> q]
Or(p, q) == [op |-> "or", left |-> p, right |-> q]
Not(p) == [op |-> "not", arg |-> p]

-----------------------------------------------------------------------------
(* Evaluation.                                                             *)

\* compare
Compare(actual, cmp, lit) ==
    CASE cmp = "Eq" -> actual = lit
      [] cmp = "Ne" -> actual # lit
      [] cmp = "Lt" -> actual < lit
      [] cmp = "Lte" -> actual <= lit
      [] cmp = "Gt" -> actual > lit
      [] cmp = "Gte" -> actual >= lit

\* missing_field: of a field that is not there only "not equal" holds.
MissingField(cmp) == cmp = "Ne"

RECURSIVE Eval(_, _)

\* eval
Eval(e, p) ==
    CASE p.op = "and" -> Eval(e, p.left) /\ Eval(e, p.right)
      [] p.op = "or" -> Eval(e, p.left) \/ Eval(e, p.right)
      [] p.op = "not" -> ~Eval(e, p.arg)
      [] p.op = "field" -> IF p.field \in DOMAIN e
                           THEN Compare(e[p.field], p.cmp, p.value)
                           ELSE MissingField(p.cmp)

-----------------------------------------------------------------------------
(* Disjunctive normal form: a sequence of clauses, each a sequence of      *)
(* literals.  A negation stays at its literal: of a missing field Not(>)   *)
(* holds but <= does not.                                                  *)

\* Lit
Lit(p, negated) ==
    [field |-> p.field, cmp |-> p.cmp, value |-> p.value, negated |-> negated]

\* Lit::to_predicate
LitPredicate(l) ==
    LET p == Field(l.field, l.cmp, l.value) IN IF l.negated THEN Not(p) ELSE p

\* Every clause of one with every clause of the other.
Product(da, db) ==
    [k \in 1 .. Len(da) * Len(db) |->
        da[((k - 1) \div Len(db)) + 1] \o db[((k - 1) % Len(db)) + 1]]

RECURSIVE Dnf(_), DnfNot(_)

DnfNotMutant(p) ==
    CASE p.op = "field" -> <<<<Lit(p, TRUE)>>>>
      [] p.op = "not" -> Dnf(p.arg)
      [] p.op = "and" -> Product(DnfNot(p.left), DnfNot(p.right))
      [] p.op = "or" -> Product(DnfNot(p.left), DnfNot(p.right))

\* dnf_not
DnfNot(p) ==
    CASE p.op = "field" -> <<<<Lit(p, TRUE)>>>>
      [] p.op = "not" -> Dnf(p.arg)
      [] p.op = "and" -> DnfNot(p.left) \o DnfNot(p.right)
      [] p.op = "or" -> Product(DnfNot(p.left), DnfNot(p.right))

\* dnf
Dnf(p) ==
    CASE p.op = "field" -> <<<<Lit(p, FALSE)>>>>
      [] p.op = "and" -> Product(Dnf(p.left), Dnf(p.right))
      [] p.op = "or" -> Dnf(p.left) \o Dnf(p.right)
      [] p.op = "not" -> DnfNot(p.arg)
=============================================================================

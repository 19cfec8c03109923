--------------------------- MODULE MCEntityStore ---------------------------
(***************************************************************************)
(* Instances of EntityStore for TLC: two fields, a single-field index on   *)
(* the first and a composite index on both.                                *)
(***************************************************************************)
EXTENDS EntityStore

CONSTANTS a, b, v1, v2

OnA == <<a>>
OnBoth == <<a, b>>
Both == {OnA, OnBoth}
JustA == {OnA}
JustBoth == {OnBoth}
NoIndexes == {}

Field1(n, v) == [name |-> n, val |-> v]

\* Entities with each field missing or with some value.
Clean ==
    {<<>>} \cup {<<Field1(n, v)>> : n \in Names, v \in Values}
           \cup {<<Field1(a, v), Field1(b, w)>> : v \in Values, w \in Values}

\* Entities built with insert() of the same name twice.
Repeated == {<<Field1(a, v1), Field1(b, v1)>>, <<Field1(a, v1), Field1(a, v2), Field1(b, v1)>>}

AnyEntity == [Names -> Values \cup {None}]

\* Any: set a. Field(a, v1): remove a, set b. Absent: both.
SomeUpdates ==
    {[accept |-> AnyEntity, set |-> [n \in {a} |-> v2]],
     [accept |-> {x \in AnyEntity : x[a] = v1}, set |-> [n \in Names |-> IF n = a THEN None ELSE v2]],
     [accept |-> {NoEntity}, set |-> [n \in Names |-> v1]]}

NoUpdates == {}
=============================================================================

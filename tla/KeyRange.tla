------------------------------ MODULE KeyRange ------------------------------
(***************************************************************************)
(* Half-open key ranges [from, to), either end of which may be missing.    *)
(***************************************************************************)
EXTENDS Tables

CONSTANT Unbounded    \* a missing end of a range (`None')

ASSUME UnboundedAssumption == Unbounded \notin Keys

Bound == Keys \cup {Unbounded}

\* k >= start, k < end
From(k, from) == from # Unbounded => k >= from
Below(k, to) == to # Unbounded => k < to

InRange(k, from, to) == From(k, from) /\ Below(k, to)

\* The records of t in the range.
Slice(t, from, to) == [k \in Keys |-> IF InRange(k, from, to) THEN t[k] ELSE Absent]
=============================================================================

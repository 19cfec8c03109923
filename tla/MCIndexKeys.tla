---------------------------- MODULE MCIndexKeys ----------------------------
(* Two collections with ids whose bytes are 0xFF at the end, entities of    *)
(* which one id begins with the other, and values at the edges of each      *)
(* type.                                                                    *)
EXTENDS IndexKeys

Number(n) == Numeric("int", n)
Float(n) == Numeric("float", n)
Text(s) == Stringy("string", s)

MCEntityIds == {<<1>>, <<1, 1>>}

MCFieldValues ==
    {Numeric("null", 0), Numeric("bool", 1), Stringy("bytes", <<7>>)}
    \cup {Number(n) : n \in {-Half, -1, Base + 1}}
    \* zero, minus zero, minus infinity, a NaN with a sign
    \cup {Float(n) : n \in {0, Half, Half + Infinity, 2 * Half - 1}}
    \cup {Text(s) : s \in {<<>>, <<1>>, <<1, 0>>, <<1, 1>>}}

\* Strings of which one begins with another, to stand side by side.
PairValues == {Text(s) : s \in {<<1>>, <<1, 0>>}}

In(c, fields) == [collection |-> c, fields |-> fields]

MCContents ==
    {In(1, [f \in {1} |-> v]) : v \in MCFieldValues}
    \cup {In(1, [f \in {1, 56} |-> IF f = 1 THEN v ELSE w]) :
            v \in PairValues, w \in PairValues}
    \cup {In(63, [f \in {1, 56} |-> Text(<<1>>)])}

Index(id, c, fields) == [id |-> id, collection |-> c, fields |-> fields]

\* The composite index has the id of a field that has an index.
MCIndexes == {Index(0, 1, <<1>>), Index(2, 63, <<1>>), Index(1, 1, <<1, 56>>)}

MCNarrowIndexes == {Index(2, 63, <<1>>)}

MCBounds == {[kind |-> k, value |-> v] :
                k \in {"inclusive", "exclusive"}, v \in {Number(-1), Float(Half), Text(<<1>>)}}
=============================================================================

----------------------------- MODULE MCQueries -----------------------------
(* Queries over two fields of nine entities, one of every kind: each field  *)
(* missing, null (0), 1 or 2.  The texts are printed from syntax trees by   *)
(* the grammar of docs/design-lsmql.md, with parentheses only where it      *)
(* needs them.                                                              *)
EXTENDS Queries

CONSTANTS
    Level,        \* how deep the expressions of the texts nest: 1, 2 or 3
    TextIndexes,  \* the sets of indexes that texts meet
    Damage        \* the fields that cannot be read, in some of the databases

E(f, g) == [x \in (IF f < 0 THEN {} ELSE {1}) \cup (IF g < 0 THEN {} ELSE {2}) |->
                IF x = 1 THEN f ELSE g]

MCEntities ==
    [id \in 1 .. 9 |->
        CASE id = 1 -> E(2, -1) [] id = 2 -> E(1, 1) [] id = 3 -> E(1, 2)
          [] id = 4 -> E(-1, 1) [] id = 5 -> E(0, 2) [] id = 6 -> E(2, 1)
          [] id = 7 -> E(1, -1) [] id = 8 -> E(2, 2) [] id = 9 -> E(-1, 0)]

\* Entries of an entity that is gone, of a field that is gone, of a value that
\* has changed since.
Gone == {[index |-> <<1>>, values |-> <<1>>, id |-> 10],
         [index |-> <<2>>, values |-> <<2>>, id |-> 7],
         [index |-> <<1, 2>>, values |-> <<2, 1>>, id |-> 4]}
Moved == {[index |-> <<1>>, values |-> <<2>>, id |-> 2],
          [index |-> <<1, 2>>, values |-> <<1, 1>>, id |-> 6]}

Database(stale, damaged) ==
    [known |-> TRUE, entities |-> MCEntities, stale |-> stale, damaged |-> damaged]

Unknown == [known |-> FALSE, entities |-> <<>>, stale |-> {}, damaged |-> {}]

CleanDatabases == {Database({}, {})}
StaleDatabases == {Database({}, {}), Database(Gone \cup Moved, {})}
AllDatabases == StaleDatabases \cup {Database(Gone, {d}) : d \in Damage}

Schema(indexes) == [known |-> TRUE, indexes |-> indexes]
MCSchemas == {Schema(ix) : ix \in TextIndexes}

-----------------------------------------------------------------------------
(* Printing.                                                               *)

T(t) == [t |-> t, v |-> 0]
Tv(t, v) == [t |-> t, v |-> v]

\* Sequences with a separator in between.
Separated(seqs, sep) ==
    FoldLeft(LAMBDA out, s : out \o <<T(sep)>> \o s, Head(seqs), Tail(seqs))

PrintValue(v) ==
    CASE v.kind = "number" -> <<Tv("NUM", v.v)>>
      [] v.kind = "param" -> <<Tv("PARAM", v.v)>>
      [] v.kind = "null" -> <<T("NULL")>>

PrintPred(p) ==
    <<Tv("IDENT", p.field)>> \o
    CASE p.kind = "IsNull" -> <<T("IS"), T("NULL")>>
      [] p.kind = "IsAbsent" -> <<T("IS"), T("ABSENT")>>
      [] p.kind = "In" ->
            <<T("IN"), T("(")>> \o
            Separated([k \in DOMAIN p.values |-> PrintValue(p.values[k])], ",") \o <<T(")")>>
      [] p.kind = "Ne" /\ p.values[1] = NullValue -> <<T("IS"), T("NOT"), T("NULL")>>
      [] OTHER -> <<T(p.kind)>> \o PrintValue(p.values[1])

Rank(op) == CASE op = "or" -> 1 [] op = "and" -> 2 [] op = "not" -> 3 [] OTHER -> 4

RECURSIVE PrintExpr(_)

\* An operand that binds no tighter than its connective stands in parentheses.
Operand(e, op) ==
    IF Rank(e.op) > Rank(op) \/ (op = "not" /\ e.op = "not") THEN PrintExpr(e)
    ELSE <<T("(")>> \o PrintExpr(e) \o <<T(")")>>

PrintExpr(e) ==
    CASE e.op = "pred" -> PrintPred(e)
      [] e.op = "not" -> <<T("NOT")>> \o Operand(e.args[1], "not")
      [] OTHER -> Separated([k \in DOMAIN e.args |-> Operand(e.args[k], e.op)], e.op)

\* What comes after the source: the options of a text.
PrintOrder(order) ==
    IF order = <<>> THEN <<>>
    ELSE <<T("ORDER"), T("BY")>> \o
         Separated([k \in DOMAIN order |->
            <<Tv("IDENT", order[k].field)>> \o
            IF order[k].dir = "asc" THEN <<>> ELSE <<T("desc")>>], ",")

PrintNumber(t, n) == IF n <= 0 THEN <<>> ELSE <<T(t), Tv("NUM", n)>>

PrintItem(i) == IF i.agg = "none" THEN <<Tv("IDENT", i.field)>>
                ELSE <<T(i.agg), T("("), IF i.agg = "count" THEN T("*") ELSE Tv("IDENT", i.field),
                       T(")")>>

Text(items, source, where, order, limit, offset) ==
    <<T("SELECT")>> \o
    (IF items = <<>> THEN <<T("*")>>
     ELSE Separated([k \in DOMAIN items |-> PrintItem(items[k])], ",")) \o
    <<T("FROM"), Tv("IDENT", source)>> \o
    (IF where = <<>> THEN <<>> ELSE <<T("WHERE")>> \o PrintExpr(where[1])) \o
    PrintOrder(order) \o PrintNumber("LIMIT", limit) \o PrintNumber("OFFSET", offset) \o
    <<T("EOF")>>

-----------------------------------------------------------------------------
(* The expressions.                                                        *)

Compare2(kinds, fields, values) ==
    {Pred(k, f, <<Num(n)>>) : k \in kinds, f \in fields, n \in values}

OneAtom ==
    Compare2(Comparisons, {1, 2}, {1, 2}) \cup
    {Pred("IsNull", f, <<>>) : f \in {1, 2}} \cup
    {Pred("Ne", 1, <<NullValue>>)} \cup
    {Pred("In", f, <<Num(1), Num(2)>>) : f \in {1, 2}}

AtomsOnId == Compare2({"Eq", "Ne"}, {IdField}, {1})

\* Atoms of every shape for the pairs, and a few for the triples.
PairAtoms ==
    Compare2({"Eq", "Gt", "Le", "Ne"}, {1, 2}, {1}) \cup Compare2({"Ge", "Lt"}, {1, 2}, {2})
    \cup {Pred("In", 2, <<Num(1), Num(2)>>), Pred("IsNull", 1, <<>>)}

TripleAtoms ==
    {Pred("Eq", 1, <<Num(1)>>), Pred("Ge", 1, <<Num(2)>>), Pred("Gt", 2, <<Num(1)>>),
     Pred("Ne", 2, <<Num(1)>>), Pred("Le", 2, <<Num(2)>>)}

Connectives == {"and", "or"}

Pairs == {Group(c, <<x, y>>) : c \in Connectives, x \in PairAtoms, y \in PairAtoms}

Triples ==
    {Group(c, <<Group(d, <<x, y>>), z>>) :
        c \in Connectives, d \in Connectives, x \in TripleAtoms, y \in TripleAtoms,
        z \in TripleAtoms}

\* A group inside a group of the same connective would be printed with the
\* parentheses that the parser drops.
Flat(e) ==
    IF e.op \in Connectives /\ e.args[1].op = e.op
    THEN Group(e.op, e.args[1].args \o Tail(e.args)) ELSE e

Negated == {Neg(x) : x \in PairAtoms} \cup {Neg(Neg(x)) : x \in TripleAtoms}
    \cup {Neg(Group(c, <<x, y>>)) : c \in Connectives, x \in TripleAtoms, y \in TripleAtoms}
    \cup {Group(c, <<Neg(x), y>>) : c \in Connectives, x \in TripleAtoms, y \in TripleAtoms}

Exprs ==
    OneAtom \cup AtomsOnId
            \cup (IF Level > 1 THEN Pairs \cup Negated ELSE {})
            \cup (IF Level > 2 THEN {Flat(e) : e \in Triples} ELSE {})

-----------------------------------------------------------------------------
(* The texts.                                                              *)

S(f, dir) == [field |-> f, dir |-> dir]

Options ==
    {[order |-> <<>>, limit |-> NoLimit, offset |-> 0],
     [order |-> <<S(1, "asc")>>, limit |-> NoLimit, offset |-> 1],
     [order |-> <<S(1, "desc")>>, limit |-> 2, offset |-> 1],
     [order |-> <<S(2, "asc")>>, limit |-> 3, offset |-> 0],
     [order |-> <<>>, limit |-> 2, offset |-> 0]}

AskFor(where, o) ==
    [Everything EXCEPT !.where = where, !.order = o.order, !.limit = o.limit,
                       !.offset = o.offset]

Selects ==
    {[asked |-> AskFor(<<e>>, o), params |-> <<>>,
      tokens |-> Text(<<>>, KnownSource, <<e>>, o.order, o.limit, o.offset)] :
        e \in Exprs, o \in Options}

None == [order |-> <<>>, limit |-> NoLimit, offset |-> 0]
Ascending == [order |-> <<S(1, "asc")>>, limit |-> 3, offset |-> 0]
Descending == [order |-> <<S(1, "desc")>>, limit |-> 3, offset |-> 0]

Item(a, f) == [agg |-> a, field |-> f]

\* Aggregates, projections, parameters.
Others ==
    {[asked |-> [AskFor(<<e>>, o) EXCEPT !.aggregate = Item(a, IF a = "count" THEN 0 ELSE 1)],
      params |-> <<>>,
      tokens |-> Text(<<Item(a, 1)>>, KnownSource, <<e>>, o.order, o.limit, o.offset)] :
        e \in TripleAtoms, o \in {None, Ascending}, a \in Aggregates}
    \cup
    {[asked |-> [AskFor(<<>>, o) EXCEPT !.project = ProjectOn({f})], params |-> <<>>,
      tokens |-> Text(<<Item("none", f)>>, KnownSource, <<>>, o.order, o.limit, o.offset)] :
        f \in {IdField, 1, 2}, o \in Options}
    \cup
    {[asked |-> AskFor(<<Pred("Ge", 1, <<Num(n)>>)>>, Ascending),
      params |-> [p \in {7} |-> [kind |-> "int", v |-> n]],
      tokens |-> Text(<<>>, KnownSource, <<Pred("Ge", 1, <<Param(7)>>)>>, <<S(1, "asc")>>, 3, 0)] :
        n \in 1 .. 2}

NoQuery == [Everything EXCEPT !.valid = FALSE]
Refused(ts) == [asked |-> NoQuery, params |-> <<>>, tokens |-> ts]
SelectAll(source, where) == Text(<<>>, source, where, <<>>, NoLimit, 0)
Plain == SelectAll(KnownSource, <<Pred("Eq", 1, <<Num(1)>>)>>)

\* Texts that are no queries.
Malformed ==
    {Refused(t) : t \in
        {SelectAll(KnownSource + 1, <<>>),
         SelectAll(KnownSource, <<Pred("Eq", 3, <<Num(1)>>)>>),
         SelectAll(KnownSource, <<Pred("Eq", 1, <<Param(7)>>)>>),
         SelectAll(KnownSource, <<Pred("IsAbsent", 1, <<>>)>>),
         SelectAll(KnownSource, <<Pred("In", 1, <<Num(1), NullValue>>)>>),
         Text(<<Item("none", 1), Item("sum", 1)>>, KnownSource, <<>>, <<>>, NoLimit, 0),
         Text(<<Item("none", 3)>>, KnownSource, <<>>, <<>>, NoLimit, 0),
         Text(<<>>, KnownSource, <<>>, <<S(3, "asc")>>, NoLimit, 0),
         <<T("EXPLAIN")>> \o SelectAll(KnownSource, <<>>),
         SubSeq(SelectAll(KnownSource, <<>>), 1, 4) \o <<T("GROUP"), T("BY"), Tv("IDENT", 1), T("EOF")>>}}
    \cup {Refused(Append(SubSeq(Plain, 1, n), T("EOF"))) : n \in {0, 1, 2, 3, 5, 6, 7}}

MCTexts == Selects \cup Others \cup Malformed

\* Texts that are not in MCTexts because the answer is another one (README,
\* section 6).
PlainTexts ==
    {[asked |-> AskFor(<<e>>, o), params |-> <<>>,
      tokens |-> Text(<<>>, KnownSource, <<e>>, o.order, o.limit, o.offset)] :
        e \in OneAtom, o \in {None, Ascending, Descending}}

IdTexts ==
    {[asked |-> AskFor(<<e>>, None), params |-> <<>>,
      tokens |-> SelectAll(KnownSource, <<e>>)] : e \in AtomsOnId}

TwoOrders ==
    {[asked |-> [Everything EXCEPT !.order = <<S(f, d), S(3 - f, d)>>], params |-> <<>>,
      tokens |-> Text(<<>>, KnownSource, <<>>, <<S(f, d), S(3 - f, d)>>, NoLimit, 0)] :
        f \in {1, 2}, d \in {"asc", "desc"}}

Trailing ==
    {Refused(SubSeq(Plain, 1, Len(Plain) - 1) \o t \o <<T("EOF")>>) :
        t \in {<<T("WHERE")>>, <<Tv("NUM", 1)>>, Tail(Plain)}}

LargeParams ==
    {[asked |-> AskFor(<<Pred("Eq", 1, <<Num(n)>>)>>, None),
      params |-> [p \in {7} |-> [kind |-> "int", v |-> n]],
      tokens |-> Text(<<>>, KnownSource, <<Pred("Eq", 1, <<Param(7)>>)>>, <<>>, NoLimit, 0)] :
        n \in 1 .. 2}

-----------------------------------------------------------------------------
(* The calls of a program.                                                 *)

NoTexts == {}

MCFilters == {Pred("Ge", 1, <<Num(1)>>), Pred("Lt", 2, <<Num(2)>>),
              Group("or", <<Pred("Eq", 1, <<Num(2)>>), Pred("Eq", 2, <<Num(1)>>)>>)}
MCSorts == {S(1, "desc"), S(2, "asc")}
MCTotals == {Item("sum", 1), Item("count", 0)}

PairIndex == {{<<1, 2>>}}
OneIndex == {{<<1>>}}
DamagedDatabases == {Database({}, {d}) : d \in Damage}

NoDamage == {}
SomeDamage == {<<6, 1>>, <<6, 2>>}
NoIndex == {{}}
SomeIndexes == {{<<1>>}, {<<1>>, <<2>>}, {<<1>>, <<1, 2>>}, {<<2, 1>>}}
AllIndexes == SomeIndexes \cup {{}}
=============================================================================

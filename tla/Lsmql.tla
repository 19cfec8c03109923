-------------------------------- MODULE Lsmql --------------------------------
(***************************************************************************)
(* The query language (src/lsmql): the parser, the substitution of the     *)
(* parameters, the validation and the translation to a QueryBuilder.  The  *)
(* input is what the lexer makes of a text, a sequence of tokens [t, v]    *)
(* that ends with the token "EOF"; the v of an identifier is its number    *)
(* (of a field, of a collection), that of a number or a parameter its      *)
(* value or name.                                                          *)
(***************************************************************************)
EXTENDS QueryPlanner

CONSTANTS
    SchemaFields,    \* the fields the schema knows of the collection
    KnownSource,     \* the collection the schema knows
    MaxExact         \* the numbers up to it are exact in an f64

ASSUME LanguageAssumption == /\ MaxExact \in Nat
                             /\ 0 \notin SchemaFields

\* The field name "id", which check_field takes every collection to have.  To all
\* that comes after it is a name like others, of a field that no entity has.
IdField == 0

\* Value
Num(n) == [kind |-> "number", v |-> n]
NullValue == [kind |-> "null", v |-> 0]
Param(p) == [kind |-> "param", v |-> p]

\* Expr and Predicate
Pred(k, f, values) == [op |-> "pred", kind |-> k, field |-> f, values |-> values]
Group(op, args) == [op |-> op, args |-> args]
Neg(e) == [op |-> "not", args |-> <<e>>]

-----------------------------------------------------------------------------
(* The parser.  What is parsed from a place of the text is [ok, val, i], i *)
(* the place behind it.                                                    *)

Parsed(val, i) == [ok |-> TRUE, val |-> val, i |-> i]
ParseError == [ok |-> FALSE, val |-> 0, i |-> 0]

\* Parser::peek
Peek(ts, i) == IF i \in DOMAIN ts THEN ts[i].t ELSE "EOF"

\* Parser::expect after what was parsed last
Expect(ts, r, t) == IF r.ok /\ Peek(ts, r.i) = t THEN [r EXCEPT !.i = @ + 1] ELSE ParseError

Comparisons == {"Eq", "Ne", "Lt", "Le", "Gt", "Ge"}

Aggregates == {"count", "sum", "avg", "min", "max"}

\* parse_value
ParseValue(ts, i) ==
    CASE Peek(ts, i) = "NUM" -> Parsed(Num(ts[i].v), i + 1)
      [] Peek(ts, i) = "PARAM" -> Parsed(Param(ts[i].v), i + 1)
      [] Peek(ts, i) = "NULL" -> Parsed(NullValue, i + 1)
      [] OTHER -> ParseError

\* expect_ident
ParseIdent(ts, i) ==
    IF Peek(ts, i) = "IDENT" THEN Parsed(ts[i].v, i + 1) ELSE ParseError

\* parse_proj_item; an aggregate of no field has the field 0.
ParseItem(ts, i) ==
    IF Peek(ts, i) \in Aggregates
    THEN LET open == Expect(ts, Parsed(0, i + 1), "(")
             arg == CASE ~open.ok -> ParseError
                      [] open.ok /\ Peek(ts, open.i) = "*" -> Parsed(0, open.i + 1)
                      [] OTHER -> ParseIdent(ts, open.i)
             end == Expect(ts, arg, ")")
         IN  IF end.ok THEN Parsed([agg |-> ts[i].t, field |-> arg.val], end.i)
             ELSE ParseError
    ELSE LET f == ParseIdent(ts, i)
         IN  IF f.ok THEN Parsed([agg |-> "none", field |-> f.val], f.i) ELSE ParseError

\* An item of ORDER BY: ascending unless it says otherwise.
ParseOrder(ts, i) ==
    LET f == ParseIdent(ts, i)
    IN  CASE ~f.ok -> ParseError
          [] f.ok /\ Peek(ts, f.i) \in {"asc", "desc"} ->
                Parsed([field |-> f.val, dir |-> ts[f.i].t], f.i + 1)
          [] OTHER -> Parsed([field |-> f.val, dir |-> "asc"], f.i)

ParseElement(ts, kind, i) ==
    CASE kind = "value" -> ParseValue(ts, i)
      [] kind = "ident" -> ParseIdent(ts, i)
      [] kind = "item" -> ParseItem(ts, i)
      [] kind = "order" -> ParseOrder(ts, i)

RECURSIVE ParseMore(_, _, _, _)

\* The loops over elements with commas in between: one more is parsed, after
\* those that are.
ParseMore(ts, kind, done, one) ==
    CASE ~one.ok -> ParseError
      [] one.ok /\ Peek(ts, one.i) # "," -> Parsed(Append(done, one.val), one.i)
      [] OTHER -> ParseMore(ts, kind, Append(done, one.val), ParseElement(ts, kind, one.i + 1))

ParseList(ts, kind, i) == ParseMore(ts, kind, <<>>, ParseElement(ts, kind, i))

\* One more operand: a group of the same connective takes it in.
Join(op, left, right) ==
    IF left.op = op THEN Group(op, Append(left.args, right))
    ELSE Group(op, <<left, right>>)

\* A predicate with the values that were parsed.
WithValues(kind, f, r) == IF r.ok THEN Parsed(Pred(kind, f, r.val), r.i) ELSE ParseError

ParseIs(ts, f, i) ==
    CASE Peek(ts, i) = "NOT" /\ Peek(ts, i + 1) = "NULL" ->
            Parsed(Pred("Ne", f, <<NullValue>>), i + 2)
      [] Peek(ts, i) = "NULL" -> Parsed(Pred("IsNull", f, <<>>), i + 1)
      [] Peek(ts, i) = "ABSENT" -> Parsed(Pred("IsAbsent", f, <<>>), i + 1)
      [] OTHER -> ParseError

\* A value as the only one.
Only(r) == IF r.ok THEN [r EXCEPT !.val = <<@>>] ELSE ParseError

\* The predicate behind the name of a field.
ParseComparison(ts, f, i) ==
    CASE Peek(ts, i) = "IS" -> ParseIs(ts, f, i + 1)
      [] Peek(ts, i) = "IN" /\ Peek(ts, i + 1) = "(" ->
            WithValues("In", f, Expect(ts, ParseList(ts, "value", i + 2), ")"))
      [] Peek(ts, i) \in Comparisons ->
            WithValues(ts[i].t, f, Only(ParseValue(ts, i + 1)))
      [] OTHER -> ParseError

Tighter(op) == IF op = "or" THEN "and" ELSE "not"

JoinParsed(op, left, right) ==
    IF right.ok THEN Parsed(Join(op, left.val, right.val), right.i) ELSE ParseError

Negation(r) == IF r.ok THEN Parsed(Neg(r.val), r.i) ELSE ParseError

RECURSIVE ParseExpr(_, _, _), ParseRest(_, _, _)

\* parse_or and parse_and: more operands, from left to right.
ParseRest(ts, op, left) ==
    IF left.ok /\ Peek(ts, left.i) = op
    THEN ParseRest(ts, op, JoinParsed(op, left, ParseExpr(ts, Tighter(op), left.i + 1)))
    ELSE left

\* parse_or, parse_and, parse_not and parse_pred_expr: an expression of op and of
\* what binds tighter.
ParseExpr(ts, op, i) ==
    CASE op # "not" -> ParseRest(ts, op, ParseExpr(ts, Tighter(op), i))
      [] op = "not" /\ Peek(ts, i) = "NOT" -> Negation(ParseExpr(ts, "not", i + 1))
      [] op = "not" /\ Peek(ts, i) = "(" -> Expect(ts, ParseExpr(ts, "or", i + 1), ")")
      [] op = "not" /\ Peek(ts, i) = "IDENT" -> ParseComparison(ts, ts[i].v, i + 1)
      [] OTHER -> ParseError

BlankQuery ==
    [explain |-> FALSE, items |-> <<>>, source |-> 0, where |-> <<>>, order |-> <<>>,
     group |-> <<>>, limit |-> NoLimit, offset |-> 0]

\* The query r with one more part.
WithPart(r, name, part) ==
    IF part.ok THEN Parsed([r.val EXCEPT ![name] = part.val], part.i) ELSE ParseError

\* An optional part of a query, behind its keyword.
Optional(ts, r, keyword, name, ParsePart(_)) ==
    IF r.ok /\ Peek(ts, r.i) = keyword THEN WithPart(r, name, ParsePart(r.i + 1)) ELSE r

\* ORDER and GROUP are followed by BY.
ParseBy(ts, kind, i) == IF Peek(ts, i) = "BY" THEN ParseList(ts, kind, i + 1) ELSE ParseError

\* parse_usize
ParseCount(ts, i) == IF Peek(ts, i) = "NUM" THEN Parsed(ts[i].v, i + 1) ELSE ParseError

ParseExplain(ts) ==
    IF Peek(ts, 1) = "EXPLAIN" THEN Parsed([BlankQuery EXCEPT !.explain = TRUE], 2)
    ELSE Parsed(BlankQuery, 1)

\* parse_projection; `*' is no item.
ParseProjection(ts, r) ==
    CASE ~r.ok -> ParseError
      [] r.ok /\ Peek(ts, r.i) = "*" -> [r EXCEPT !.i = @ + 1]
      [] OTHER -> WithPart(r, "items", ParseList(ts, "item", r.i))

ParseSource(ts, r) ==
    IF r.ok THEN WithPart(r, "source", ParseIdent(ts, r.i)) ELSE ParseError

\* parse_query: the parts in their order.  What follows the last one is not
\* looked at.
Parse(ts) ==
    LET items == ParseProjection(ts, Expect(ts, ParseExplain(ts), "SELECT"))
        source == ParseSource(ts, Expect(ts, items, "FROM"))
        where == Optional(ts, source, "WHERE", "where", LAMBDA i : ParseExpr(ts, "or", i))
        order == Optional(ts, where, "ORDER", "order", LAMBDA i : ParseBy(ts, "order", i))
        group == Optional(ts, order, "GROUP", "group", LAMBDA i : ParseBy(ts, "ident", i))
        limit == Optional(ts, group, "LIMIT", "limit", LAMBDA i : ParseCount(ts, i))
    IN  Optional(ts, limit, "OFFSET", "offset", LAMBDA i : ParseCount(ts, i))

HasWhere(q) == q.where # <<>>

-----------------------------------------------------------------------------
(* Parameters and validation.                                              *)

\* An i64 becomes an f64 and an i64 again: above MaxExact only even numbers are
\* left.
AsFloat(n) == IF n <= MaxExact THEN n ELSE 2 * (n \div 2)

\* db_value_to_lsmql: bytes become null.
LiteralOf(p) == CASE p.kind = "int" -> Num(AsFloat(p.v)) [] p.kind = "null" -> NullValue
                  [] p.kind = "bytes" -> NullValue

BindValue(v, params) ==
    IF v.kind = "param" /\ v.v \in DOMAIN params THEN LiteralOf(params[v.v]) ELSE v

RECURSIVE Bind(_, _), Atoms(_)

\* subst_expr
Bind(e, params) ==
    IF e.op = "pred"
    THEN [e EXCEPT !.values = [k \in DOMAIN @ |-> BindValue(@[k], params)]]
    ELSE [e EXCEPT !.args = [k \in DOMAIN @ |-> Bind(@[k], params)]]

\* The predicates of an expression.
Atoms(e) ==
    IF e.op = "pred" THEN {e} ELSE UNION {Atoms(e.args[k]) : k \in DOMAIN e.args}

AtomsOf(q) == IF HasWhere(q) THEN Atoms(q.where) ELSE {}

\* substitute_params
Substitute(q, params) ==
    IF HasWhere(q) THEN [q EXCEPT !.where = Bind(q.where, params)] ELSE q

\* check_field
KnownField(f) == f \in SchemaFields \cup {IdField}

ValidPredMutant(p) ==
    /\ p.kind = "In" => \A k \in DOMAIN p.values : p.values[k].kind = p.values[1].kind
    /\ p.kind # "IsAbsent" => KnownField(p.field)

\* validate_pred: no parameter is left, and the values of IN are of one type.
ValidPred(p) ==
    /\ \A k \in DOMAIN p.values : p.values[k].kind # "param"
    /\ p.kind = "In" => \A k \in DOMAIN p.values : p.values[k].kind = p.values[1].kind
    /\ p.kind # "IsAbsent" => KnownField(p.field)

\* validate
Valid(q) ==
    /\ q.group = <<>>
    /\ q.source = KnownSource
    /\ \A k \in DOMAIN q.items : q.items[k].field # 0 \/ q.items[k].agg = "none" =>
            KnownField(q.items[k].field)
    /\ \A k \in DOMAIN q.order : KnownField(q.order[k].field)
    /\ \A p \in AtomsOf(q) : ValidPred(p)

-----------------------------------------------------------------------------
(* Translation.                                                            *)

Cmp(kind) == CASE kind = "Le" -> "Lte" [] kind = "Ge" -> "Gte" [] OTHER -> kind

\* to_atom: IN is a chain of equalities, IS NULL an equality with the stored
\* null, the value 0.
ToAtom(p) ==
    LET equals == [k \in DOMAIN p.values |-> Field(p.field, "Eq", p.values[k].v)]
    IN  CASE p.kind = "In" -> FoldLeft(Or, Head(equals), Tail(equals))
          [] p.kind = "IsNull" -> Field(p.field, "Eq", 0)
          [] p.kind \in Comparisons -> Field(p.field, Cmp(p.kind), p.values[1].v)

RECURSIVE ToPred(_)

\* to_pred
ToPred(e) ==
    IF e.op = "pred" THEN ToAtom(e)
    ELSE LET args == [k \in DOMAIN e.args |-> ToPred(e.args[k])]
         IN  CASE e.op = "not" -> Not(args[1])
               [] e.op = "and" -> FoldLeft(And, Head(args), Tail(args))
               [] e.op = "or" -> FoldLeft(Or, Head(args), Tail(args))

AggItems(q) == SelectSeq(q.items, LAMBDA x : x.agg # "none")
FieldItems(q) == SelectSeq(q.items, LAMBDA x : x.agg = "none")

\* to_builder has no plan for IS ABSENT and for fields beside aggregates.
Translatable(q) ==
    /\ \A p \in AtomsOf(q) : p.kind # "IsAbsent"
    /\ AggItems(q) = <<>> \/ FieldItems(q) = <<>>

\* The limit covers the rows that the offset skips afterwards.
ToLimit(p, q) == IF q.limit = NoLimit THEN p ELSE Limit(p, q.limit + q.offset)

NoAggregate == [agg |-> "none", field |-> 0]

\* QueryBuilder.projection is an Option: that of no field is not that of none.
NoProjection == <<>>
ProjectOn(fields) == <<fields>>

\* to_builder: a sort for each item of ORDER BY; of several aggregates the first.
ToBuilder(q) ==
    LET where == IF HasWhere(q) THEN AddFilter(Collection, ToPred(q.where)) ELSE Collection
        sorted == FoldLeft(LAMBDA p, o : Sort(p, o.field, o.dir), where, q.order)
    IN  [logical |-> ToLimit(sorted, q),
         project |-> IF FieldItems(q) = <<>> THEN NoProjection
                     ELSE ProjectOn({x.field : x \in Range(FieldItems(q))}),
         aggregate |-> IF AggItems(q) = <<>> THEN NoAggregate ELSE Head(AggItems(q))]
==============================================================================

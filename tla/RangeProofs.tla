---------------------------- MODULE RangeProofs ----------------------------
(***************************************************************************)
(* Theorems about the ranges that queries scan.  Of values, RangeMerge:    *)
(* for queries of any size over any integers, the range of a clause and    *)
(* the union of the clauses leave out nothing that they must hold, and the *)
(* range holds nothing else, unless two lower bounds tie.  Of keys,        *)
(* ByteKeys: Before is a strict total order of byte strings, and the range *)
(* that keycodec.rs makes of a prefix with successor holds exactly the     *)
(* keys that begin with the prefix.                                        *)
(***************************************************************************)
EXTENDS RangeMerge, ByteKeys, SequenceTheorems, WellFoundedInduction, TLAPS

-----------------------------------------------------------------------------
(* Ranges of values: the loops of the planner.                             *)

Bound == [kind : {"unbounded", "inclusive", "exclusive"}, value : Int]
ValueRange == [lower : Bound, upper : Bound]

\* Two lower bounds at one value, of which one lets it through.
Ties(a, b) ==
    /\ a.value = b.value
    /\ \/ a.kind = "inclusive" /\ b.kind = "exclusive"
       \/ a.kind = "exclusive" /\ b.kind = "inclusive"

-----------------------------------------------------------------------------
(* Bounds.                                                                 *)

\* Tightening a lower bound never leaves out what both let through, and lets
\* nothing else through unless the bounds tie.
LEMMA TightenLowerFacts ==
    ASSUME NEW a \in Bound, NEW b \in Bound, NEW v \in Int
    PROVE  /\ TightenLower(a, b) \in Bound
           /\ TightenLower(a, b) \in {a, b}
           /\ AboveLower(v, a) /\ AboveLower(v, b) => AboveLower(v, TightenLower(a, b))
           /\ ~Ties(a, b) /\ AboveLower(v, TightenLower(a, b)) =>
                AboveLower(v, a) /\ AboveLower(v, b)
BY DEF Bound, TightenLower, LowerStronger, AboveLower, Ties

\* Tightening an upper bound is exact.
LEMMA TightenUpperFacts ==
    ASSUME NEW a \in Bound, NEW b \in Bound, NEW v \in Int
    PROVE  /\ TightenUpper(a, b) \in Bound
           /\ BelowUpper(v, a) /\ BelowUpper(v, b) <=> BelowUpper(v, TightenUpper(a, b))
BY DEF Bound, TightenUpper, UpperStronger, BelowUpper

\* The bounds of an indexable literal say what the literal says.
LEMMA LiteralBounds ==
    ASSUME NEW l \in Literal, Indexable(l), NEW v \in Values
    PROVE  /\ LowerOf(l) \in Bound /\ UpperOf(l) \in Bound
           /\ Holds(l, v) <=> AboveLower(v, LowerOf(l)) /\ BelowUpper(v, UpperOf(l))
<1>1. l.cmp \in Cmps \ {"Ne"} /\ l.value \in Int /\ v \in Int
    BY ValuesAssumption DEF Literal, Indexable
<1>2. LowerOf(l) \in Bound /\ UpperOf(l) \in Bound
    BY <1>1 DEF LowerOf, UpperOf, Inclusive, Exclusive, Unbounded, Bound
<1>3. Holds(l, v) <=> AboveLower(v, LowerOf(l)) /\ BelowUpper(v, UpperOf(l))
    BY <1>1 DEF Cmps, Holds, LowerOf, UpperOf, Inclusive, Exclusive, Unbounded,
        AboveLower, BelowUpper
<1> QED
    BY <1>2, <1>3

\* What one round of merge_bounds does to a range.
LEMMA MergeLiteralFacts ==
    ASSUME NEW r \in ValueRange, NEW l \in Literal, NEW f, NEW v \in Values
    PROVE  /\ MergeLiteral(r, l, f) \in ValueRange
           /\ MergeLiteral(r, l, f).lower \in {r.lower, LowerOf(l)}
           /\ ~Bounds(l, f) => MergeLiteral(r, l, f) = r
           /\ Bounds(l, f) /\ Within(v, r) /\ Holds(l, v) =>
                Within(v, MergeLiteral(r, l, f))
           /\ Bounds(l, f) /\ ~Ties(r.lower, LowerOf(l))
                /\ Within(v, MergeLiteral(r, l, f)) => Within(v, r) /\ Holds(l, v)
<1>1. CASE ~Bounds(l, f)
    BY <1>1 DEF MergeLiteral
<1>2. CASE Bounds(l, f)
    <2>1. Indexable(l) /\ v \in Int
        BY <1>2, ValuesAssumption DEF Bounds
    <2>2. r.lower \in Bound /\ r.upper \in Bound
        BY DEF ValueRange
    <2>3. /\ LowerOf(l) \in Bound /\ UpperOf(l) \in Bound
          /\ Holds(l, v) <=> AboveLower(v, LowerOf(l)) /\ BelowUpper(v, UpperOf(l))
        BY <2>1, LiteralBounds
    <2> DEFINE lo == TightenLower(r.lower, LowerOf(l))
               hi == TightenUpper(r.upper, UpperOf(l))
    <2>4. /\ lo \in Bound /\ lo \in {r.lower, LowerOf(l)}
          /\ AboveLower(v, r.lower) /\ AboveLower(v, LowerOf(l)) => AboveLower(v, lo)
          /\ ~Ties(r.lower, LowerOf(l)) /\ AboveLower(v, lo) =>
                AboveLower(v, r.lower) /\ AboveLower(v, LowerOf(l))
        BY <2>1, <2>2, <2>3, TightenLowerFacts
    <2>5. /\ hi \in Bound
          /\ BelowUpper(v, r.upper) /\ BelowUpper(v, UpperOf(l)) <=> BelowUpper(v, hi)
        BY <2>1, <2>2, <2>3, TightenUpperFacts
    <2>6. MergeLiteral(r, l, f) = [lower |-> lo, upper |-> hi]
        BY <1>2 DEF MergeLiteral
    <2> HIDE DEF lo, hi
    <2> QED
        BY <1>2, <2>3, <2>4, <2>5, <2>6 DEF Within, ValueRange
<1> QED
    BY <1>1, <1>2

\* What one round of union_bounds does: unless the lower bounds tie, the wider
\* range holds both.
LEMMA WidenFacts ==
    ASSUME NEW r \in ValueRange, NEW s \in ValueRange, NEW v \in Int
    PROVE  /\ Widen(r, s) \in ValueRange
           /\ Widen(r, s).lower \in {r.lower, s.lower}
           /\ ~Ties(r.lower, s.lower) /\ (Within(v, r) \/ Within(v, s)) =>
                Within(v, Widen(r, s))
<1> DEFINE lo == IF LowerStronger(s.lower, r.lower) THEN r.lower ELSE s.lower
           hi == IF UpperStronger(s.upper, r.upper) THEN r.upper ELSE s.upper
<1>1. /\ r.lower \in Bound /\ r.upper \in Bound
      /\ s.lower \in Bound /\ s.upper \in Bound
    BY DEF ValueRange
<1>2. ~Ties(r.lower, s.lower) /\ (AboveLower(v, r.lower) \/ AboveLower(v, s.lower)) =>
        AboveLower(v, lo)
    BY <1>1 DEF Bound, Ties, AboveLower, LowerStronger
<1>3. BelowUpper(v, r.upper) \/ BelowUpper(v, s.upper) => BelowUpper(v, hi)
    BY <1>1 DEF Bound, BelowUpper, UpperStronger
<1>4. lo \in {r.lower, s.lower} /\ hi \in {r.upper, s.upper}
    OBVIOUS
<1>5. Widen(r, s) = [lower |-> lo, upper |-> hi]
    BY DEF Widen
<1> HIDE DEF lo, hi
<1> QED
    BY <1>1, <1>2, <1>3, <1>4, <1>5 DEF Within, ValueRange

-----------------------------------------------------------------------------
(* The inductive invariant: besides the properties, each merged lower      *)
(* bound is the lower bound of some literal, which is why a tie of bounds  *)
(* is a tie of literals.                                                   *)

Types ==
    /\ query \in Seq(Seq(Literal))
    /\ at \in Nat \ {0} /\ next \in Nat \ {0}
    /\ range \in ValueRange /\ union \in ValueRange

\* b lets everything through, or is the lower bound of a literal of the field.
FromLiteral(b) ==
    \/ b.kind = "unbounded"
    \/ \E c \in DOMAIN query : \E i \in DOMAIN query[c] :
         Bounds(query[c][i], field) /\ LowerOf(query[c][i]) = b

Origins == FromLiteral(range.lower) /\ FromLiteral(union.lower)

IInv == Types /\ Origins /\ RangeCovers /\ RangeExact /\ UnionCovers

LEMMA TypesOfQuery ==
    ASSUME query \in Seq(Seq(Literal)), NEW c \in DOMAIN query, NEW i \in DOMAIN query[c]
    PROVE  query[c][i] \in Literal
<1>1. query[c] \in Seq(Literal)
    OBVIOUS
<1> QED
    BY <1>1

\* Without a tie of two literals no two merged bounds tie.
LEMMA OriginsDoNotTie ==
    ASSUME Types, NoTies, NEW a, NEW b, FromLiteral(a), FromLiteral(b)
    PROVE  ~Ties(a, b)
<1> SUFFICES ASSUME Ties(a, b)
             PROVE  FALSE
    OBVIOUS
<1>1. a.kind \in {"inclusive", "exclusive"} /\ b.kind \in {"inclusive", "exclusive"}
    BY DEF Ties
<1>2. PICK c \in DOMAIN query : \E i \in DOMAIN query[c] :
        Bounds(query[c][i], field) /\ LowerOf(query[c][i]) = a
    BY <1>1 DEF FromLiteral
<1>3. PICK d \in DOMAIN query : \E j \in DOMAIN query[d] :
        Bounds(query[d][j], field) /\ LowerOf(query[d][j]) = b
    BY <1>1 DEF FromLiteral
<1>4. PICK i \in DOMAIN query[c] :
        Bounds(query[c][i], field) /\ LowerOf(query[c][i]) = a
    BY <1>2
<1>5. PICK j \in DOMAIN query[d] :
        Bounds(query[d][j], field) /\ LowerOf(query[d][j]) = b
    BY <1>3
<1>6. query[c][i].value = a.value /\ query[d][j].value = b.value
    BY <1>1, <1>4, <1>5 DEF LowerOf, Inclusive, Exclusive, Unbounded
<1>7. Tie(query[c][i], query[d][j]) \/ Tie(query[d][j], query[c][i])
    BY <1>4, <1>5, <1>6 DEF Tie, Ties
<1> QED
    BY <1>7 DEF NoTies

-----------------------------------------------------------------------------
(* The steps.                                                              *)

LEMMA InitInv == Init => IInv
<1> SUFFICES ASSUME Init
             PROVE  IInv
    OBVIOUS
<1> USE DEF Init
<1>1. EverythingRange \in ValueRange
    BY DEF EverythingRange, Unbounded, ValueRange, Bound
<1>2. Types
    BY <1>1, QueriesAssumption DEF Types
<1>3. Origins
    BY DEF Origins, FromLiteral, EverythingRange, Unbounded
<1>4. RangeCovers
    BY DEF RangeCovers, EverythingRange, Unbounded, Within, AboveLower, BelowUpper
<1>5. RangeExact
    <2> SUFFICES ASSUME at \in DOMAIN query, NEW v \in Values
                 PROVE  Passes(query[at], 1, v)
        BY DEF RangeExact
    <2>1. query[at] \in Seq(Literal)
        BY <1>2 DEF Types
    <2>2. \A i \in DOMAIN query[at] : ~(i < 1)
        BY <2>1
    <2> QED
        BY <2>2 DEF Passes
<1>6. UnionCovers
    BY <1>2 DEF UnionCovers, Types
<1> QED
    BY <1>2, <1>3, <1>4, <1>5, <1>6 DEF IInv

\* Passing one more literal.
LEMMA PassesOneMore ==
    ASSUME NEW clause \in Seq(Literal), NEW n \in DOMAIN clause, NEW v
    PROVE  Passes(clause, n + 1, v) <=>
             Passes(clause, n, v) /\ (Bounds(clause[n], field) => Holds(clause[n], v))
<1>1. \A i \in DOMAIN clause : i < n + 1 <=> i < n \/ i = n
    OBVIOUS
<1> HIDE DEF Bounds, Holds
<1> QED
    BY <1>1 DEF Passes

LEMMA TakeLiteralInv == IInv /\ TakeLiteral => IInv'
<1> SUFFICES ASSUME IInv, TakeLiteral
             PROVE  IInv'
    OBVIOUS
<1> DEFINE l == query[at][next]
           new == MergeLiteral(range, l, field)
<1>1. /\ at \in DOMAIN query /\ next \in DOMAIN query[at]
      /\ query' = query /\ field' = field /\ at' = at /\ union' = union
      /\ next' = next + 1 /\ range' = new
    BY DEF TakeLiteral, InClause
<1>2. query[at] \in Seq(Literal) /\ l \in Literal
    BY <1>1, TypesOfQuery DEF IInv, Types
<1>3. /\ range \in ValueRange /\ Types /\ RangeCovers /\ RangeExact /\ UnionCovers
      /\ FromLiteral(range.lower) /\ FromLiteral(union.lower)
    BY DEF IInv, Types, Origins
<1>4. \A v \in Values :
        /\ new \in ValueRange
        /\ new.lower \in {range.lower, LowerOf(l)}
        /\ ~Bounds(l, field) => new = range
        /\ Bounds(l, field) /\ Within(v, range) /\ Holds(l, v) => Within(v, new)
        /\ Bounds(l, field) /\ ~Ties(range.lower, LowerOf(l)) /\ Within(v, new) =>
              Within(v, range) /\ Holds(l, v)
    BY <1>2, <1>3, MergeLiteralFacts
<1>5. l.value \in Values
    BY <1>2 DEF Literal
<1>6. FromLiteral(new.lower)
    <2>1. CASE Bounds(l, field)
        <3>1. FromLiteral(LowerOf(l))
            BY <1>1, <2>1 DEF FromLiteral
        <3> QED
            BY <1>3, <1>4, <1>5, <3>1
    <2>2. CASE ~Bounds(l, field)
        BY <1>3, <1>4, <1>5, <2>2
    <2> QED
        BY <2>1, <2>2
<1>7. \A v \in Values : Passes(query[at], next + 1, v) <=>
        Passes(query[at], next, v) /\ (Bounds(l, field) => Holds(l, v))
    BY <1>1, <1>2, PassesOneMore
<1> HIDE DEF l, new
<1>8. Types'
    BY <1>1, <1>3, <1>4, <1>5 DEF Types
<1>9. Origins'
    BY <1>1, <1>3, <1>6 DEF Origins, FromLiteral, Bounds
<1>10. RangeCovers'
    <2> SUFFICES ASSUME NEW v \in Values, Passes(query[at], next + 1, v)
                 PROVE  Within(v, new)
        BY <1>1 DEF RangeCovers, Passes, Bounds
    <2>1. Within(v, range)
        BY <1>1, <1>3, <1>7 DEF RangeCovers
    <2> QED
        BY <2>1, <1>4, <1>7
<1>11. RangeExact'
    <2> SUFFICES ASSUME NoTies, NEW v \in Values, Within(v, new)
                 PROVE  Passes(query[at], next + 1, v)
        BY <1>1 DEF RangeExact, Passes, Bounds, NoTies, Tie
    <2>1. Bounds(l, field) => ~Ties(range.lower, LowerOf(l))
        <3> SUFFICES ASSUME Bounds(l, field)
                     PROVE  ~Ties(range.lower, LowerOf(l))
            OBVIOUS
        <3>1. FromLiteral(LowerOf(l))
            BY <1>1 DEF FromLiteral, l
        <3> QED
            BY <1>3, <3>1, OriginsDoNotTie
    <2>2. Within(v, range) /\ (Bounds(l, field) => Holds(l, v))
        BY <1>4, <2>1
    <2> QED
        BY <1>1, <1>3, <1>7, <2>2 DEF RangeExact
<1>12. UnionCovers'
    BY <1>1, <1>3 DEF UnionCovers, Passes, Bounds, NoTies, Tie
<1> QED
    BY <1>8, <1>9, <1>10, <1>11, <1>12 DEF IInv

LEMMA TakeClauseInv == IInv /\ TakeClause => IInv'
<1> SUFFICES ASSUME IInv, TakeClause
             PROVE  IInv'
    OBVIOUS
<1> DEFINE wide == Widen(union, range)
<1>1. /\ at \in DOMAIN query /\ next \notin DOMAIN query[at]
      /\ query' = query /\ field' = field /\ at' = at + 1 /\ next' = 1
      /\ range' = EverythingRange /\ union' = IF at = 1 THEN range ELSE wide
    BY DEF TakeClause
<1>2. /\ Types /\ RangeCovers /\ UnionCovers
      /\ FromLiteral(range.lower) /\ FromLiteral(union.lower)
    BY DEF IInv, Origins
<1>3. /\ at \in Nat \ {0} /\ next \in Nat \ {0} /\ range \in ValueRange /\ union \in ValueRange
      /\ query \in Seq(Seq(Literal))
    BY <1>2 DEF Types
<1>4. EverythingRange \in ValueRange /\ FromLiteral(EverythingRange.lower)
      /\ \A v : Within(v, EverythingRange)
    BY DEF EverythingRange, Unbounded, ValueRange, Bound, FromLiteral, Within, AboveLower,
        BelowUpper
<1>5. wide \in ValueRange /\ wide.lower \in {union.lower, range.lower}
    BY <1>3, WidenFacts
<1>6. NoTies => \A v \in Values : Within(v, union) \/ Within(v, range) => Within(v, wide)
    BY <1>2, <1>3, WidenFacts, OriginsDoNotTie, ValuesAssumption
<1> HIDE DEF wide
<1>7. Types'
    BY <1>1, <1>3, <1>4, <1>5 DEF Types
<1>8. Origins'
    BY <1>1, <1>2, <1>4, <1>5 DEF Origins, FromLiteral, Bounds
<1>9. RangeCovers'
    BY <1>1, <1>4 DEF RangeCovers
<1>10. RangeExact'
    <2>1. \A c \in DOMAIN query : \A i \in DOMAIN query[c] : ~(i < 1)
        BY <1>3
    <2> QED
        BY <1>1, <2>1 DEF RangeExact, Passes
<1>11. UnionCovers'
    <2> SUFFICES ASSUME NoTies, NEW c \in DOMAIN query, c < at + 1, NEW v \in Values,
                        Passes(query[c], Len(query[c]) + 1, v)
                 PROVE  Within(v, union')
        BY <1>1 DEF UnionCovers, Passes, Bounds, NoTies, Tie
    <2>1. CASE c < at
        <3>1. Within(v, union) /\ at # 1
            BY <1>2, <1>3, <2>1 DEF UnionCovers
        <3> QED
            BY <1>1, <1>6, <3>1
    <2>2. CASE c = at
        <3>1. query[at] \in Seq(Literal)
            BY <1>1, <1>3
        <3>2. \A i \in DOMAIN query[at] : i < Len(query[at]) + 1
            BY <3>1
        <3>3. Passes(query[at], next, v)
            BY <2>2, <3>2 DEF Passes
        <3>4. Within(v, range)
            BY <1>1, <1>2, <3>3 DEF RangeCovers
        <3> QED
            BY <1>1, <1>6, <3>4
    <2>3. c \in Nat
        BY <1>3
    <2> QED
        BY <1>3, <2>1, <2>2, <2>3
<1> QED
    BY <1>7, <1>8, <1>9, <1>10, <1>11 DEF IInv

LEMMA NextInv == IInv /\ [Next]_vars => IInv'
<1> SUFFICES ASSUME IInv, [Next]_vars
             PROVE  IInv'
    OBVIOUS
<1>1. CASE TakeLiteral
    BY <1>1, TakeLiteralInv
<1>2. CASE TakeClause
    BY <1>2, TakeClauseInv
<1>3. CASE UNCHANGED vars
    BY <1>3 DEF vars, IInv, Types, Origins, FromLiteral, RangeCovers, RangeExact,
        UnionCovers, Passes, Bounds, NoTies, Tie
<1> QED
    BY <1>1, <1>2, <1>3 DEF Next

-----------------------------------------------------------------------------
(* The theorems.                                                           *)

THEOREM Invariance == Spec => []IInv
<1>1. IInv /\ [Next]_vars => IInv'
    BY NextInv
<1> QED
    BY InitInv, <1>1, PTL DEF Spec

\* The range that merge_bounds makes of a clause, at every moment of its loop,
\* leaves out no value that the clause's literals let through.
THEOREM RangeCoversAlways == Spec => []RangeCovers
<1>1. IInv => RangeCovers
    BY DEF IInv
<1> QED
    BY Invariance, <1>1, PTL

\* Unless an inclusive and an exclusive lower bound lie at one value, the range
\* holds nothing else, so that dropping the literals from the filter is right.
THEOREM RangeExactAlways == Spec => []RangeExact
<1>1. IInv => RangeExact
    BY DEF IInv
<1> QED
    BY Invariance, <1>1, PTL

\* Unless lower bounds tie, the union that union_bounds makes covers all the
\* clauses it has seen.
THEOREM UnionCoversAlways == Spec => []UnionCovers
<1>1. IInv => UnionCovers
    BY DEF IInv
<1> QED
    BY Invariance, <1>1, PTL

-----------------------------------------------------------------------------
(* Ranges of keys: prefixes.                                               *)

\* A non-empty set of places in a string has a first one.
LEMMA FirstPlace ==
    ASSUME NEW T, T \subseteq Nat, T # {}
    PROVE  \E x \in T : \A y \in T : x <= y
<1> DEFINE R == OpToRel(<, Nat)
<1>1. IsWellFoundedOn(R, Nat)
    BY NatLessThanWellFounded
<1>2. \A x, y \in Nat : y < x => <<y, x>> \in R
    BY DEF OpToRel
<1> HIDE DEF R
<1>3. \E x \in T : \A y \in T : ~(<<y, x>> \in R)
    BY <1>1, WFMin
<1>4. \A x \in T : x \in Nat
    OBVIOUS
<1>5. \E x \in T : \A y \in T : ~(y < x)
    BY <1>2, <1>3, <1>4
<1> QED  BY <1>4, <1>5

\* Strings are functions to numbers.
LEMMA Elements ==
    ASSUME NEW s \in ByteString
    PROVE  /\ Len(s) \in Nat
           /\ DOMAIN s = 1 .. Len(s)
           /\ \A i \in DOMAIN s : s[i] \in Int /\ 0 <= s[i] /\ s[i] <= Top
<1>1. Len(s) \in Nat /\ DOMAIN s = 1 .. Len(s)
    BY DEF ByteString
<1>2. \A i \in DOMAIN s : s[i] \in Byte
    BY DEF ByteString
<1>3. \A b \in Byte : b \in Int /\ 0 <= b /\ b <= Top
    BY TopAssumption DEF Byte
<1> QED  BY <1>1, <1>2, <1>3

\* Where Before(s, t) looks: the first place at which t goes on or differs.
DiffersAt(s, t, n) ==
    /\ n \in DOMAIN t
    /\ n <= Len(s) + 1
    /\ \A i \in 1 .. n - 1 : s[i] = t[i]
    /\ n = Len(s) + 1 \/ (n <= Len(s) /\ s[n] # t[n])

\* Two strings of which the first does not begin with the second differ
\* somewhere for the first time.
LEMMA FirstDifference ==
    ASSUME NEW s \in ByteString, NEW t \in ByteString, ~StartsWith(s, t)
    PROVE  \E n \in DOMAIN t : DiffersAt(s, t, n)
<1> DEFINE D == {n \in DOMAIN t : n > Len(s) \/ s[n] # t[n]}
<1>1. Len(s) \in Nat /\ Len(t) \in Nat /\ DOMAIN s = 1 .. Len(s) /\ DOMAIN t = 1 .. Len(t)
    BY DEF ByteString
<1>2. D # {}
    <2>1. CASE Len(t) <= Len(s)
        BY <1>1, <2>1 DEF StartsWith
    <2>2. CASE Len(s) < Len(t)
        <3>1. Len(s) + 1 \in D
            BY <1>1, <2>2
        <3> QED  BY <3>1
    <2> QED  BY <1>1, <2>1, <2>2
<1>3. D \subseteq Nat
    BY <1>1
<1>4. PICK n \in D : \A m \in D : n <= m
    BY <1>2, <1>3, FirstPlace
<1>5. n \in DOMAIN t /\ n \in Nat
    BY <1>1
<1>6. \A i \in 1 .. n - 1 : i <= Len(s) /\ s[i] = t[i]
    <2> SUFFICES ASSUME NEW i \in 1 .. n - 1  PROVE i <= Len(s) /\ s[i] = t[i]
        OBVIOUS
    <2>1. i \in DOMAIN t /\ ~(n <= i)
        BY <1>1, <1>5
    <2>2. i \notin D
        BY <1>4, <2>1
    <2> QED  BY <1>1, <2>1, <2>2
<1>7. n <= Len(s) + 1
    <2>1. CASE n = 1
        BY <1>1, <2>1
    <2>2. CASE n # 1
        <3>1. n - 1 \in 1 .. n - 1
            BY <1>1, <1>5, <2>2
        <3> QED  BY <1>1, <1>5, <1>6, <3>1
    <2> QED  BY <2>1, <2>2
<1>8. n = Len(s) + 1 \/ (n <= Len(s) /\ s[n] # t[n])
    BY <1>1, <1>4, <1>5, <1>7
<1> QED  BY <1>5, <1>6, <1>7, <1>8 DEF DiffersAt

\* Byte strings that begin with each other are the same.
LEMMA StartsWithBoth ==
    ASSUME NEW s \in ByteString, NEW t \in ByteString, StartsWith(s, t), StartsWith(t, s)
    PROVE  s = t
BY DEF ByteString, StartsWith

-----------------------------------------------------------------------------
(* The order.                                                              *)

\* Before compares keys as the engine does: no key comes before itself, of two
\* keys one comes first, and the order is transitive.
THEOREM BeforeIrreflexive ==
    ASSUME NEW s \in ByteString
    PROVE  ~Before(s, s)
<1>1. \A n \in DOMAIN s : s[n] \in Int /\ n # Len(s) + 1
    BY Elements
<1> QED  BY <1>1 DEF Before

THEOREM BeforeTotal ==
    ASSUME NEW s \in ByteString, NEW t \in ByteString, s # t
    PROVE  Before(s, t) \/ Before(t, s)
<1>1. CASE StartsWith(s, t)
    <2>1. ~StartsWith(t, s)
        BY <1>1, StartsWithBoth
    <2>2. PICK n \in DOMAIN s : DiffersAt(t, s, n)
        BY <2>1, FirstDifference
    <2>3. n = Len(t) + 1
        BY <1>1, <2>2 DEF DiffersAt, StartsWith, ByteString
    <2> QED  BY <2>2, <2>3 DEF DiffersAt, Before
<1>2. CASE ~StartsWith(s, t)
    <2>1. PICK n \in DOMAIN t : DiffersAt(s, t, n)
        BY <1>2, FirstDifference
    <2>2. CASE n = Len(s) + 1
        BY <2>1, <2>2 DEF DiffersAt, Before
    <2>3. CASE n # Len(s) + 1
        <3>1. n \in DOMAIN s /\ s[n] \in Int /\ t[n] \in Int /\ s[n] # t[n]
            BY <2>1, <2>3, Elements DEF DiffersAt
        <3>2. \A i \in 1 .. n - 1 : s[i] = t[i]
            BY <2>1 DEF DiffersAt
        <3>3. CASE s[n] < t[n]
            BY <2>1, <3>3 DEF DiffersAt, Before
        <3>4. CASE t[n] < s[n]
            <4>1. n <= Len(t) + 1
                BY <2>1 DEF ByteString
            <4> QED  BY <3>1, <3>2, <3>4, <4>1 DEF Before
        <3> QED  BY <3>1, <3>3, <3>4
    <2> QED  BY <2>2, <2>3
<1> QED  BY <1>1, <1>2

THEOREM BeforeTransitive ==
    ASSUME NEW r \in ByteString, NEW s \in ByteString, NEW t \in ByteString,
           Before(r, s), Before(s, t)
    PROVE  Before(r, t)
<1>1. /\ Len(r) \in Nat /\ Len(s) \in Nat /\ Len(t) \in Nat
      /\ DOMAIN r = 1 .. Len(r) /\ DOMAIN s = 1 .. Len(s) /\ DOMAIN t = 1 .. Len(t)
    BY DEF ByteString
<1>2. /\ \A i \in DOMAIN r : r[i] \in Int
      /\ \A i \in DOMAIN s : s[i] \in Int
      /\ \A i \in DOMAIN t : t[i] \in Int
    BY Elements
<1>3. PICK n \in DOMAIN s : /\ n <= Len(r) + 1
                            /\ \A i \in 1 .. n - 1 : r[i] = s[i]
                            /\ n = Len(r) + 1 \/ r[n] < s[n]
    BY DEF Before
<1>4. PICK m \in DOMAIN t : /\ m <= Len(s) + 1
                            /\ \A i \in 1 .. m - 1 : s[i] = t[i]
                            /\ m = Len(s) + 1 \/ s[m] < t[m]
    BY DEF Before
<1>5. CASE m < n
    <2>1. m <= Len(r) + 1 /\ m \in DOMAIN s
        BY <1>1, <1>3, <1>4, <1>5
    <2>2. \A i \in 1 .. m - 1 : r[i] = t[i]
        BY <1>1, <1>3, <1>4, <1>5
    <2>3. r[m] = s[m] /\ s[m] < t[m]
        BY <1>1, <1>3, <1>4, <1>5, <2>1
    <2> QED  BY <1>4, <2>1, <2>2, <2>3 DEF Before
<1>6. CASE m >= n
    <2>1. n \in DOMAIN t
        BY <1>1, <1>3, <1>4, <1>6
    <2>2. \A i \in 1 .. n - 1 : r[i] = t[i]
        BY <1>1, <1>3, <1>4, <1>6
    <2>3. n = Len(r) + 1 \/ r[n] < t[n]
        <3>1. CASE n = Len(r) + 1
            BY <3>1
        <3>2. CASE n # Len(r) + 1
            <4>1. n \in DOMAIN r /\ r[n] < s[n]
                BY <1>1, <1>3, <3>2
            <4>2. s[n] = t[n] \/ s[n] < t[n]
                BY <1>1, <1>3, <1>4, <1>6
            <4>3. r[n] \in Int /\ s[n] \in Int /\ t[n] \in Int
                BY <1>2, <1>3, <2>1, <4>1
            <4> QED  BY <4>1, <4>2, <4>3
        <3> QED  BY <3>1, <3>2
    <2> QED  BY <1>3, <2>1, <2>2, <2>3 DEF Before
<1> QED  BY <1>1, <1>3, <1>4, <1>5, <1>6
-----------------------------------------------------------------------------
(* Prefixes.                                                               *)

Below(p) == {i \in DOMAIN p : p[i] # Top}

\* What successor computes: the bytes before the last one that can be raised,
\* and that one raised.
LEMMA SuccessorIs ==
    ASSUME NEW p \in ByteString, Below(p) # {}
    PROVE  \E last \in Below(p) :
             /\ \A j \in Below(p) : j <= last
             /\ Successor(p) = Append(SubSeq(p, 1, last - 1), p[last] + 1)
<1> DEFINE D == {Len(p) - i : i \in Below(p)}
<1>1. Len(p) \in Nat /\ DOMAIN p = 1 .. Len(p)
    BY Elements
<1>2. D \subseteq Nat /\ D # {}
    BY <1>1 DEF Below
<1>3. PICK d \in D : \A e \in D : d <= e
    BY <1>2, FirstPlace
<1>4. PICK i \in Below(p) : d = Len(p) - i
    BY <1>3
<1>5. \A j \in Below(p) : j <= i
    <2> SUFFICES ASSUME NEW j \in Below(p)  PROVE j <= i
        OBVIOUS
    <2>1. Len(p) - i <= Len(p) - j
        BY <1>3, <1>4
    <2> QED  BY <1>1, <1>4, <2>1 DEF Below
<1> DEFINE last == CHOOSE k \in Below(p) : \A j \in Below(p) : j <= k
<1>6. last \in Below(p) /\ \A j \in Below(p) : j <= last
    BY <1>4, <1>5
<1>7. Successor(p) = Append(SubSeq(p, 1, last - 1), p[last] + 1)
    BY DEF Successor, Below
<1> HIDE DEF last
<1> QED  BY <1>6, <1>7

\* The same, byte by byte.
LEMMA SuccessorBytes ==
    ASSUME NEW p \in ByteString, Below(p) # {}
    PROVE  \E last \in Below(p) :
             /\ \A j \in Below(p) : j <= last
             /\ Len(Successor(p)) = last
             /\ DOMAIN Successor(p) = 1 .. last
             /\ \A i \in 1 .. last - 1 : Successor(p)[i] = p[i]
             /\ Successor(p)[last] = p[last] + 1
<1>1. PICK last \in Below(p) :
             /\ \A j \in Below(p) : j <= last
             /\ Successor(p) = Append(SubSeq(p, 1, last - 1), p[last] + 1)
    BY SuccessorIs
<1>2. last \in 1 .. Len(p) /\ Len(p) \in Nat /\ p \in Seq(Int) /\ p[last] + 1 \in Int
    <2>1. Len(p) \in Nat /\ DOMAIN p = 1 .. Len(p) /\ \A i \in DOMAIN p : p[i] \in Int
        BY Elements
    <2>2. p \in Seq(Int)
        <3>1. p = [i \in 1 .. Len(p) |-> p[i]]
            BY DEF ByteString
        <3>2. p \in [1 .. Len(p) -> Int]
            BY <2>1, <3>1
        <3> QED  BY <2>1, <3>2, SeqDef
    <2> QED  BY <2>1, <2>2 DEF Below
<1> DEFINE q == SubSeq(p, 1, last - 1)
<1>3. /\ q \in Seq(Int) /\ Len(q) = last - 1
      /\ \A i \in 1 .. last - 1 : q[i] = p[i]
    BY <1>2
<1> HIDE DEF q
<1>4. /\ Len(Append(q, p[last] + 1)) = last
      /\ DOMAIN Append(q, p[last] + 1) = 1 .. last
      /\ \A i \in 1 .. last - 1 : Append(q, p[last] + 1)[i] = q[i]
      /\ Append(q, p[last] + 1)[last] = p[last] + 1
    BY <1>2, <1>3
<1>5. Successor(p) = Append(q, p[last] + 1)
    BY <1>1 DEF q
<1> QED  BY <1>1, <1>3, <1>4, <1>5

\* The range of a prefix holds exactly the keys that begin with the prefix,
\* whatever its last bytes are: no record of another entity, collection or
\* index is read or deleted with it, and none of its own is left out
\* (entity_range, and clear and rebuild of index.rs).
THEOREM PrefixRangeExact ==
    ASSUME NEW p \in ByteString, NEW k \in ByteString
    PROVE  InRange(k, PrefixRange(p)) <=> StartsWith(k, p)
<1>1. /\ Len(p) \in Nat /\ DOMAIN p = 1 .. Len(p)
      /\ Len(k) \in Nat /\ DOMAIN k = 1 .. Len(k)
      /\ \A i \in DOMAIN p : p[i] \in Int /\ p[i] <= Top
      /\ \A i \in DOMAIN k : k[i] \in Int /\ k[i] <= Top
    BY Elements
<1>2. InRange(k, PrefixRange(p)) <=>
        ~Before(k, p) /\ (Successor(p) = <<>> \/ Before(k, Successor(p)))
    BY DEF InRange, PrefixRange, NoKey
<1>3. ASSUME StartsWith(k, p)  PROVE InRange(k, PrefixRange(p))
    <2>1. ~Before(k, p)
        BY <1>1, <1>3 DEF Before, StartsWith
    <2>2. CASE Below(p) = {}
        <3>1. Successor(p) = <<>>
            BY <2>2 DEF Successor, Below, NoKey
        <3> QED  BY <1>2, <2>1, <3>1
    <2>3. CASE Below(p) # {}
        <3>1. PICK last \in Below(p) :
                 /\ Len(Successor(p)) = last
                 /\ DOMAIN Successor(p) = 1 .. last
                 /\ \A i \in 1 .. last - 1 : Successor(p)[i] = p[i]
                 /\ Successor(p)[last] = p[last] + 1
            BY <2>3, SuccessorBytes
        <3>2. last \in DOMAIN p /\ last \in DOMAIN k /\ k[last] = p[last]
            BY <1>1, <1>3 DEF Below, StartsWith
        <3>3. \A i \in 1 .. last - 1 : k[i] = Successor(p)[i]
            BY <1>1, <1>3, <3>1, <3>2 DEF StartsWith
        <3>4. last \in DOMAIN Successor(p) /\ last <= Len(k) + 1
            BY <1>1, <3>1, <3>2
        <3>5. k[last] < Successor(p)[last]
            BY <1>1, <3>1, <3>2
        <3>6. Before(k, Successor(p))
            BY <3>3, <3>4, <3>5 DEF Before
        <3> QED  BY <1>2, <2>1, <3>6
    <2> QED  BY <2>2, <2>3
<1>4. ASSUME InRange(k, PrefixRange(p)), ~StartsWith(k, p)  PROVE FALSE
    <2>1. PICK n \in DOMAIN p : DiffersAt(k, p, n)
        BY <1>4, FirstDifference
    <2>2. ~Before(k, p)
        BY <1>2, <1>4
    <2>3. n <= Len(k) /\ k[n] > p[n]
        <3>1. n # Len(k) + 1
            BY <2>1, <2>2 DEF DiffersAt, Before
        <3>2. ~(k[n] < p[n])
            BY <2>1, <2>2 DEF DiffersAt, Before
        <3> QED  BY <1>1, <2>1, <3>1, <3>2 DEF DiffersAt
    <2>4. n \in Below(p)
        BY <1>1, <2>3 DEF Below
    <2>5. PICK last \in Below(p) :
             /\ \A j \in Below(p) : j <= last
             /\ Len(Successor(p)) = last
             /\ DOMAIN Successor(p) = 1 .. last
             /\ \A i \in 1 .. last - 1 : Successor(p)[i] = p[i]
             /\ Successor(p)[last] = p[last] + 1
        BY <2>4, SuccessorBytes
    <2>6. n <= last /\ last \in DOMAIN p /\ n \in Nat /\ last \in Nat
        BY <1>1, <2>4, <2>5 DEF Below
    <2>7. Before(k, Successor(p))
        <3>1. Successor(p) # <<>>
            BY <2>5, <2>6, <1>1
        <3> QED  BY <1>2, <1>4, <3>1
    <2>8. PICK m \in 1 .. last :
             /\ m <= Len(k) + 1
             /\ \A i \in 1 .. m - 1 : k[i] = Successor(p)[i]
             /\ m = Len(k) + 1 \/ k[m] < Successor(p)[m]
        BY <2>5, <2>7 DEF Before
    <2>9. CASE m < n
        <3>1. m \in DOMAIN k /\ m # Len(k) + 1 /\ k[m] = p[m]
            BY <1>1, <2>1, <2>3, <2>6, <2>9 DEF DiffersAt
        <3>2. Successor(p)[m] = p[m]
            BY <2>5, <2>6, <2>9
        <3> QED  BY <1>1, <2>8, <3>1, <3>2
    <2>10. CASE m = n
        <3>1. k[n] < Successor(p)[n]
            BY <1>1, <2>3, <2>8, <2>10
        <3>2. CASE n < last
            <4>1. Successor(p)[n] = p[n]
                BY <1>1, <2>5, <2>6, <3>2
            <4> QED  BY <1>1, <2>3, <2>6, <3>1, <4>1
        <3>3. CASE n = last
            <4>1. k[n] < p[n] + 1 /\ k[n] \in Int /\ p[n] \in Int
                BY <1>1, <2>3, <2>5, <2>6, <3>1, <3>3
            <4> QED  BY <2>3, <4>1
        <3> QED  BY <2>6, <3>2, <3>3
    <2>11. CASE n < m
        <3>1. k[n] = Successor(p)[n]
            BY <1>1, <2>6, <2>8, <2>11
        <3>2. Successor(p)[n] = p[n]
            BY <1>1, <2>5, <2>6, <2>8, <2>11
        <3> QED  BY <1>1, <2>3, <2>6, <3>1, <3>2
    <2> QED  BY <2>6, <2>8, <2>9, <2>10, <2>11
<1> QED  BY <1>3, <1>4
=============================================================================

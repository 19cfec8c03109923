---------------------------- MODULE MCRangeMerge ----------------------------
(* Every query of two clauses with at most two literals each, and of one   *)
(* clause with three, over a field and a second one.                       *)
EXTENDS RangeMerge, SequencesExt

MCValues == 0 .. 4

Positive == [field : {"a"}, cmp : Cmps, value : 1 .. 2, negated : {FALSE}]

\* One literal of another field, and a negated one.
Others == {[field |-> "b", cmp |-> "Gt", value |-> 2, negated |-> FALSE],
           [field |-> "a", cmp |-> "Lt", value |-> 2, negated |-> TRUE]}

MCLiterals == Positive \cup Others

MCQueries ==
    {<<c, d>> : c, d \in SeqOf(MCLiterals, 2) \ {<<>>}}
      \cup {<<c>> : c \in [1 .. 3 -> MCLiterals]}
=============================================================================

------------------------------ MODULE ByteKeys ------------------------------
(***************************************************************************)
(* Byte strings as keys of the engine: their order, and the range of keys  *)
(* that begin with a prefix (src/keycodec.rs).                             *)
(***************************************************************************)
EXTENDS Integers, Sequences

CONSTANT Top    \* the largest byte, 0xFF

ASSUME TopAssumption == Top \in Nat /\ Top >= 7

Byte == 0 .. Top
ByteString == Seq(Byte)

\* The order of byte strings: t goes on where s ends, or has a larger byte at
\* the first place where they differ.
Before(s, t) ==
    \E n \in DOMAIN t :
        /\ n <= Len(s) + 1
        /\ \A i \in 1 .. n - 1 : s[i] = t[i]
        /\ n = Len(s) + 1 \/ s[n] < t[n]

StartsWith(s, prefix) ==
    Len(prefix) <= Len(s) /\ \A i \in DOMAIN prefix : s[i] = prefix[i]

NoKey == <<>>

\* successor: the smallest key above all that begin with a prefix, NoKey if
\* there is none.
Successor(prefix) ==
    LET below == {i \in DOMAIN prefix : prefix[i] # Top}
        last == CHOOSE i \in below : \A j \in below : j <= i
    IN  IF below = {} THEN NoKey
        ELSE Append(SubSeq(prefix, 1, last - 1), prefix[last] + 1)

\* The keys of a range [start, end); without an end it is open.
InRange(key, range) ==
    ~Before(key, range.start) /\ (range.end = NoKey \/ Before(key, range.end))

\* All that begin with a prefix (entity_range and its like).
PrefixRange(prefix) == [start |-> prefix, end |-> Successor(prefix)]
=============================================================================

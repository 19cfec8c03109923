------------------------------ MODULE KeyCodec ------------------------------
(***************************************************************************)
(* Values and keys as bytes: the codec of stored values (src/codec.rs),    *)
(* the order-preserving codec of index values (src/ordering.rs) and the    *)
(* layout of keys (src/keycodec.rs).                                       *)
(* A byte is a number up to Top, which stands for 0xFF, and every          *)
(* fixed-width number (i64, f64, u32) has two bytes, so that its byte order *)
(* matters.                                                                *)
(***************************************************************************)
EXTENDS ByteKeys, SequencesExt

Base == Top + 1
Half == (Base * Base) \div 2

BigEndian(n) == <<n \div Base, n % Base>>
LittleEndian(n) == <<n % Base, n \div Base>>
FromBig(s) == s[1] * Base + s[2]
FromLittle(s) == s[1] + s[2] * Base

-----------------------------------------------------------------------------
(* Values: of the type t, with a number n or a byte string s.  A Float is  *)
(* its bits: a sign, and a magnitude that is a number, Infinity or, above  *)
(* it, a NaN.                                                              *)

Numeric(t, n) == [t |-> t, n |-> n, s |-> <<>>]
Stringy(t, s) == [t |-> t, n |-> 0, s |-> s]

Infinity == Half - Base
IsNaN(bits) == bits % Half > Infinity

TypeRank(t) ==
    CASE t = "null" -> 0 [] t = "bool" -> 1 [] t = "int" -> 2
      [] t = "float" -> 3 [] t = "string" -> 4 [] t = "bytes" -> 5

OrderedBitsMutant(bits) == (bits + Half) % (Base * Base)

\* ordered_f64_bits: a NaN becomes the largest number, of a negative number all
\* bits are turned, of another one the sign.
OrderedBits(bits) ==
    CASE IsNaN(bits) -> 2 * Half - 1
      [] ~IsNaN(bits) /\ bits >= Half -> 2 * Half - 1 - bits
      [] OTHER -> bits + Half

FloatKey(bits) == IF IsNaN(bits) THEN <<2, 0>> ELSE <<0, OrderedBits(bits)>>

\* value_cmp
Less(a, b) ==
    \/ TypeRank(a.t) < TypeRank(b.t)
    \/ /\ a.t = b.t
       /\ CASE a.t = "null" -> FALSE
            [] a.t \in {"bool", "int"} -> a.n < b.n
            [] a.t = "float" -> Before(FloatKey(a.n), FloatKey(b.n))
            [] a.t \in {"string", "bytes"} -> Before(a.s, b.s)

\* `==' on values: it takes the two zeros for one, and no NaN for another.
Same(a, b) ==
    IF a.t = "float" /\ b.t = "float"
    THEN ~IsNaN(a.n) /\ ~IsNaN(b.n) /\ (a.n = b.n \/ {a.n, b.n} = {0, Half})
    ELSE a = b

\* i64 as u64, in two's complement.
Unsigned(n) == n % (2 * Half)
Signed(n) == IF n >= Half THEN n - 2 * Half ELSE n

-----------------------------------------------------------------------------
(* codec.rs: what the records of an entity hold.                           *)

Encode(x) ==
    <<TypeRank(x.t)>> \o
    CASE x.t = "null" -> <<>>
      [] x.t = "bool" -> <<x.n>>
      [] x.t = "int" -> LittleEndian(Unsigned(x.n))
      [] x.t = "float" -> LittleEndian(x.n)
      [] x.t \in {"string", "bytes"} -> LittleEndian(Len(x.s)) \o x.s

Decode(s) ==
    CASE s[1] = 0 -> Numeric("null", 0)
      [] s[1] = 1 -> Numeric("bool", IF s[2] = 0 THEN 0 ELSE 1)
      [] s[1] = 2 -> Numeric("int", Signed(FromLittle(Tail(s))))
      [] s[1] = 3 -> Numeric("float", FromLittle(Tail(s)))
      [] s[1] = 4 -> Stringy("string", SubSeq(s, 4, 3 + FromLittle(Tail(s))))
      [] s[1] = 5 -> Stringy("bytes", SubSeq(s, 4, 3 + FromLittle(Tail(s))))

-----------------------------------------------------------------------------
(* ordering.rs: what index keys hold.                                      *)

\* escape_null_free: a 0 is followed by 1, the end is 0 0.
Escape(s) ==
    FoldLeft(LAMBDA out, b : IF b = 0 THEN out \o <<0, 1>> ELSE Append(out, b), <<>>, s)
        \o <<0, 0>>

\* The places of an escaped string that a walk from its start comes to: it
\* takes a 0 together with what follows it.
Walk(s) ==
    LET at[i \in Nat] ==
            IF i = 0 THEN FALSE
            ELSE \/ i = 1
                 \/ at[i - 1] /\ s[i - 1] # 0
                 \/ i > 2 /\ at[i - 2] /\ s[i - 2] = 0
    IN  {i \in DOMAIN s : at[i]}

\* Where the end of an escaped string begins.
EndOf(s) == Min({i \in Walk(s) : s[i] = 0 /\ s[i + 1] = 0})

\* unescape_null_free
Unescape(s) ==
    LET bytes == {i \in Walk(s) : i < EndOf(s)}
    IN  FoldLeftDomain(LAMBDA out, i : IF i \in bytes THEN Append(out, s[i]) ELSE out, <<>>, s)

EncodeOrdered(x) ==
    <<TypeRank(x.t)>> \o
    CASE x.t = "null" -> <<>>
      [] x.t = "bool" -> <<x.n>>
      [] x.t = "int" -> BigEndian((Unsigned(x.n) + Half) % (2 * Half))
      [] x.t = "float" -> BigEndian(OrderedBits(x.n))
      [] x.t \in {"string", "bytes"} -> Escape(x.s)

\* ordered_value_len: how much of a key its first value takes.
OrderedLen(s) ==
    CASE s[1] = 0 -> 1
      [] s[1] = 1 -> 2
      [] s[1] \in {2, 3} -> 3
      [] s[1] \in {4, 5} -> EndOf(Tail(s)) + 2

\* decode_ordered; of the NaNs one is left.
DecodeOrdered(s) ==
    CASE s[1] = 0 -> Numeric("null", 0)
      [] s[1] = 1 -> Numeric("bool", IF s[2] = 0 THEN 0 ELSE 1)
      [] s[1] = 2 -> Numeric("int", Signed((FromBig(Tail(s)) + Half) % (2 * Half)))
      [] s[1] = 3 ->
            LET bits == FromBig(Tail(s))
            IN  Numeric("float", IF bits = 2 * Half - 1 THEN Infinity + 1
                               ELSE IF bits >= Half THEN bits - Half
                               ELSE 2 * Half - 1 - bits)
      [] s[1] = 4 -> Stringy("string", Unescape(Tail(s)))
      [] s[1] = 5 -> Stringy("bytes", Unescape(Tail(s)))

-----------------------------------------------------------------------------
(* keycodec.rs: prefixes and keys.                                         *)

EntityTag == 4
IndexTag == 6
Marker == Base * Base - 1

CollectionPrefix(c) == <<EntityTag>> \o LittleEndian(c)

\* entity_prefix
EntityPrefix(c, e) == CollectionPrefix(c) \o LittleEndian(Len(e)) \o e

EntityKey(c, e, f) == EntityPrefix(c, e) \o LittleEndian(f)

\* decode_entity_key
DecodeEntityKey(key) ==
    LET len == FromLittle(SubSeq(key, 4, 5))
    IN  [collection |-> FromLittle(SubSeq(key, 2, 3)),
         id |-> SubSeq(key, 6, 5 + len),
         field |-> FromLittle(SubSeq(key, 6 + len, 7 + len))]

\* index_field_prefix
FieldPrefix(c, f) == <<IndexTag>> \o LittleEndian(c) \o LittleEndian(f)

\* composite_prefix: a field id that no field has, then the id of the index.
CompositePrefix(c, ix) == FieldPrefix(c, Marker) \o LittleEndian(ix)

\* What index keys end with.
EntityPart(e) == LittleEndian(Len(e)) \o e

IndexKey(c, f, enc, e) == FieldPrefix(c, f) \o enc \o EntityPart(e)

CompositeKey(c, ix, encs, e) == CompositePrefix(c, ix) \o FlattenSeq(encs) \o EntityPart(e)
=============================================================================

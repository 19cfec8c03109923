----------------------------- MODULE LoggedMap -----------------------------
(***************************************************************************)
(* What the engine is to the layers above it: a map from keys to values,   *)
(* of which `base' is in the table files and the rest is a log of batches. *)
(* A batch is a set of writes of different keys: one write for put and     *)
(* delete, all writes of a transaction for commit.  A crash leaves a       *)
(* prefix of the log.  LsmEngine shows how the engine comes by this.       *)
(***************************************************************************)
EXTENDS Integers, SequencesExt

CONSTANT None    \* "no value": a write of None is a deletion

\* Database::put, Database::delete: one write.
Write(k, v) == [key |-> k, val |-> v]

\* The keys a batch, or a log, writes.
KeysOfBatch(b) == {w.key : w \in b}
KeysOfLog(l) == UNION {KeysOfBatch(l[i]) : i \in DOMAIN l}

\* The map m after the batch b: maps are functions on their live keys.
Apply(m, b) ==
    LET puts == {w \in b : w.val # None}
    IN  [k \in (DOMAIN m \ KeysOfBatch(b)) \cup KeysOfBatch(puts) |->
            IF k \in KeysOfBatch(puts) THEN (CHOOSE w \in puts : w.key = k).val ELSE m[k]]

\* The last write of each key in the log l.
LastWrites(l) ==
    UNION {{w \in l[i] : \A j \in DOMAIN l : w.key \in KeysOfBatch(l[j]) => j <= i} : i \in DOMAIN l}

\* The map m after the log l: a later write of a key replaces an earlier one.
Replayed(m, l) == Apply(m, LastWrites(l))

\* What a crash may leave if the first n batches of the log are durable.
Survivors(m, l, n) == {Replayed(m, SubSeq(l, 1, i)) : i \in n .. Len(l)}
=============================================================================

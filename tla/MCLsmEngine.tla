---------------------------- MODULE MCLsmEngine ----------------------------
(***************************************************************************)
(* Instances of LsmEngine for TLC.                                         *)
(***************************************************************************)
EXTENDS LsmProperties

CONSTANTS v1, v2

MCTwoKeys == 1 .. 2

\* The batch that writes entry e to the keys of K.
Writes(K, e) == [k \in Keys |-> IF k \in K THEN e ELSE Absent]

\* A batch that writes both keys, and one that deletes one of them.
MCBatches == {Writes(1 .. 2, v1), Writes({2}, Tombstone)}
=============================================================================

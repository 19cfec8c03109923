------------------------------ MODULE MCBackup ------------------------------
(***************************************************************************)
(* Instances of Backup for TLC.                                            *)
(***************************************************************************)
EXTENDS Backup

CONSTANTS v1, v2

MCThreeKeys == 1 .. 3

\* The batch that writes entry e to the keys of K.
Writes(K, e) == [k \in Keys |-> IF k \in K THEN e ELSE Absent]

\* Batches that fill the memtable: all keys, and a deletion of the two upper ones.
MCWideBatches == {Writes(1 .. 3, v1), Writes(2 .. 3, Tombstone)}
=============================================================================

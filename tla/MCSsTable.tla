----------------------------- MODULE MCSsTable -----------------------------
(***************************************************************************)
(* Instance of SsTable for TLC: five keys in blocks of two, so that tables *)
(* of up to three blocks, full and partial ones, are built; bits that some *)
(* keys share, so that the bloom filter errs.                              *)
(***************************************************************************)
EXTENDS SsTable

MCKeys == 1 .. 5
MCBits == [k \in MCKeys |-> {k % 3, (2 * k) % 5}]
=============================================================================

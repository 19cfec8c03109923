-------------------------- MODULE MCMergeIterator --------------------------
(***************************************************************************)
(* Instance of MergeIterator for TLC.                                      *)
(***************************************************************************)
EXTENDS MergeIterator

MCKeys == 1 .. 3
=============================================================================

------------------------- MODULE MCTransactionScan -------------------------
(***************************************************************************)
(* Instance of TransactionScan for TLC.                                    *)
(***************************************************************************)
EXTENDS TransactionScan

MCKeys == 1 .. 3
=============================================================================

------------------------ MODULE MCTransactionRunner ------------------------
(***************************************************************************)
(* TransactionRunner on small instances.                                   *)
(***************************************************************************)
EXTENDS TransactionRunner, TLC

Symmetry == Permutations(Txns) \cup Permutations(Keys)
=============================================================================

--------------------------- MODULE MCSupportChat ---------------------------
(***************************************************************************)
(* SupportChat on small instances.                                         *)
(***************************************************************************)
EXTENDS SupportChat, TLC

Symmetry == Permutations(Users)
=============================================================================

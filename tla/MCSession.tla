----------------------------- MODULE MCSession -----------------------------
(***************************************************************************)
(* Session on small instances.                                             *)
(***************************************************************************)
EXTENDS Session, TLC

\* Devices and accounts are interchangeable; used where no liveness is checked.
Symmetry == Permutations(Devices) \cup Permutations(Users)
=============================================================================

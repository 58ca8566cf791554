-------------------------- MODULE MCAccountSwitch --------------------------
(***************************************************************************)
(* AccountSwitch on small instances.                                       *)
(***************************************************************************)
EXTENDS AccountSwitch, TLC

\* Accounts and pages are interchangeable.
Symmetry == Permutations(Accounts) \cup Permutations(Pages)
=============================================================================

---------------------------- MODULE MCNavigation ----------------------------
(***************************************************************************)
(* Navigation on small instances.                                          *)
(***************************************************************************)
EXTENDS Navigation

\* Well-formed news, and news with a gap at the end.
TwoPostings == {<<TRUE, TRUE>>, <<TRUE, FALSE>>}
SomeNotes == <<TRUE, FALSE>>
=============================================================================

--------------------------- MODULE MCWatchTargets ---------------------------
(***************************************************************************)
(* WatchTargets on small instances.                                        *)
(***************************************************************************)
EXTENDS WatchTargets

\* Two listens: a target may be listened to again, where the server counts before a
\* mismatch is repaired, too.  Three, where the server may reject: again before the
\* rejection of the first comes, and again when it has come; of one target, which is
\* enough for it.
Listens == [removals |-> 2, filters |-> 2, rejects |-> 3]
Breaks == [m \in Modes |-> 1]
ListenedTo == [m \in Modes |-> IF m = "rejects" THEN Targets \ Documents ELSE Targets]

\* The document of every document query.
FirstDoc == [t \in Documents |-> AnyDoc]
=============================================================================

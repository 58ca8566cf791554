---------------------------- MODULE DurableQueue ----------------------------
(***************************************************************************)
(* What Firestore promises of the writes of an account.                    *)
(*                                                                         *)
(* A write waits until the server has applied or refused it, and no write  *)
(* is settled before an older one.  The server may apply a waiting write   *)
(* more than once, but it never applies a write before the older ones      *)
(* still waiting have been applied.                                        *)
(***************************************************************************)
EXTENDS Naturals, Sequences

CONSTANT Users

VARIABLES made,     \* made[u]: the number of writes of u, which are 1, 2, ...
          waiting,  \* waiting[u]: the writes not yet settled, oldest first
          applied,  \* applied[u]: the writes the server has applied
          refused   \* refused[u]: the writes the server has refused

vars == <<made, waiting, applied, refused>>

Init ==
  /\ made = [u \in Users |-> 0]
  /\ waiting = [u \in Users |-> <<>>]
  /\ applied = [u \in Users |-> {}]
  /\ refused = [u \in Users |-> {}]

Make(u) ==
  /\ made' = [made EXCEPT ![u] = @ + 1]
  /\ waiting' = [waiting EXCEPT ![u] = Append(@, made'[u])]
  /\ UNCHANGED <<applied, refused>>

\* The server applies waiting writes from the oldest on, some perhaps again.
Apply(u) ==
  /\ \E n \in 1..Len(waiting[u]) :
       applied' = [applied EXCEPT ![u] = @ \cup {waiting[u][i] : i \in 1..n}]
  /\ UNCHANGED <<made, waiting, refused>>

\* It may refuse a write once the older ones have been applied.
Refuse(u) ==
  /\ \E n \in 1..Len(waiting[u]) :
       /\ \A i \in 1..(n - 1) : waiting[u][i] \in applied[u]
       /\ refused' = [refused EXCEPT ![u] = @ \cup {waiting[u][n]}]
  /\ UNCHANGED <<made, waiting, applied>>

\* The oldest write is over: applied, or refused and dropped.
Settle(u) ==
  /\ waiting[u] # <<>>
  /\ Head(waiting[u]) \in applied[u] \cup refused[u]
  /\ waiting' = [waiting EXCEPT ![u] = Tail(@)]
  /\ UNCHANGED <<made, applied, refused>>

Next == \E u \in Users : Make(u) \/ Apply(u) \/ Refuse(u) \/ Settle(u)

Spec == Init /\ [][Next]_vars
=============================================================================

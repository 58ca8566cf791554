--------------------------- MODULE DeviceBinding ---------------------------
(***************************************************************************)
(* What the users/{uid} documents promise, whatever the devices and the    *)
(* network do: the deviceID field of an account is the identifier some     *)
(* device asked for, an account that has a document keeps one, and only    *)
(* its registration creates it.  Session implements this specification.    *)
(***************************************************************************)
CONSTANTS Users,   \* the accounts
          Ids,     \* what deviceID can hold
          NoDoc    \* the account has no users/{uid} document

VARIABLES bound,   \* bound[u]: the deviceID field of u's document, or NoDoc
          claims   \* claims[u]: the writes to that field not yet answered

vars == <<bound, claims>>

\* A registration writes the whole document, a login updates one that exists.
Claim == [kind: {"set", "update"}, id: Ids]

Init ==
  /\ bound = [u \in Users |-> NoDoc]
  /\ claims = [u \in Users |-> {}]

\* Someone registers, once per account and before it has a document, or logs in.
Open(u, c) ==
  /\ c.kind = "set" => bound[u] = NoDoc /\ \A o \in claims[u] : o.kind # "set"
  /\ claims' = [claims EXCEPT ![u] = @ \cup {c}]
  /\ UNCHANGED bound

\* The server applies an open write; one still unanswered may be applied again.
Settle(u, c) ==
  /\ c \in claims[u]
  /\ c.kind = "set" \/ bound[u] # NoDoc
  /\ bound' = [bound EXCEPT ![u] = c.id]
  /\ UNCHANGED claims

\* The writer learns that its write was applied or refused.
Close(u, c) ==
  /\ c \in claims[u]
  /\ claims' = [claims EXCEPT ![u] = @ \ {c}]
  /\ UNCHANGED bound

Next == \E u \in Users, c \in Claim : Open(u, c) \/ Settle(u, c) \/ Close(u, c)

Spec == Init /\ [][Next]_vars
=============================================================================

---------------------------- MODULE SupportChat ----------------------------
(***************************************************************************)
(* The chat with support: messages and attachments of the accounts that    *)
(* use one device after another.                                           *)
(*                                                                         *)
(* A message is written under the millisecond in which it was sent, by a   *)
(* transaction nobody waits for.  The controller that signs the messages   *)
(* is made once for the process.  An attachment is uploaded first, and its *)
(* message belongs to whoever is signed in when the link arrives.          *)
(*                                                                         *)
(* The second transaction of onSend writes a collection reference, which   *)
(* the plugin's codec refuses: it changes nothing and is left out.         *)
(***************************************************************************)
EXTENDS Naturals

CONSTANTS Users, None,
          MaxTime,    \* bound: milliseconds that pass
          MaxSends    \* bound: messages and attachments sent

ASSUME ChatAssumption ==
  /\ None \notin Users
  /\ MaxTime \in Nat
  /\ MaxSends \in Nat

VARIABLES
  user,      \* FirebaseAuth.instance.currentUser
  signer,    \* chatController.user
  others,    \* an account change happened since the controller was made
  now,       \* the device's clock
  sends,     \* messages and attachments so far
  uploads,   \* attachments whose link has not arrived
  txns,      \* transactions under way, each with its message
  msgs       \* messagesUser/<in>/msgs/<id> of the server

vars == <<user, signer, others, now, sends, uploads, txns, msgs>>

Init ==
  /\ user = None
  /\ signer = None
  /\ others = FALSE
  /\ now = 0
  /\ sends = 0
  /\ uploads = {}
  /\ txns = {}
  /\ msgs = {}

\* The account of the device changes; the session's module says when it may.
SignIn(u) ==
  /\ user = None
  /\ user' = u
  /\ others' = (others \/ signer \notin {None, u})
  /\ UNCHANGED <<signer, now, sends, uploads, txns, msgs>>

SignOut ==
  /\ user # None
  /\ user' = None
  /\ UNCHANGED <<signer, others, now, sends, uploads, txns, msgs>>

Tick ==
  /\ now < MaxTime
  /\ now' = now + 1
  /\ UNCHANGED <<user, signer, others, sends, uploads, txns, msgs>>

\* Mutant: the controller's user is saved and read back.
RestartSaved ==
  /\ others' = FALSE
  /\ uploads' = {}
  /\ txns' = {}
  /\ UNCHANGED <<user, signer, now, sends, msgs>>

\* The process ends with all it had under way; the account stays signed in.
Restart ==
  /\ signer' = None
  /\ others' = FALSE
  /\ uploads' = {}
  /\ txns' = {}
  /\ UNCHANGED <<user, now, sends, msgs>>

\* Get.put keeps the controller that an earlier page of the process has put.
OpenChat ==
  /\ user # None
  /\ signer = None
  /\ signer' = user
  /\ UNCHANGED <<user, others, now, sends, uploads, txns, msgs>>

\* onSend: document and time are taken now, the transaction runs later.  A message's
\* nr is its place in the order of sending, file its attachment or 0; author and own
\* (only the author used the process) are only observed.
Send ==
  /\ user # None /\ signer # None
  /\ sends < MaxSends
  /\ sends' = sends + 1
  /\ txns' = txns \cup {[in |-> user, id |-> now, label |-> signer, file |-> 0,
                         nr |-> sends + 1, author |-> user, own |-> ~others]}
  /\ UNCHANGED <<user, signer, others, now, uploads, msgs>>

Attach ==
  /\ user # None /\ signer # None
  /\ sends < MaxSends
  /\ sends' = sends + 1
  /\ uploads' = uploads \cup {[file |-> sends + 1, author |-> user,
                               own |-> ~others, stored |-> FALSE]}
  /\ UNCHANGED <<user, signer, others, now, txns, msgs>>

\* Every attachment of every account replaces the one object chat_images; what
\* it holds is left out, the messages have no more than a link to it.
UploadEnds(up) ==
  /\ ~up.stored
  /\ uploads' = (uploads \ {up}) \cup {[up EXCEPT !.stored = TRUE]}
  /\ UNCHANGED <<user, signer, others, now, sends, txns, msgs>>

\* The link is there.  Without an account currentUser.uid throws.
LinkArrives(up) ==
  /\ up.stored
  /\ uploads' = uploads \ {up}
  /\ IF user = None
     THEN UNCHANGED <<sends, txns>>
     ELSE /\ sends < MaxSends
          /\ sends' = sends + 1
          /\ txns' = txns \cup {[in |-> user, id |-> now, label |-> signer,
                                 file |-> up.file, nr |-> sends + 1,
                                 author |-> up.author, own |-> up.own]}
  /\ UNCHANGED <<user, signer, others, now, msgs>>

\* The upload or the link fails.
UploadFails(up) ==
  /\ uploads' = uploads \ {up}
  /\ UNCHANGED <<user, signer, others, now, sends, txns, msgs>>

\* Mutant: the identifier is taken when the transaction runs.
CommitNow(t, answered) ==
  /\ msgs' = {m \in msgs : <<m.in, m.id>> # <<t.in, now>>} \cup {[t EXCEPT !.id = now]}
  /\ txns' = IF answered THEN txns \ {t} ELSE txns
  /\ UNCHANGED <<user, signer, others, now, sends, uploads>>

\* Mutant: the conversation is looked up when the transaction runs.
CommitHere(t, answered) ==
  /\ user # None
  /\ msgs' = {m \in msgs : <<m.in, m.id>> # <<user, t.id>>} \cup {[t EXCEPT !.in = user]}
  /\ txns' = IF answered THEN txns \ {t} ELSE txns
  /\ UNCHANGED <<user, signer, others, now, sends, uploads>>

\* The server sets the document; when its answer is lost the client runs the
\* transaction again.
Commit(t, answered) ==
  /\ msgs' = {m \in msgs : <<m.in, m.id>> # <<t.in, t.id>>} \cup {t}
  /\ txns' = IF answered THEN txns \ {t} ELSE txns
  /\ UNCHANGED <<user, signer, others, now, sends, uploads>>

Fail(t) ==
  /\ txns' = txns \ {t}
  /\ UNCHANGED <<user, signer, others, now, sends, uploads, msgs>>

Next ==
  \/ \E u \in Users : SignIn(u)
  \/ SignOut
  \/ Tick
  \/ Restart
  \/ OpenChat
  \/ Send
  \/ Attach
  \/ \E up \in uploads : UploadEnds(up) \/ LinkArrives(up) \/ UploadFails(up)
  \/ \E t \in txns : Fail(t) \/ \E answered \in BOOLEAN : Commit(t, answered)

Spec == Init /\ [][Next]_vars

-----------------------------------------------------------------------------
\* The conversation, listed by identifier, shows the messages in the order in
\* which they were sent, whatever the order in which their transactions ran and
\* however often (ChatScreen.dart:64-68, chatController.dart:21).
SentInOrder ==
  \A m, k \in msgs : m.in = k.in /\ m.nr < k.nr => m.id < k.id

\* Only the message of an attachment can land in the conversation of another
\* account than its author's (chatController.dart:17-21, ChatScreen.dart:171-188).
StrayIsAttachment ==
  \A m \in msgs : m.in # m.author => m.file # 0

\* As long as one account uses the process, its messages bear its name, also
\* after restarts in which others used the device (ChatScreen.dart:25).
OwnName ==
  \A m \in msgs : m.own => m.label = m.author
=============================================================================

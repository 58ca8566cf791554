----------------------------- MODULE ChatProofs -----------------------------
(***************************************************************************)
(* Proofs about SupportChat, for any accounts, clock and number of sends,  *)
(* and about the bar that shows it, for any news and bounds.               *)
(*                                                                         *)
(* What the server's messages promise is promised by the transactions that *)
(* write them already: each carries its conversation, its millisecond and  *)
(* its signature from the moment it was sent.                              *)
(***************************************************************************)
EXTENDS SupportChat, Frame, TLAPS

Message == [in : Users, id : Nat, label : Users, file : Nat, nr : Nat,
            author : Users, own : BOOLEAN]
Upload == [file : Nat, author : Users, own : BOOLEAN, stored : BOOLEAN]

Types ==
  /\ user \in Users \cup {None} /\ signer \in Users \cup {None}
  /\ others \in BOOLEAN
  /\ now \in Nat /\ sends \in Nat
  /\ uploads \subseteq Upload
  /\ txns \subseteq Message /\ msgs \subseteq Message

\* Unless accounts changed, the user of the process is the controller's.
SignerIsUser == ~others /\ user # None /\ signer # None => signer = user

UploadOk(up) ==
  /\ up.file # 0 /\ signer # None
  /\ up.own => signer = up.author

MessageOk(m) ==
  /\ m.nr <= sends /\ m.id <= now
  /\ m.in # m.author => m.file # 0
  /\ m.own => m.label = m.author

\* Later messages have later identifiers, or the same.
Ordered(m, k) == m.nr < k.nr => m.id <= k.id

Written == txns \cup msgs

Inv ==
  /\ Types
  /\ SignerIsUser
  /\ \A up \in uploads : UploadOk(up)
  /\ \A m \in Written : MessageOk(m)
  /\ \A m, k \in Written : Ordered(m, k)
  /\ \A m, k \in msgs : m.in = k.in /\ m.id = k.id => m = k

LEMMA InitInv == Init => Inv
<1> SUFFICES ASSUME Init PROVE Inv
  OBVIOUS
<1>1. Written = {}
  BY DEF Init, Written
<1>2. Types /\ SignerIsUser
  BY DEF Init, Types, SignerIsUser
<1> QED
  BY <1>1, <1>2 DEF Init, Inv

\* The transactions and messages a step leaves, or removes, stay as they should.
LEMMA NothingWritten ==
  ASSUME Inv, UNCHANGED msgs, txns' \subseteq txns,
         sends' \in Nat, sends <= sends', now' \in Nat, now <= now'
  PROVE  /\ txns' \subseteq Message /\ msgs' \subseteq Message
         /\ \A m \in Written' : MessageOk(m)'
         /\ \A m, k \in Written' : Ordered(m, k)'
         /\ \A m, k \in msgs' : m.in = k.in /\ m.id = k.id => m = k
<1>1. Written' \subseteq Written /\ Written \subseteq Message
  BY DEF Inv, Types, Written
<1>2. ASSUME NEW m \in Written' PROVE MessageOk(m)'
  <2>1. MessageOk(m) /\ m.nr \in Nat /\ m.id \in Nat
    BY <1>1 DEF Inv, Message
  <2> QED
    BY <2>1 DEF MessageOk, Inv, Types
<1> QED
  BY <1>1, <1>2 DEF Inv, Types, Ordered

\* A transaction that is begun now comes after all others.
LEMMA Begin ==
  ASSUME Inv, NEW t \in Message, txns' = txns \cup {t}, UNCHANGED <<msgs, now>>,
         sends' = sends + 1, t.nr = sends + 1, t.id = now,
         t.in # t.author => t.file # 0,
         t.own => t.label = t.author
  PROVE  /\ txns' \subseteq Message /\ msgs' \subseteq Message
         /\ \A m \in Written' : MessageOk(m)'
         /\ \A m, k \in Written' : Ordered(m, k)'
         /\ \A m, k \in msgs' : m.in = k.in /\ m.id = k.id => m = k
<1>1. Written' = Written \cup {t} /\ Written \subseteq Message
  BY DEF Inv, Types, Written
<1>2. ASSUME NEW m \in Written
      PROVE  /\ m.nr \in Nat /\ m.id \in Nat /\ m.nr <= sends /\ m.id <= now
             /\ MessageOk(m)'
  <2>1. MessageOk(m) /\ m.nr \in Nat /\ m.id \in Nat
    BY <1>1 DEF Inv, Message
  <2> QED
    BY <2>1 DEF MessageOk, Inv, Types
<1>3. MessageOk(t)'
  BY DEF MessageOk, Inv, Types
<1>4. ASSUME NEW m \in Written', NEW k \in Written' PROVE Ordered(m, k)'
  <2>1. CASE m = t
    BY <1>1, <1>2, <2>1 DEF Ordered, Inv, Types
  <2>2. CASE k = t
    BY <1>1, <1>2, <2>2 DEF Ordered, Inv, Types
  <2>3. CASE m # t /\ k # t
    BY <1>1, <2>3 DEF Ordered, Inv
  <2> QED
    BY <2>1, <2>2, <2>3
<1> QED
  BY <1>1, <1>2, <1>3, <1>4 DEF Inv, Types

-----------------------------------------------------------------------------
(* The steps *)

LEMMA AccountStep ==
  ASSUME Inv, (\E u \in Users : SignIn(u)) \/ SignOut \/ Tick \/ Restart \/ OpenChat
  PROVE  Inv'
<1>1. UNCHANGED <<sends, msgs>> /\ txns' \subseteq txns /\ uploads' \subseteq uploads
  BY DEF SignIn, SignOut, Tick, Restart, OpenChat
<1>2. now' \in Nat /\ now <= now'
  BY DEF SignIn, SignOut, Tick, Restart, OpenChat, Inv, Types
<1>3. /\ user' \in Users \cup {None} /\ signer' \in Users \cup {None}
      /\ others' \in BOOLEAN
  BY DEF SignIn, SignOut, Tick, Restart, OpenChat, Inv, Types
<1>4. uploads' = {} \/ signer = None \/ signer' = signer
  BY DEF SignIn, SignOut, Tick, Restart, OpenChat
<1>5. \A up \in uploads' : UploadOk(up)'
  BY <1>1, <1>4 DEF UploadOk, Inv
<1>6. SignerIsUser'
  BY DEF SignIn, SignOut, Tick, Restart, OpenChat, SignerIsUser, Inv, Types
<1> QED
  BY <1>1, <1>2, <1>3, <1>5, <1>6, NothingWritten DEF Inv, Types

\* Document, time and signature are taken together, from the account that writes.
LEMMA SendStep ==
  ASSUME Inv, Send
  PROVE  Inv'
<1> DEFINE t == [in |-> user, id |-> now, label |-> signer, file |-> 0,
                 nr |-> sends + 1, author |-> user, own |-> ~others]
<1>1. t.own => t.label = t.author
  BY DEF Send, Inv, SignerIsUser
<1>2. t \in Message
  BY DEF Send, Inv, Types, Message
<1>3. /\ txns' = txns \cup {t} /\ sends' = sends + 1
      /\ UNCHANGED <<user, signer, others, now, uploads, msgs>>
  BY DEF Send
<1>4. /\ t.nr = sends + 1 /\ t.id = now
      /\ t.in # t.author => t.file # 0
      /\ t.own => t.label = t.author
  BY <1>1
<1>5. \A up \in uploads' : UploadOk(up)'
  BY <1>3 DEF UploadOk, Inv
<1> HIDE DEF t
<1>6. sends' \in Nat
  BY <1>3 DEF Inv, Types
<1> QED
  BY <1>2, <1>3, <1>4, <1>5, <1>6, Begin DEF Inv, Types, SignerIsUser

\* An attachment keeps its author, and the signer for as long as it lives.
LEMMA UploadStep ==
  ASSUME Inv,
         Attach \/ \E up \in uploads : UploadEnds(up) \/ UploadFails(up)
  PROVE  Inv'
<1>1. UNCHANGED <<user, signer, others, now, txns, msgs>>
  BY DEF Attach, UploadEnds, UploadFails
<1>2. sends' \in Nat /\ sends <= sends'
  BY DEF Attach, UploadEnds, UploadFails, Inv, Types
<1>3. uploads' \subseteq Upload /\ \A up \in uploads' : UploadOk(up)'
  <2>1. CASE Attach
    <3> DEFINE new == [file |-> sends + 1, author |-> user, own |-> ~others,
                       stored |-> FALSE]
    <3>1. /\ uploads' = uploads \cup {new} /\ UNCHANGED signer
          /\ user # None /\ signer # None
      BY <2>1 DEF Attach
    <3>2. new \in Upload
      BY <3>1 DEF Inv, Types, Upload
    <3>3. new.file # 0
      BY DEF Inv, Types
    <3>4. new.own => signer = new.author
      BY <3>1 DEF Inv, SignerIsUser
    <3> HIDE DEF new
    <3> QED
      BY <3>1, <3>2, <3>3, <3>4 DEF Inv, Types, UploadOk
  <2>2. ASSUME NEW up \in uploads, UploadEnds(up)
        PROVE  uploads' \subseteq Upload /\ \A v \in uploads' : UploadOk(v)'
    BY <2>2 DEF UploadEnds, Inv, Types, Upload, UploadOk
  <2>3. ASSUME NEW up \in uploads, UploadFails(up)
        PROVE  uploads' \subseteq Upload /\ \A v \in uploads' : UploadOk(v)'
    BY <2>3 DEF UploadFails, Inv, Types, Upload, UploadOk
  <2> QED
    BY <2>1, <2>2, <2>3
<1> QED
  BY <1>1, <1>2, <1>3, NothingWritten DEF Inv, Types, SignerIsUser

\* The message of an attachment goes where the user is now; its file tells.
LEMMA LinkStep ==
  ASSUME Inv, NEW up \in uploads, LinkArrives(up)
  PROVE  Inv'
<1>1. UNCHANGED <<user, signer, others, now, msgs>> /\ uploads' \subseteq uploads
  BY DEF LinkArrives
<1>2. \A v \in uploads' : UploadOk(v)'
  BY <1>1 DEF UploadOk, Inv
<1>3. CASE user = None
  BY <1>1, <1>2, <1>3, NothingWritten DEF LinkArrives, Inv, Types, SignerIsUser
<1>4. CASE user # None
  <2> DEFINE t == [in |-> user, id |-> now, label |-> signer, file |-> up.file,
                   nr |-> sends + 1, author |-> up.author, own |-> up.own]
  <2>1. up \in Upload /\ UploadOk(up)
    BY DEF Inv, Types
  <2>2. t \in Message
    BY <1>4, <2>1 DEF Inv, Types, Message, Upload, UploadOk
  <2>3. /\ t.nr = sends + 1 /\ t.id = now
        /\ t.in # t.author => t.file # 0
        /\ t.own => t.label = t.author
    BY <2>1 DEF UploadOk
  <2>4. txns' = txns \cup {t} /\ sends' = sends + 1
    BY <1>4 DEF LinkArrives
  <2> HIDE DEF t
  <2>5. sends' \in Nat
    BY <2>4 DEF Inv, Types
  <2> QED
    BY <1>1, <1>2, <2>2, <2>3, <2>4, <2>5, Begin DEF Inv, Types, SignerIsUser
<1> QED
  BY <1>3, <1>4

\* A document is replaced by the message of a transaction, as often as it runs.
LEMMA CommitStep ==
  ASSUME Inv, NEW t \in txns, NEW answered \in BOOLEAN, Commit(t, answered)
  PROVE  Inv'
<1>1. /\ UNCHANGED <<user, signer, others, now, sends, uploads>>
      /\ txns' \subseteq txns
      /\ msgs' = {m \in msgs : <<m.in, m.id>> # <<t.in, t.id>>} \cup {t}
  BY DEF Commit
<1>2. Written' \subseteq Written
  BY <1>1 DEF Written
<1>3. \A m \in Written' : MessageOk(m)'
  BY <1>1, <1>2 DEF MessageOk, Inv
<1>4. \A m, k \in Written' : Ordered(m, k)'
  BY <1>2 DEF Ordered, Inv
<1>5. ASSUME NEW m \in msgs', NEW k \in msgs', m.in = k.in, m.id = k.id
      PROVE  m = k
  BY <1>1, <1>5 DEF Inv
<1>6. \A up \in uploads' : UploadOk(up)'
  BY <1>1 DEF UploadOk, Inv
<1> QED
  BY <1>1, <1>3, <1>4, <1>5, <1>6 DEF Inv, Types, SignerIsUser

LEMMA FailStep ==
  ASSUME Inv, NEW t \in txns, Fail(t)
  PROVE  Inv'
<1>1. UNCHANGED <<user, signer, others, now, sends, uploads, msgs>> /\ txns' \subseteq txns
  BY DEF Fail
<1>2. \A up \in uploads' : UploadOk(up)'
  BY <1>1 DEF UploadOk, Inv
<1> QED
  BY <1>1, <1>2, NothingWritten DEF Inv, Types, SignerIsUser

LEMMA Inductive == Inv /\ [Next]_vars => Inv'
<1> SUFFICES ASSUME Inv, [Next]_vars PROVE Inv'
  OBVIOUS
<1>1. CASE UNCHANGED vars
  BY <1>1
  DEF vars, Inv, Types, SignerIsUser, UploadOk, MessageOk, Ordered, Written
<1>2. CASE Next
  BY <1>2, AccountStep, SendStep, UploadStep, LinkStep, CommitStep, FailStep DEF Next
<1> QED
  BY <1>1, <1>2

LEMMA Invariant == Spec => []Inv
BY InitInv, Inductive, PTL DEF Spec

-----------------------------------------------------------------------------
(* The theorems *)

\* Two messages of a conversation that stand in the wrong order would be one
\* document, which shows one message.
THEOREM InOrder == Spec => []SentInOrder
<1>1. Inv => SentInOrder
  <2> SUFFICES ASSUME Inv, NEW m \in msgs, NEW k \in msgs, m.in = k.in, m.nr < k.nr
               PROVE  m.id < k.id
    BY DEF SentInOrder
  <2>1. m.nr \in Nat /\ k.nr \in Nat /\ m.id \in Nat /\ k.id \in Nat
    BY DEF Inv, Types, Message
  <2>2. m.id <= k.id
    BY DEF Inv, Ordered, Written
  <2>3. m # k
    BY <2>1
  <2>4. m.id # k.id
    BY <2>3 DEF Inv
  <2> QED
    BY <2>1, <2>2, <2>4
<1> QED
  BY <1>1, Invariant, PTL

\* A message in another's conversation is an attachment's.
THEOREM StraysAreAttachments == Spec => []StrayIsAttachment
<1>1. Inv => StrayIsAttachment
  BY DEF Inv, Written, MessageOk, StrayIsAttachment
<1> QED
  BY <1>1, Invariant, PTL

\* Messages of a process that one account used bear its name.
THEOREM NamesAreOwn == Spec => []OwnName
<1>1. Inv => OwnName
  BY DEF Inv, Written, MessageOk, OwnName
<1> QED
  BY <1>1, Invariant, PTL

-----------------------------------------------------------------------------
(***************************************************************************)
(* The chat is one of the contents of the bar, which Navigation models     *)
(* under the same user.                                                    *)
(***************************************************************************)
CONSTANTS MaxVisits, MaxVideos, Postings, Notes

VARIABLES open, visits, visit, reads, listeners, news, notes, shown,
          server, posted, missed

Bar == INSTANCE Navigation

\* The tiles of the drawer without closeDrawer set the two globals apart, but
\* there is no way back to the bar from it.
Menu ==
  /\ isChatOpen \in BOOLEAN
  /\ page # "drawer" => (isChatOpen <=> content # "chat")

\* Each tile of the bar sets both.
LEMMA MenuStep == Menu /\ [Bar!Next]_(Bar!vars) => Menu'
<1> SUFFICES ASSUME Menu, [Bar!Next]_(Bar!vars) PROVE Menu'
  OBVIOUS
<1>1. ASSUME NEW u \in Users, Bar!SignIn(u) PROVE Menu'
  BY <1>1 DEF Bar!SignIn, Menu
<1>2. CASE Bar!Restart
  BY <1>2 DEF Bar!Restart, Bar!Fresh, Menu
<1>3. ASSUME NEW o \in BOOLEAN, Bar!Slide(o) PROVE Menu'
  BY <1>3 DEF Bar!Slide, Menu
<1>4. ASSUME NEW w \in {"home", "news", "chat"}, Bar!Tile(w) PROVE Menu'
  BY <1>4 DEF Bar!Tile, Menu
<1>5. ASSUME NEW w \in {"home", "news", "chat"}, Bar!LoneTile(w) PROVE Menu'
  BY <1>5 DEF Bar!LoneTile, Menu
<1>6. CASE Bar!SignOut \/ Bar!HomeIcon
  BY <1>6 DEF Bar!SignOut, Bar!HomeIcon, Menu
<1>7. CASE Bar!OpenVideos \/ Bar!LeaveVideos
  BY <1>7 DEF Bar!OpenVideos, Bar!LeaveVideos, Menu
<1>8. CASE UNCHANGED Bar!frame
  BY <1>8 DEF Bar!frame, Menu
<1> QED
  BY <1>1, <1>2, <1>3, <1>4, <1>5, <1>6, <1>7, <1>8
  DEF Bar!Next, Bar!LoneSignOut, Bar!AddVideo, Bar!Replies, Bar!Reply, Bar!Snapshot, Bar!Ends, Bar!vars

\* The menu button is missing on the chat and only there: what the run "pages" checks
\* of Navigation, for any users, news and bounds.
THEOREM MenuIsThere == Bar!Spec => []MenuUnlessChat
<1>1. Bar!Init => Menu
  BY DEF Bar!Init, Menu
<1>2. Menu => MenuUnlessChat
  BY DEF Menu, MenuUnlessChat
<1> QED
  BY <1>1, <1>2, MenuStep, PTL DEF Bar!Spec
=============================================================================

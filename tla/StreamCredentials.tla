------------------------- MODULE StreamCredentials -------------------------
(***************************************************************************)
(* Whose token a Firestore write stream is opened with.                    *)
(*                                                                         *)
(* Three serial queues run without waiting for each other: Auth's work     *)
(* queue changes the current user and hands out tokens, the main queue     *)
(* carries notifications of a change and the tokens handed out, and        *)
(* Firestore's worker queue owns the stream and the mutation queue of the  *)
(* user it knows of.  A stream asks for a token, and the user may change   *)
(* at any moment before the answer has crossed both other queues.  Two     *)
(* counters guard the way back: token_counter drops an answer that a       *)
(* notification overtook, close_count_ one whose stream has been closed.   *)
(***************************************************************************)
EXTENDS Naturals, Sequences

CONSTANTS Users,
          NoUser,      \* nobody is signed in
          MaxChanges,  \* bound on the notifications posted
          MaxCloses    \* no errors and no idle timeouts after so many closes of the stream

ASSUME CredentialsAssumption ==
  /\ NoUser \notin Users
  /\ MaxChanges \in Nat
  /\ MaxCloses \in Nat

VARIABLES
  authUser,   \* FIRAuth's _currentUser
  posted,     \* how many notifications were posted
  tokenWork,  \* token requests on Auth's work queue
  fetching,   \* token requests that wait for the backend to refresh a token
  main,       \* the main queue: notifications and answers to token requests
  labelled,   \* the credentials provider's current_user
  counter,    \* its token_counter
  worker,     \* the worker queue: credential changes and streams to resume
  storeUser,  \* the user whose mutation queue is read, SyncEngine's current_user_
  stream,     \* Stream::state_
  closes,     \* Stream::close_count_
  token       \* the user whose token the stream was last opened with

authVars == <<authUser, posted, fetching>>
streamVars == <<storeUser, stream, closes, token>>
vars == <<authUser, posted, tokenWork, fetching, main, labelled, counter, worker,
          storeUser, stream, closes, token>>

Anyone == Users \cup {NoUser}
Call == [counter: Nat, close: Nat]
Change == [kind: {"change"}, user: Anyone]
Answer == [kind: {"token"}, user: Anyone, ok: BOOLEAN, call: Call]
Resume == [kind: {"resume"}, user: Anyone, label: Anyone, ok: BOOLEAN, close: Nat]

Notification(u) == [kind |-> "change", user |-> u]
Reply(u, ok, call) == [kind |-> "token", user |-> u, ok |-> ok, call |-> call]

Started == stream \in {"Starting", "Backoff", "Open"}

TypeOK ==
  /\ authUser \in Anyone /\ labelled \in Anyone /\ storeUser \in Anyone
  /\ posted \in 0..MaxChanges
  /\ counter \in Nat /\ closes \in Nat
  /\ tokenWork \in Seq(Call)
  /\ fetching \in SUBSET [user: Users, call: Call]
  /\ main \in Seq(Change \cup Answer)
  /\ worker \in Seq(Change \cup Resume)
  /\ stream \in {"Initial", "Starting", "Open", "Error", "Backoff"}
  /\ token \in Anyone

Init ==
  /\ authUser \in Anyone
  /\ labelled = authUser /\ storeUser = authUser
  /\ posted = 0 /\ counter = 0 /\ closes = 0
  /\ tokenWork = <<>> /\ fetching = {} /\ main = <<>> /\ worker = <<>>
  /\ stream = "Initial"
  /\ token = NoUser

-----------------------------------------------------------------------------
(***************************************************************************)
(* Auth's work queue.                                                      *)
(***************************************************************************)

\* A change of the raw access token is posted to the main queue.
Post(u) ==
  /\ posted < MaxChanges
  /\ posted' = posted + 1
  /\ main' = Append(main, Notification(u))

\* A sign-in, a sign-out, or an automatic refresh of the current user's token.
UpdateCurrentUser ==
  \E u \in Anyone :
    /\ u # NoUser \/ authUser # NoUser
    /\ Post(u)
    /\ authUser' = u
    /\ UNCHANGED <<tokenWork, fetching, labelled, counter, worker, streamVars>>

\* Mutant: nobody answers when nobody is signed in.
HandOutSignedIn ==
  /\ tokenWork # <<>>
  /\ tokenWork' = Tail(tokenWork)
  /\ main' = IF authUser = NoUser THEN main
             ELSE Append(main, Reply(authUser, TRUE, Head(tokenWork)))
  /\ UNCHANGED <<authUser, posted, fetching, labelled, counter, worker, streamVars>>

\* The next request for a token: nobody is signed in, the token is still valid,
\* or it has to be refreshed.
HandOut ==
  /\ tokenWork # <<>>
  /\ tokenWork' = Tail(tokenWork)
  /\ \/ /\ main' = Append(main, Reply(authUser, TRUE, Head(tokenWork)))
        /\ UNCHANGED fetching
     \/ /\ authUser # NoUser
        /\ fetching' = fetching \cup {[user |-> authUser, call |-> Head(tokenWork)]}
        /\ UNCHANGED main
  /\ UNCHANGED <<authUser, posted, labelled, counter, worker, streamVars>>

\* The backend has answered: the same token or an error; a new token, which is
\* posted if the user is still the current one; or the user is invalid.
Fetched ==
  \E f \in fetching :
    /\ fetching' = fetching \ {f}
    /\ \/ /\ \E ok \in BOOLEAN :
               /\ ok \/ closes < MaxCloses
               /\ main' = Append(main, Reply(f.user, ok, f.call))
          /\ UNCHANGED <<authUser, posted>>
       \/ /\ f.user = authUser
          /\ posted < MaxChanges
          /\ posted' = posted + 1
          /\ \E ok \in BOOLEAN :
               /\ authUser' = IF ok THEN authUser ELSE NoUser
               /\ main' = main \o <<Notification(authUser'), Reply(f.user, ok, f.call)>>
    /\ UNCHANGED <<tokenWork, labelled, counter, worker, streamVars>>

-----------------------------------------------------------------------------
(***************************************************************************)
(* The main queue.                                                         *)
(***************************************************************************)

\* The provider's listener: the change is handed to the worker queue.
Notified ==
  /\ main # <<>> /\ Head(main).kind = "change"
  /\ main' = Tail(main)
  /\ labelled' = Head(main).user
  /\ counter' = counter + 1
  /\ worker' = Append(worker, Head(main))
  /\ UNCHANGED <<authVars, tokenWork, streamVars>>

ResumeItem(answer) ==
  [kind |-> "resume", user |-> answer.user, label |-> labelled,
   ok |-> answer.ok, close |-> answer.call.close]

\* Mutant: an answer overtaken by a notification is used.
AnsweredUnchecked ==
  /\ main # <<>> /\ Head(main).kind = "token"
  /\ main' = Tail(main)
  /\ worker' = Append(worker, ResumeItem(Head(main)))
  /\ UNCHANGED <<authVars, tokenWork, labelled, counter, streamVars>>

\* get_token_callback: asked for again if a notification came in between.
Answered ==
  /\ main # <<>> /\ Head(main).kind = "token"
  /\ main' = Tail(main)
  /\ IF Head(main).call.counter # counter
     THEN /\ tokenWork' = Append(tokenWork, [Head(main).call EXCEPT !.counter = counter])
          /\ UNCHANGED worker
     ELSE /\ worker' = Append(worker, ResumeItem(Head(main)))
          /\ UNCHANGED tokenWork
  /\ UNCHANGED <<authVars, labelled, counter, streamVars>>

-----------------------------------------------------------------------------
(***************************************************************************)
(* The worker queue.  Whether the current user has pending writes is       *)
(* left open: WritePipeline models it.                                     *)
(***************************************************************************)

RequestCredentials ==
  /\ stream' = "Starting"
  /\ tokenWork' = Append(tokenWork, [counter |-> counter, close |-> closes'])

\* A write finds the stream stopped; after an error it backs off first.
StartStream ==
  \/ /\ stream = "Initial"
     /\ UNCHANGED closes
     /\ RequestCredentials
     /\ UNCHANGED <<authVars, main, labelled, counter, worker, storeUser, token>>
  \/ /\ stream = "Error"
     /\ stream' = "Backoff"
     /\ UNCHANGED <<authVars, tokenWork, main, labelled, counter, worker,
                    storeUser, closes, token>>

BackoffElapsed ==
  /\ stream = "Backoff"
  /\ UNCHANGED closes
  /\ RequestCredentials
  /\ UNCHANGED <<authVars, main, labelled, counter, worker, storeUser, token>>

\* The stream is closed by an error; if writes are left it is started again.
CloseWithError ==
  /\ closes' = closes + 1
  /\ stream' \in {"Error", "Backoff"}

Break ==
  /\ stream = "Open" /\ closes < MaxCloses
  /\ CloseWithError
  /\ UNCHANGED <<authVars, tokenWork, main, labelled, counter, worker, storeUser, token>>

\* The idle timer, or a write refused: the next start needs no backoff.
StopStream ==
  /\ stream = "Open" /\ closes < MaxCloses
  /\ closes' = closes + 1
  /\ \/ stream' = "Initial" /\ UNCHANGED tokenWork
     \/ RequestCredentials
  /\ UNCHANGED <<authVars, main, labelled, counter, worker, storeUser, token>>

\* Mutant: stopping a stream that has not opened yet does not count as a close.
CredentialChangeUncounted ==
  /\ worker # <<>> /\ Head(worker).kind = "change"
  /\ worker' = Tail(worker)
  /\ storeUser' = Head(worker).user
  /\ closes' = IF stream = "Open" THEN closes + 1 ELSE closes
  /\ \/ stream' = "Initial" /\ UNCHANGED tokenWork
     \/ RequestCredentials
  /\ UNCHANGED <<authVars, main, labelled, counter, token>>

\* HandleCredentialChange: the streams are restarted for the user's writes, if any.
CredentialChange ==
  /\ worker # <<>> /\ Head(worker).kind = "change"
  /\ worker' = Tail(worker)
  /\ storeUser' = Head(worker).user
  /\ closes' = IF Started THEN closes + 1 ELSE closes
  /\ \/ stream' = "Initial" /\ UNCHANGED tokenWork
     \/ RequestCredentials
  /\ UNCHANGED <<authVars, main, labelled, counter, token>>

Open(r) ==
  /\ stream' = "Open"
  /\ token' = r.user
  /\ UNCHANGED closes

\* The stream is opened with the token, unless it was closed since it asked.
ResumeStart ==
  /\ worker # <<>> /\ Head(worker).kind = "resume"
  /\ worker' = Tail(worker)
  /\ LET r == Head(worker) IN
       \/ r.close # closes /\ UNCHANGED <<stream, token, closes>>
       \/ r.close = closes /\ r.ok /\ Open(r)
       \/ r.close = closes /\ ~r.ok /\ CloseWithError /\ UNCHANGED token
  /\ UNCHANGED <<authVars, tokenWork, main, labelled, counter, storeUser>>

-----------------------------------------------------------------------------
Next ==
  \/ UpdateCurrentUser \/ HandOut \/ Fetched
  \/ Notified \/ Answered
  \/ StartStream \/ BackoffElapsed \/ Break \/ StopStream
  \/ CredentialChange \/ ResumeStart

Spec == Init /\ [][Next]_vars

(***************************************************************************)
(* The queues are served and the backend answers, with a result or with    *)
(* the error of a timeout.                                                 *)
(***************************************************************************)
Fairness ==
  /\ WF_vars(HandOut) /\ WF_vars(Fetched)
  /\ WF_vars(Notified) /\ WF_vars(Answered)
  /\ WF_vars(CredentialChange) /\ WF_vars(ResumeStart)

FairSpec == Spec /\ Fairness

-----------------------------------------------------------------------------
\* Every token is used for its owner: an open stream, which sends the mutations of
\* storeUser, was opened with a token of storeUser, and a token that the provider hands
\* on is labelled with the user it belongs to, although label and token are taken at
\* different times from different owners (firebase_credentials_provider_apple.mm:86-110).
RightCredentials ==
  /\ stream = "Open" => token = storeUser
  /\ \A i \in DOMAIN worker :
       worker[i].kind = "resume" /\ worker[i].ok => worker[i].label = worker[i].user

\* The assertion of ResumeStartWithCredentials: a token that passes the check of the
\* close count finds the stream still starting (stream.cc:106-130).
Asserted ==
  /\ TypeOK
  /\ worker # <<>> =>
       (Head(worker).kind = "resume" /\ Head(worker).close = closes => stream = "Starting")

\* A stream that starts gets its token or an error, or is closed: no request for a
\* token is lost in the queues.
StartSettles == stream = "Starting" ~> stream # "Starting"
=============================================================================

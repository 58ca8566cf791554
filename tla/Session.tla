------------------------------ MODULE Session ------------------------------
(***************************************************************************)
(* Accounts, devices and the one-device binding of the Visions Academy app. *)
(*                                                                         *)
(* The app stores the identifier of the device an account is used on in    *)
(* the deviceID field of users/{uid}.  Registration writes the document,   *)
(* every login overwrites the field, and the splash screen compares it     *)
(* with the identifier of the device before it lets a signed-in user in.   *)
(* All writes go through the Firestore client: a persistent queue of       *)
(* mutations per user and device, sent in order, resent when the answer is *)
(* lost, and laid over a persistent cache when a document is read.         *)
(*                                                                         *)
(* A user of the app is slower than a route transition: forms and the      *)
(* sign-out tile are not used while a covered splash is still mounted.     *)
(***************************************************************************)
EXTENDS Naturals, Sequences, Functions

CONSTANTS Devices,     \* installations of the app, each with its identifier
          Users,       \* accounts
          None,        \* nobody is signed in
          NoDoc,       \* the account has no users/{uid} document
          NullId,      \* the deviceID null, written before getId() has answered
          NotCached,   \* the device has never seen the document
          MaxPending   \* bound on the unanswered writes of one user on a device

ASSUME ConstantsAssumption ==
  /\ NullId \notin Devices
  /\ NoDoc \notin Devices \cup {NullId}
  /\ NotCached \notin Devices \cup {NullId, NoDoc}
  /\ None \notin Users
  /\ MaxPending \in Nat \ {0}

VARIABLES
  \* the cloud
  accounts,   \* the accounts Firebase Auth knows
  doc,        \* doc[u]: the deviceID field of users/{u}
  \* what a device keeps when the app is closed
  auth,       \* auth[d]: the user the keychain of d holds
  cache,      \* cache[d][u]: the deviceID field as last received from the server
  queue,      \* queue[d][u]: u's mutations on d, oldest first
  \* what the running app holds
  sent,       \* sent[d]: whether the server has applied the oldest mutation
  page,       \* page[d]: the route on top
  check,      \* check[d]: the splash screen's navigateUser, the timer included
  mounted,    \* mounted[d]: the splash screen has not been disposed
  tapped,     \* tapped[d]: the splash button's listener is owed its first event
  form,       \* form[d]: the login or registration under way
  out,        \* out[d]: signOut() was called and has not completed
  \* history, read by properties only
  unchecked,  \* unchecked[d]: the splash button opened the home page shown
  claimed     \* claimed[d]: the accounts d has registered or logged in to

cloudVars  == <<accounts, doc>>
sdkVars    == <<cache, queue, sent>>
splashVars == <<check, mounted, tapped>>
vars == <<accounts, doc, auth, cache, queue, sent, page, check, mounted,
          tapped, form, out, unchecked, claimed>>

Ids == Devices \cup {NullId}
Write == [kind: {"set", "update"}, id: Ids]

TypeOK ==
  /\ accounts \subseteq Users
  /\ doc \in [Users -> Ids \cup {NoDoc}]
  /\ auth \in [Devices -> Users \cup {None}]
  /\ cache \in [Devices -> [Users -> Ids \cup {NoDoc, NotCached}]]
  /\ queue \in [Devices -> [Users -> Seq(Write)]]
  /\ sent \in [Devices -> {"no", "applied", "seen"}]
  /\ page \in [Devices -> {"closed", "splash", "register", "log", "home"}]
  /\ check \in [Devices -> {"off", "event", "get", "register", "home", "log"}]
  /\ mounted \in [Devices -> BOOLEAN]
  /\ tapped \in [Devices -> BOOLEAN]
  /\ form \in [Devices -> {"idle", "signing", "id", "creating", "created",
                           "writing", "stuck"}]
  /\ out \in [Devices -> BOOLEAN]
  /\ unchecked \in [Devices -> BOOLEAN]
  /\ claimed \in [Devices -> SUBSET Users]

Init ==
  /\ accounts = {}
  /\ doc = [u \in Users |-> NoDoc]
  /\ auth = [d \in Devices |-> None]
  /\ cache = [d \in Devices |-> [u \in Users |-> NotCached]]
  /\ queue = [d \in Devices |-> [u \in Users |-> <<>>]]
  /\ sent = [d \in Devices |-> "no"]
  /\ page = [d \in Devices |-> "closed"]
  /\ check = [d \in Devices |-> "off"]
  /\ mounted = [d \in Devices |-> FALSE]
  /\ tapped = [d \in Devices |-> FALSE]
  /\ form = [d \in Devices |-> "idle"]
  /\ out = [d \in Devices |-> FALSE]
  /\ unchecked = [d \in Devices |-> FALSE]
  /\ claimed = [d \in Devices |-> {}]

-----------------------------------------------------------------------------
(* The Firestore client *)

\* The document as the app sees it: a set makes it exist, an update only
\* changes a document that exists (Precondition::Exists).
View(base, q) ==
  IF q # <<>> /\ (base \in Ids \/ \E i \in 1..Len(q) : q[i].kind = "set")
  THEN q[Len(q)].id
  ELSE base

\* An acknowledged update of a document the cache does not hold leaves an
\* "unknown document", which reads like one never seen.
AfterAck(base, w) == IF w.kind = "set" \/ base \in Ids THEN w.id ELSE NotCached

\* Mutant: a failed or empty read counts as a match.
DevIdOrOwn(d, base) ==
  LET v == View(base, queue[d][auth[d]]) IN IF v \in Ids THEN v ELSE d

\* getDevIdFromDatabase: null when the document is missing or the read fails.
DevIdFrom(d, base) ==
  LET v == View(base, queue[d][auth[d]]) IN IF v \in Ids THEN v ELSE NullId

\* A snapshot from the server replaces what the cache holds, and makes a late
\* acknowledgement of an older write stale.
CacheSnapshot(d) ==
  /\ cache' = [cache EXCEPT ![d][auth[d]] = doc[auth[d]]]
  /\ sent' = [sent EXCEPT ![d] = IF @ = "applied" THEN "seen" ELSE @]

Enqueue(d, u, w) ==
  /\ queue' = [queue EXCEPT ![d][u] = Append(@, w)]
  /\ claimed' = [claimed EXCEPT ![d] = @ \cup {u}]

\* Mutant: pending writes are flushed by the home page only.
SendingAtHome(d, u) == page[d] = "home" /\ auth[d] = u /\ queue[d][u] # <<>>

\* The queue of the signed-in user is the one the write stream sends.
Sending(d, u) == page[d] # "closed" /\ auth[d] = u /\ queue[d][u] # <<>>

\* createUser resumes when the server has answered the mutation it awaits.
RegistrationAnswered(d, w, success) ==
  IF form[d] = "writing" /\ w.kind = "set"
  THEN IF success
       THEN /\ form' = [form EXCEPT ![d] = "idle"]
            /\ page' = [page EXCEPT ![d] = "log"]
       ELSE /\ form' = [form EXCEPT ![d] = "stuck"]
            /\ UNCHANGED page
  ELSE UNCHANGED <<form, page>>

\* Mutant: an update of a missing document creates it.
AlwaysApplies(u, w) == TRUE

\* An update carries the precondition that the document exists.
Applies(u, w) == w.kind = "set" \/ doc[u] # NoDoc

\* The server applies the oldest mutation; its answer is under way.
Deliver(d, u) ==
  /\ Sending(d, u)
  /\ sent[d] = "no"
  /\ Applies(u, Head(queue[d][u]))
  /\ doc' = [doc EXCEPT ![u] = Head(queue[d][u]).id]
  /\ sent' = [sent EXCEPT ![d] = "applied"]
  /\ UNCHANGED <<accounts, auth, cache, queue, page, splashVars, form, out,
                 unchecked, claimed>>

\* The answer arrives.  The cache takes the write unless it is newer already.
Acknowledge(d, u) ==
  /\ Sending(d, u)
  /\ sent[d] # "no"
  /\ RegistrationAnswered(d, Head(queue[d][u]), TRUE)
  /\ cache' = [cache EXCEPT ![d][u] =
                 IF sent[d] = "seen" THEN @ ELSE AfterAck(@, Head(queue[d][u]))]
  /\ queue' = [queue EXCEPT ![d][u] = Tail(@)]
  /\ sent' = [sent EXCEPT ![d] = "no"]
  /\ UNCHANGED <<cloudVars, auth, splashVars, out, unchecked, claimed>>

\* A permanent error: an update of a missing document, or the server's rules.
Reject(d, u) ==
  /\ Sending(d, u)
  /\ sent[d] = "no"
  /\ RegistrationAnswered(d, Head(queue[d][u]), FALSE)
  /\ queue' = [queue EXCEPT ![d][u] = Tail(@)]
  /\ UNCHANGED <<cloudVars, auth, cache, sent, splashVars, out, unchecked, claimed>>

\* The write stream breaks before the answer: the mutation will be sent again.
LoseAnswer(d) ==
  /\ sent[d] # "no"
  /\ sent' = [sent EXCEPT ![d] = "no"]
  /\ UNCHANGED <<cloudVars, auth, cache, queue, page, splashVars, form, out,
                 unchecked, claimed>>

-----------------------------------------------------------------------------
(* The process *)

\* The app is opened: the splash screen subscribes to authStateChanges.
Start(d) ==
  /\ page[d] = "closed"
  /\ page' = [page EXCEPT ![d] = "splash"]
  /\ check' = [check EXCEPT ![d] = "event"]
  /\ mounted' = [mounted EXCEPT ![d] = TRUE]
  /\ UNCHANGED <<cloudVars, auth, sdkVars, tapped, form, out, unchecked, claimed>>

\* The process ends anywhere: what is not persisted is gone, a sign-out under
\* way included.
Kill(d) ==
  /\ page[d] # "closed"
  /\ page' = [page EXCEPT ![d] = "closed"]
  /\ check' = [check EXCEPT ![d] = "off"]
  /\ mounted' = [mounted EXCEPT ![d] = FALSE]
  /\ tapped' = [tapped EXCEPT ![d] = FALSE]
  /\ form' = [form EXCEPT ![d] = "idle"]
  /\ out' = [out EXCEPT ![d] = FALSE]
  /\ sent' = [sent EXCEPT ![d] = "no"]
  /\ unchecked' = [unchecked EXCEPT ![d] = FALSE]
  /\ UNCHANGED <<cloudVars, auth, cache, queue, claimed>>

-----------------------------------------------------------------------------
(* The splash screen *)

\* The listener's first event: nobody signed in arms the timer for the
\* registration page, a user starts reading the profile.
AuthEvent(d) ==
  /\ check[d] = "event"
  /\ check' = [check EXCEPT ![d] = IF auth[d] = None THEN "register" ELSE "get"]
  /\ UNCHANGED <<cloudVars, auth, sdkVars, page, mounted, tapped, form, out,
                 unchecked, claimed>>

\* Mutant: any binding is enough.
CompareAnyBinding(d, base) ==
  check' = [check EXCEPT ![d] =
              IF DevIdFrom(d, base) # NullId THEN "home" ELSE "log"]

\* Mutant: the branch of a different device does not arm a timer.
CompareSilently(d, base) ==
  check' = [check EXCEPT ![d] = IF DevIdFrom(d, base) = d THEN "home" ELSE "off"]

\* The two identifiers are compared and the 6 second timer is armed.
Compare(d, base) ==
  check' = [check EXCEPT ![d] = IF DevIdFrom(d, base) = d THEN "home" ELSE "log"]

FetchFromServer(d) ==
  /\ check[d] = "get"
  /\ CacheSnapshot(d)
  /\ Compare(d, doc[auth[d]])
  /\ UNCHANGED <<cloudVars, auth, queue, page, mounted, tapped, form, out,
                 unchecked, claimed>>

\* Offline, the cached document stands in; without one the read fails.
FetchFromCache(d) ==
  /\ check[d] = "get"
  /\ Compare(d, cache[d][auth[d]])
  /\ UNCHANGED <<cloudVars, auth, sdkVars, page, mounted, tapped, form, out,
                 unchecked, claimed>>

\* The timer fires, while the splash screen's context still navigates.
TimerFires(d) ==
  /\ check[d] \in {"register", "home", "log"}
  /\ mounted[d]
  /\ check' = [check EXCEPT ![d] = "off"]
  /\ page' = [page EXCEPT ![d] = check[d]]
  /\ unchecked' = [unchecked EXCEPT ![d] = FALSE]
  /\ UNCHANGED <<cloudVars, auth, sdkVars, mounted, tapped, form, out, claimed>>

\* "Knowledge is power": a second listener, which does not check the device.
Tap(d) ==
  /\ page[d] = "splash"
  /\ tapped' = [tapped EXCEPT ![d] = TRUE]
  /\ UNCHANGED <<cloudVars, auth, sdkVars, page, check, mounted, form, out,
                 unchecked, claimed>>

TapEvent(d) ==
  /\ tapped[d]
  /\ tapped' = [tapped EXCEPT ![d] = FALSE]
  /\ page' = [page EXCEPT ![d] =
                IF auth[d] = None THEN "register" ELSE "home"]
  /\ unchecked' = [unchecked EXCEPT ![d] = auth[d] # None]
  /\ UNCHANGED <<cloudVars, auth, sdkVars, check, mounted, form, out, claimed>>

\* The transition away from the splash screen ends, after the events owed to
\* its listeners.  A disposed context navigates nowhere: a timer still armed
\* fires into nothing, and a read still under way can only refresh the cache,
\* which RefreshProfile stands for.
SplashDisposed(d) ==
  /\ mounted[d]
  /\ page[d] # "splash"
  /\ ~tapped[d] /\ check[d] # "event"
  /\ mounted' = [mounted EXCEPT ![d] = FALSE]
  /\ check' = [check EXCEPT ![d] = "off"]
  /\ UNCHANGED <<cloudVars, auth, sdkVars, page, tapped, form, out, unchecked,
                 claimed>>

-----------------------------------------------------------------------------
(* The registration and login pages *)

Idle(d) == form[d] = "idle" /\ ~mounted[d]

\* Mutant: the links name a route that does not exist.
FollowBrokenLink(d) ==
  /\ Idle(d)
  /\ page[d] \in {"register", "log"}
  /\ page' = [page EXCEPT ![d] = IF @ = "log" THEN "register" ELSE "login"]
  /\ UNCHANGED <<cloudVars, auth, sdkVars, splashVars, form, out, unchecked,
                 claimed>>

\* The links between the two pages.
FollowLink(d) ==
  /\ Idle(d)
  /\ page[d] \in {"register", "log"}
  /\ page' = [page EXCEPT ![d] = IF @ = "log" THEN "register" ELSE "log"]
  /\ UNCHANGED <<cloudVars, auth, sdkVars, splashVars, form, out, unchecked,
                 claimed>>

\* Register and Log In replace the form by Loading() until an answer.
Submit(d) ==
  /\ Idle(d)
  /\ page[d] \in {"register", "log"}
  /\ form' = [form EXCEPT ![d] =
                IF page[d] = "log" THEN "signing" ELSE "creating"]
  /\ UNCHANGED <<cloudVars, auth, sdkVars, page, splashVars, out, unchecked,
                 claimed>>

\* A new credential restarts the streams of the Firestore client.
Authenticate(d, u) ==
  /\ ~out[d]
  /\ auth' = [auth EXCEPT ![d] = u]
  /\ sent' = [sent EXCEPT ![d] = "no"]

\* createUserWithEmailAndPassword creates the account and signs it in.
AccountCreated(d, u) ==
  /\ form[d] = "creating"
  /\ u \notin accounts
  /\ accounts' = accounts \cup {u}
  /\ Authenticate(d, u)
  /\ form' = [form EXCEPT ![d] = "created"]
  /\ UNCHANGED <<doc, cache, queue, page, splashVars, out, unchecked, claimed>>

\* It throws, on a taken address or a lost answer to a creation that took
\* place; signUpUser returns null and nothing leaves Loading().
AccountRefused(d) ==
  /\ form[d] = "creating"
  /\ \/ UNCHANGED accounts
     \/ \E u \in Users \ accounts : accounts' = accounts \cup {u}
  /\ form' = [form EXCEPT ![d] = "stuck"]
  /\ UNCHANGED <<doc, auth, sdkVars, page, splashVars, out, unchecked, claimed>>

\* createUser: the whole document is set.
ProfileWrite(id) == [kind |-> "set", id |-> id]

\* createUser sets the profile with the devID the page holds, null as long as
\* its getId() has not answered.
WriteProfile(d) ==
  /\ form[d] = "created"
  /\ \E id \in {d, NullId} : Enqueue(d, auth[d], ProfileWrite(id))
  /\ form' = [form EXCEPT ![d] = "writing"]
  /\ UNCHANGED <<cloudVars, auth, cache, sent, page, splashVars, out, unchecked>>

\* signInWithEmailAndPassword returns; getUID() is read, getId() is awaited.
SignedIn(d, u) ==
  /\ form[d] = "signing"
  /\ u \in accounts
  /\ Len(queue[d][u]) < MaxPending
  /\ Authenticate(d, u)
  /\ form' = [form EXCEPT ![d] = "id"]
  /\ UNCHANGED <<cloudVars, cache, queue, page, splashVars, out, unchecked, claimed>>

\* Mutant: the error does not take the form out of Loading().
SignInFailsLoading(d) ==
  /\ form[d] = "signing"
  /\ form' = [form EXCEPT ![d] = "stuck"]
  /\ UNCHANGED <<cloudVars, auth, sdkVars, page, splashVars, out, unchecked,
                 claimed>>

\* signInWithEmailAndPassword throws, and the catch resets loading.
SignInFails(d) ==
  /\ form[d] = "signing"
  /\ form' = [form EXCEPT ![d] = "idle"]
  /\ UNCHANGED <<cloudVars, auth, sdkVars, page, splashVars, out, unchecked,
                 claimed>>

\* Mutant: loginUser sets the document instead of updating it.
LoginSets(d) == [kind |-> "set", id |-> d]

\* loginUser: one field of a document that must exist is updated.
LoginWrite(d) == [kind |-> "update", id |-> d]

\* getId() answered: loginUser is called, not awaited, and the home page opens.
\* onSignedIn is null, so the handler ends in its catch, which frees the form.
LoginUser(d) ==
  /\ form[d] = "id"
  /\ Enqueue(d, auth[d], LoginWrite(d))
  /\ form' = [form EXCEPT ![d] = "idle"]
  /\ page' = [page EXCEPT ![d] = "home"]
  /\ unchecked' = [unchecked EXCEPT ![d] = FALSE]
  /\ UNCHANGED <<cloudVars, auth, cache, sent, splashVars, out>>

-----------------------------------------------------------------------------
(* Past the splash screen *)

\* A read of the profile whose value only fills the drawer, or the rest of a
\* splash listener's run: what stays of it is the refreshed cache.
RefreshProfile(d) ==
  /\ page[d] \in {"register", "log", "home"}
  /\ auth[d] # None
  /\ CacheSnapshot(d)
  /\ UNCHANGED <<cloudVars, auth, queue, page, splashVars, form, out, unchecked,
                 claimed>>

\* Mutant: signing out stays on the page.
SignOutInPlace(d) ==
  /\ page[d] = "home"
  /\ ~mounted[d]
  /\ out' = [out EXCEPT ![d] = TRUE]
  /\ UNCHANGED <<cloudVars, auth, sdkVars, page, splashVars, form, unchecked,
                 claimed>>

\* The sign-out tile: signOut() is not awaited, the login page opens at once.
SignOut(d) ==
  /\ page[d] = "home"
  /\ ~mounted[d]
  /\ out' = [out EXCEPT ![d] = TRUE]
  /\ page' = [page EXCEPT ![d] = "log"]
  /\ unchecked' = [unchecked EXCEPT ![d] = FALSE]
  /\ UNCHANGED <<cloudVars, auth, sdkVars, splashVars, form, claimed>>

\* signOut() completes: the keychain is cleared and the streams restart.
SignedOut(d) ==
  /\ out[d]
  /\ out' = [out EXCEPT ![d] = FALSE]
  /\ auth' = [auth EXCEPT ![d] = None]
  /\ sent' = [sent EXCEPT ![d] = "no"]
  /\ UNCHANGED <<cloudVars, cache, queue, page, splashVars, form, unchecked,
                 claimed>>

-----------------------------------------------------------------------------
Device(d) ==
  \/ Start(d) \/ Kill(d)
  \/ AuthEvent(d) \/ FetchFromServer(d) \/ FetchFromCache(d) \/ TimerFires(d)
  \/ Tap(d) \/ TapEvent(d) \/ SplashDisposed(d)
  \/ FollowLink(d) \/ Submit(d) \/ AccountRefused(d) \/ WriteProfile(d)
  \/ SignInFails(d) \/ LoginUser(d)
  \/ RefreshProfile(d) \/ SignOut(d) \/ SignedOut(d) \/ LoseAnswer(d)

DeviceUser(d, u) ==
  \/ AccountCreated(d, u) \/ SignedIn(d, u)
  \/ Deliver(d, u) \/ Acknowledge(d, u) \/ Reject(d, u)

Next == \E d \in Devices : Device(d) \/ \E u \in Users : DeviceUser(d, u)

Spec == Init /\ [][Next]_vars

\* The plugin answers its calls and the event loop runs; the network may break
\* an answer off again and again, but not every time.
Fairness ==
  /\ \A d \in Devices :
       /\ WF_vars(AuthEvent(d))
       /\ WF_vars(FetchFromServer(d) \/ FetchFromCache(d))
       /\ WF_vars(TimerFires(d))
       /\ WF_vars(SplashDisposed(d))
       /\ WF_vars(SignInFails(d) \/ \E u \in Users : SignedIn(d, u))
       /\ WF_vars(AccountRefused(d) \/ \E u \in Users : AccountCreated(d, u))
       /\ WF_vars(WriteProfile(d))
       /\ WF_vars(LoginUser(d))
       /\ WF_vars(SignedOut(d))
  /\ \A d \in Devices, u \in Users :
       /\ WF_vars(Deliver(d, u) \/ Reject(d, u))
       /\ SF_vars(Acknowledge(d, u))

FairSpec == Spec /\ Fairness

-----------------------------------------------------------------------------
(* Properties *)

\* The home page is shown only while the keychain holds a user: sign-out
\* leaves the page before the credential goes, and no splash path enters it
\* on a stale event.
HomeSignedIn == \A d \in Devices : page[d] = "home" => auth[d] # None

\* d shows the home page after a login or a check of the device.
Admitted(d) == page[d] = "home" /\ ~unchecked[d]

\* Except through the splash button, the home page is shown only for an
\* account that this very device registered or logged in to: the identifier
\* the splash screen compares, read from the server, from the cache or from an
\* unsent write, never vouches for another installation.
HomeClaimed == \A d \in Devices : Admitted(d) => auth[d] \in claimed[d]

\* The users/{uid} document of u is about to be created from d.
Registering(d, u) ==
  \/ auth[d] = u /\ form[d] = "created"
  \/ \E i \in 1..Len(queue[d][u]) : queue[d][u][i].kind = "set"

\* A profile is set by one registration only, from one device: a set that is
\* resent late cannot meet the set of another registration of the account.
SingleRegistration ==
  \A u \in Users, d, e \in Devices :
    Registering(d, u) =>
      /\ u \in accounts
      /\ Registering(e, u) => d = e

\* An account whose registration died before the profile was queued, or was
\* refused.
Orphan(u) ==
  u \in accounts /\ doc[u] = NoDoc /\ \A d \in Devices : ~Registering(d, u)

\* Such an account never gets a profile again: the address is taken, and a
\* login only updates.
OrphanStays == [][\A u \in Users : Orphan(u) => Orphan(u)']_vars

\* d has seen that u is bound elsewhere and has nothing left to send for u.
Displaced(d, u) ==
  /\ doc[u] # d /\ cache[d][u] # d /\ queue[d][u] = <<>>
  /\ auth[d] = u => /\ form[d] \notin {"id", "created"}
                    /\ ~(mounted[d] /\ check[d] = "home")

\* A displaced device is not let in by the splash check again until the user
\* logs in (or registers) on it again, however reads, answers, resent writes
\* and restarts fall.
DisplacedStaysOut ==
  [][\A d \in Devices, u \in Users : Displaced(d, u) =>
       /\ Displaced(d, u)' \/ (auth'[d] = u /\ form'[d] \in {"id", "created"})
       /\ auth[d] = u /\ Admitted(d)' => Admitted(d)]_vars

\* The writes of u's document that wait on some device.
Unanswered(u) == UNION {Range(queue[d][u]) : d \in Devices}

\* The deviceID fields behave as DeviceBinding says.
Binding == INSTANCE DeviceBinding WITH
  bound <- doc, claims <- [u \in Users |-> Unanswered(u)]

BindingSpec == Binding!Spec

\* The splash screen is always left, whatever the profile read gives.
SplashLeaves ==
  \A d \in Devices : page[d] = "splash" ~> page[d] # "splash"

\* Every form submitted comes back or is stuck for good; a login always comes
\* back.
FormSettles ==
  \A d \in Devices :
    /\ form[d] # "idle" ~> form[d] \in {"idle", "stuck"}
    /\ form[d] = "signing" ~> form[d] = "idle"

\* The writes of a user who stays signed in reach the server, whatever answers
\* are lost.
ClaimsSettle ==
  \A d \in Devices, u \in Users :
    queue[d][u] # <<>> ~>
      (queue[d][u] = <<>> \/ auth[d] # u \/ page[d] = "closed")
=============================================================================

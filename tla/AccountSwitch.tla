--------------------------- MODULE AccountSwitch ---------------------------
(***************************************************************************)
(* One process of the app while accounts come and go.                      *)
(*                                                                         *)
(* The pages share two globals: u_id, which every page that sells courses  *)
(* sets in its initPlatformState and Sign out clears, and the user         *)
(* RevenueCat was set up with.  Nothing waits for a page that is still     *)
(* initialising, or for a press of the subscription page's button, when    *)
(* the user signs out: both go on and use the globals as they find them.   *)
(***************************************************************************)
CONSTANTS Accounts,
          Nobody,    \* null where an account may be
          Pages,     \* bound: pages that sell courses, shown or initialising
          Presses    \* bound: presses of the button under way

ASSUME AccountsAssumption == Nobody \notin Accounts

VARIABLES
  user,      \* FirebaseAuth.instance.currentUser
  leaving,   \* signOut was called and has not taken effect
  bar,       \* the bottom bar is shown
  content,   \* currentWidget: the home page or one that sells nothing
  uid,       \* u_id
  rc,        \* RevenueCat's appUserID, kept in the user defaults
  page,      \* page[p]: its fields, and how far initPlatformState got
  press,     \* press[k]: how far the button's handler got
  filed      \* history, for properties only: the request filed last, if any

globals == <<user, leaving, uid, rc>>
vars == <<user, leaving, bar, content, uid, rc, page, press, filed>>

Closed == [home |-> FALSE, at |-> "new", userId |-> Nobody, purchaserInfo |-> Nobody,
           asked |-> Nobody, shown |-> FALSE, selling |-> FALSE]
Idle == [at |-> "idle", email |-> Nobody, alone |-> TRUE]

Init ==
  /\ user = Nobody /\ uid = Nobody /\ rc = Nobody
  /\ leaving = FALSE /\ bar = FALSE
  /\ content = "home"
  /\ page = [p \in Pages |-> Closed]
  /\ press = [k \in Presses |-> Idle]
  /\ filed = {}

-----------------------------------------------------------------------------
(* Signing in and out *)

\* A page that is not shown any more still finishes its initPlatformState.
Hidden(p) == [page[p] EXCEPT !.shown = FALSE, !.selling = FALSE]
Opened(isHome) ==
  [Closed EXCEPT !.home = isHome, !.at = "logs", !.shown = TRUE]
Free(p) == ~page[p].shown /\ page[p].at \in {"new", "done", "failed"}
ShowNew(isHome) ==
  \E p \in Pages : Free(p) /\ page' = [page EXCEPT ![p] = Opened(isHome)]
HideHome ==
  page' = [p \in Pages |-> IF page[p].home THEN Hidden(p) ELSE page[p]]
Covered == \E p \in Pages : page[p].shown /\ ~page[p].home

SignIn(a) ==
  /\ ~bar /\ user = Nobody /\ ~leaving
  /\ user' = a
  /\ UNCHANGED <<leaving, bar, content, uid, rc, page, press, filed>>

\* The bottom bar builds the content the last user of the process left.
EnterBar ==
  /\ ~bar /\ user # Nobody /\ ~leaving
  /\ bar' = TRUE
  /\ \/ content = "home" /\ ShowNew(TRUE)
     \/ content = "other" /\ UNCHANGED page
  /\ UNCHANGED <<globals, content, press, filed>>

\* The Sign out tile: reachable while no page covers the drawer.
SignOut ==
  /\ bar
  /\ ~Covered
  /\ bar' = FALSE /\ leaving' = TRUE /\ uid' = Nobody
  /\ HideHome
  /\ press' = [k \in Presses |-> [press[k] EXCEPT !.alone = FALSE]]
  /\ UNCHANGED <<user, content, rc, filed>>

SignedOut ==
  /\ leaving
  /\ user' = Nobody /\ leaving' = FALSE
  /\ UNCHANGED <<bar, content, uid, rc, page, press, filed>>

\* The process is ended and started again.
Restart ==
  /\ bar' = FALSE /\ content' = "home" /\ uid' = Nobody
  /\ user' = IF leaving THEN Nobody ELSE user
  /\ leaving' = FALSE
  /\ page' = [p \in Pages |-> Closed]
  /\ press' = [k \in Presses |-> Idle]
  /\ UNCHANGED <<rc, filed>>

-----------------------------------------------------------------------------
(* The pages that sell courses *)

Open ==
  /\ bar /\ content = "home" /\ ~Covered
  /\ ShowNew(FALSE)
  /\ UNCHANGED <<globals, bar, content, press, filed>>

Close(p) ==
  /\ ~page[p].home /\ page[p].shown
  /\ page' = [page EXCEPT ![p] = Hidden(p)]
  /\ UNCHANGED <<globals, bar, content, press, filed>>

\* The drawer's tiles.
ShowOther ==
  /\ bar /\ ~Covered
  /\ content' = "other"
  /\ HideHome
  /\ UNCHANGED <<globals, bar, press, filed>>

ShowHome ==
  /\ bar /\ content = "other"
  /\ content' = "home"
  /\ ShowNew(TRUE)
  /\ UNCHANGED <<globals, bar, press, filed>>

\* Mutant: u_id is set only where it is missing.
SetupOnce(p) ==
  /\ page[p].at = "logs" /\ user # Nobody
  /\ uid' = IF uid = Nobody THEN user ELSE uid
  /\ rc' = user
  /\ page' = [page EXCEPT ![p].at = "setup", ![p].userId = user]
  /\ UNCHANGED <<user, leaving, bar, content, press, filed>>

\* After setDebugLogsEnabled: userId, u_id and Purchases.setup, without a wait.
Setup(p) ==
  /\ page[p].at = "logs" /\ user # Nobody
  /\ uid' = user /\ rc' = user
  /\ page' = [page EXCEPT ![p].at = "setup", ![p].userId = user]
  /\ UNCHANGED <<user, leaving, bar, content, press, filed>>

\* Mutant: identify is called with the page's own user.
IdentifyUser(p) ==
  /\ page[p].at = "setup"
  /\ rc' = page[p].userId
  /\ page' = [page EXCEPT ![p].at = "asked", ![p].asked = page[p].userId]
  /\ UNCHANGED <<user, leaving, bar, content, uid, press, filed>>

\* identify(u_id), as u_id is by now.  It makes u_id RevenueCat's user and
\* asks for that user's purchases.
Identify(p) ==
  /\ page[p].at = "setup" /\ uid # Nobody
  /\ rc' = uid
  /\ page' = [page EXCEPT ![p].at = "asked", ![p].asked = uid]
  /\ UNCHANGED <<user, leaving, bar, content, uid, press, filed>>

Identified(p) ==
  /\ page[p].at = "asked"
  /\ page' = [page EXCEPT ![p].at = "offerings", ![p].purchaserInfo = page[p].asked]
  /\ UNCHANGED <<globals, bar, content, press, filed>>

GotOfferings(p) ==
  /\ page[p].at = "offerings"
  /\ page' = [page EXCEPT ![p].at = "done"]
  /\ UNCHANGED <<globals, bar, content, press, filed>>

\* Any of its calls throws, at the latest when nobody is signed in: the fields
\* set so far stay, and initPlatformState is not run again.
InitFails(p) ==
  /\ page[p].at \in {"logs", "setup", "asked", "offerings"}
  /\ page' = [page EXCEPT ![p].at = "failed"]
  /\ UNCHANGED <<globals, bar, content, press, filed>>

\* A course that is not paid for: purchaserInfo and offerings are dereferenced.
\* The subscription page the home page opens, without a package, never builds.
Sell(p) ==
  /\ page[p].shown /\ ~page[p].home /\ ~page[p].selling /\ page[p].at = "done"
  /\ page' = [page EXCEPT ![p].selling = TRUE]
  /\ UNCHANGED <<globals, bar, content, press, filed>>

StopSelling(p) ==
  /\ page[p].selling
  /\ page' = [page EXCEPT ![p].selling = FALSE]
  /\ UNCHANGED <<globals, bar, content, press, filed>>

-----------------------------------------------------------------------------
(* The subscription page's button *)

PressButton(k, p) ==
  /\ page[p].selling /\ press[k].at = "idle"
  /\ press' = [press EXCEPT ![k] = [at |-> "first", email |-> page[p].userId,
                                    alone |-> TRUE]]
  /\ UNCHANGED <<globals, bar, content, page, filed>>

\* The write names the account of u_id and the e-mail the page was built with.
File(k) ==
  /\ filed' = {[doc |-> uid, email |-> press[k].email,
                 alone |-> press[k].alone]}
  /\ press' = [press EXCEPT ![k] = Idle]
  /\ UNCHANGED <<globals, bar, content, page>>

\* checkFirstTime found no document, or failed.
FirstTime(k) == press[k].at = "first" /\ File(k)

NotFirstTime(k) ==
  /\ press[k].at = "first"
  /\ press' = [press EXCEPT ![k].at = "again"]
  /\ UNCHANGED <<globals, bar, content, page, filed>>

AskAgain(k) == press[k].at = "again" /\ uid # Nobody /\ File(k)

\* Already requested, nobody's u_id, or a read that failed.
NothingFiled(k) ==
  /\ press[k].at = "again"
  /\ press' = [press EXCEPT ![k] = Idle]
  /\ UNCHANGED <<globals, bar, content, page, filed>>

-----------------------------------------------------------------------------
Next ==
  \/ \E a \in Accounts : SignIn(a)
  \/ EnterBar \/ SignOut \/ SignedOut \/ Restart \/ ShowOther \/ ShowHome \/ Open
  \/ \E p \in Pages :
       \/ Close(p) \/ Setup(p) \/ Identify(p) \/ Identified(p)
       \/ GotOfferings(p) \/ InitFails(p) \/ Sell(p) \/ StopSelling(p)
  \/ \E k \in Presses :
       \/ \E p \in Pages : PressButton(k, p)
       \/ FirstTime(k) \/ NotFirstTime(k) \/ AskAgain(k) \/ NothingFiled(k)

Spec == Init /\ [][Next]_vars

-----------------------------------------------------------------------------
(* Properties *)

\* A page that can be seen, however late the pages before it finish or fail,
\* asks after the purchases of the account it was opened by, and what it sells
\* is requested under that account: its e-mail, u_id and the user agree.
ShownIsOwn ==
  \A p \in Pages : page[p].shown =>
    /\ page[p].purchaserInfo \in {Nobody, user}
    /\ page[p].selling => page[p].userId = user /\ uid = user

\* RevenueCat and the app never work for two accounts: whatever order pages of
\* an old and of a new account set both in, they agree while u_id is set.
SameUser == uid # Nobody => rc = uid

\* A press that no sign-out overtook files its request under the account whose
\* e-mail it carries.
RequestIsOwn == \A r \in filed : r.alone => r.doc = r.email
=============================================================================

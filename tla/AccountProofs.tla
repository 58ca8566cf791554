---------------------------- MODULE AccountProofs ----------------------------
(***************************************************************************)
(* Proofs about AccountSwitch, for any accounts, pages and presses.        *)
(*                                                                         *)
(* The three invariants rest on one: while a page is shown, or a press no  *)
(* sign-out overtook is under way, the bar is shown, somebody is signed in *)
(* and nobody is leaving.  So the page's own set-up has been the last to   *)
(* change u_id, or another page of the same account was.                   *)
(***************************************************************************)
EXTENDS AccountSwitch, TLAPS

Ats == {"new", "logs", "setup", "asked", "offerings", "done", "failed"}
PageState ==
  [home : BOOLEAN, at : Ats, userId : Accounts \cup {Nobody},
   purchaserInfo : Accounts \cup {Nobody}, asked : Accounts \cup {Nobody},
   shown : BOOLEAN, selling : BOOLEAN]
PressState == [at : {"idle", "first", "again"}, email : Accounts \cup {Nobody},
               alone : BOOLEAN]

Types ==
  /\ user \in Accounts \cup {Nobody} /\ uid \in Accounts \cup {Nobody}
  /\ leaving \in BOOLEAN /\ bar \in BOOLEAN
  /\ page \in [Pages -> PageState]
  /\ press \in [Presses -> PressState]

\* The bar is shown to one account, from its sign-in to its sign-out.
BarIsSomebodys == bar => user # Nobody /\ ~leaving

\* What a shown page may hold: only the user's, and once it is set up, u_id is
\* the user's too.
OwnPage(p) ==
  page[p].shown =>
    /\ bar
    /\ page[p].asked \in {Nobody, user}
    /\ page[p].purchaserInfo \in {Nobody, user}
    /\ page[p].at \in {"setup", "asked", "offerings", "done"} =>
         page[p].userId = user /\ uid = user

\* The subscription page is open over a page that finished.
Sells(p) == page[p].selling => page[p].shown /\ page[p].at = "done"

OwnPress(k) ==
  press[k].at # "idle" /\ press[k].alone =>
    bar /\ press[k].email = user /\ uid = user

Inv ==
  /\ Types
  /\ BarIsSomebodys
  /\ \A p \in Pages : OwnPage(p) /\ Sells(p)
  /\ \A k \in Presses : OwnPress(k)
  /\ SameUser
  /\ RequestIsOwn

LEMMA InitInv == Init => Inv
<1> SUFFICES ASSUME Init PROVE Inv
  OBVIOUS
<1>1. Closed \in PageState /\ ~Closed.shown /\ ~Closed.selling
  BY DEF Closed, PageState, Ats
<1>2. Idle \in PressState /\ Idle.at = "idle"
  BY DEF Idle, PressState
<1>3. Types
  BY <1>1, <1>2 DEF Init, Types
<1> QED
  BY <1>1, <1>2, <1>3
  DEF Init, Inv, BarIsSomebodys, OwnPage, Sells, OwnPress, SameUser, RequestIsOwn

-----------------------------------------------------------------------------
(* The steps, a family at a time *)

\* What hiding and opening do to the page concerned and to the others.
LEMMA HiddenPage ==
  ASSUME Types, NEW p \in Pages
  PROVE  /\ Hidden(p) \in PageState
         /\ ~Hidden(p).shown /\ ~Hidden(p).selling
BY DEF Types, PageState, Hidden

LEMMA OpenedPage ==
  ASSUME NEW isHome \in BOOLEAN
  PROVE  /\ Opened(isHome) \in PageState
         /\ Opened(isHome).at = "logs" /\ ~Opened(isHome).selling
         /\ Opened(isHome).asked = Nobody /\ Opened(isHome).purchaserInfo = Nobody
BY DEF Opened, Closed, PageState, Ats

\* While the bar stays and the account and u_id do, a page that is opened owns
\* nothing yet.
LEMMA ShowNewStep ==
  ASSUME Inv, NEW isHome \in BOOLEAN, ShowNew(isHome), bar',
         UNCHANGED <<user, uid, leaving, press>>
  PROVE  /\ page' \in [Pages -> PageState]
         /\ \A p \in Pages : OwnPage(p)' /\ Sells(p)'
<1>1. PICK n \in Pages : page' = [page EXCEPT ![n] = Opened(isHome)]
  BY DEF ShowNew
<1>2. ASSUME NEW p \in Pages PROVE OwnPage(p)' /\ Sells(p)'
  <2>1. CASE p = n
    BY <1>1, <2>1, OpenedPage DEF OwnPage, Sells, Inv, Types
  <2>2. CASE p # n
    BY <1>1, <2>2 DEF OwnPage, Sells, Inv, Types
  <2> QED
    BY <2>1, <2>2
<1> QED
  BY <1>1, <1>2, OpenedPage DEF Inv, Types

Vanishes(p) == ~page'[p].shown /\ ~page'[p].selling

\* Hiding pages asks less of those that are left.
LEMMA HideHomeStep ==
  ASSUME Inv, HideHome
  PROVE  /\ page' \in [Pages -> PageState]
         /\ \A p \in Pages : (page'[p] = page[p] /\ ~page[p].home) \/ Vanishes(p)
<1>1. page' = [p \in Pages |-> IF page[p].home THEN Hidden(p) ELSE page[p]]
  BY DEF HideHome
<1>2. ASSUME NEW p \in Pages
      PROVE  /\ page'[p] \in PageState
             /\ (page'[p] = page[p] /\ ~page[p].home) \/ Vanishes(p)
  <2>1. page[p] \in PageState
    BY DEF Inv, Types
  <2>2. CASE page[p].home
    BY <1>1, <2>2, HiddenPage DEF Inv, Vanishes
  <2>3. CASE ~page[p].home
    BY <1>1, <2>1, <2>3
  <2> QED
    BY <2>2, <2>3
<1> QED
  BY <1>1, <1>2

\* Nobody's pages are shown while the bar is not, nor any on which a press goes on.
LEMMA NoBar ==
  ASSUME Inv, ~bar
  PROVE  /\ \A p \in Pages : ~page[p].shown /\ ~page[p].selling
         /\ \A k \in Presses : press[k].at # "idle" => ~press[k].alone
BY DEF Inv, OwnPage, Sells, OwnPress

LEMMA ArrivingStep ==
  ASSUME Inv, (\E a \in Accounts : SignIn(a)) \/ EnterBar \/ SignedOut
  PROVE  Inv'
<1>1. ASSUME NEW a \in Accounts, SignIn(a) PROVE Inv'
  BY <1>1, NoBar
  DEF SignIn, Inv, Types, BarIsSomebodys, OwnPage, Sells, OwnPress, SameUser, RequestIsOwn
<1>2. CASE EnterBar
  <2>1. /\ page' \in [Pages -> PageState]
        /\ \A p \in Pages : OwnPage(p)' /\ Sells(p)'
    <3>1. CASE ShowNew(TRUE)
      BY <1>2, <3>1, ShowNewStep DEF EnterBar, globals
    <3>2. CASE UNCHANGED page
      BY <1>2, <3>2, NoBar DEF EnterBar, OwnPage, Sells, Inv, Types
    <3> QED
      BY <1>2, <3>1, <3>2 DEF EnterBar
  <2> QED
    BY <1>2, <2>1, NoBar
    DEF EnterBar, globals, Inv, Types, BarIsSomebodys, OwnPress, SameUser, RequestIsOwn
<1>3. CASE SignedOut
  <2>1. ~bar
    BY <1>3 DEF SignedOut, Inv, BarIsSomebodys
  <2> QED
    BY <1>3, <2>1, NoBar
    DEF SignedOut, Inv, Types, BarIsSomebodys, OwnPage, Sells, OwnPress, SameUser,
        RequestIsOwn
<1> QED
  BY <1>1, <1>2, <1>3

\* After a sign-out nothing is shown and no press is alone.
LEMMA SignOutStep ==
  ASSUME Inv, SignOut
  PROVE  Inv'
<1>1. /\ page' \in [Pages -> PageState]
      /\ \A p \in Pages : ~page'[p].shown /\ ~page'[p].selling
  <2>1. HideHome /\ \A p \in Pages : page[p].shown => page[p].home
    BY DEF SignOut, Covered
  <2> QED
    BY <2>1, HideHomeStep DEF Inv, Sells, Vanishes
<1>2. /\ press' \in [Presses -> PressState]
      /\ \A k \in Presses : ~press'[k].alone
  BY DEF SignOut, Inv, Types, PressState
<1> QED
  BY <1>1, <1>2
  DEF SignOut, Inv, Types, BarIsSomebodys, OwnPage, Sells, OwnPress, SameUser, RequestIsOwn

LEMMA RestartStep ==
  ASSUME Inv, Restart
  PROVE  Inv'
<1>1. /\ page' \in [Pages -> PageState]
      /\ \A p \in Pages : ~page'[p].shown /\ ~page'[p].selling
  BY DEF Restart, Closed, PageState, Ats
<1>2. /\ press' \in [Presses -> PressState]
      /\ \A k \in Presses : press'[k].at = "idle"
  BY DEF Restart, Idle, PressState
<1> QED
  BY <1>1, <1>2
  DEF Restart, Inv, Types, BarIsSomebodys, OwnPage, Sells, OwnPress, SameUser, RequestIsOwn

\* The drawer's tiles and the pages that are opened and closed.
LEMMA BrowseStep ==
  ASSUME Inv, Open \/ ShowOther \/ ShowHome \/ \E p \in Pages : Close(p)
  PROVE  Inv'
<1>1. UNCHANGED <<user, leaving, uid, rc, bar, press, filed>>
  BY DEF Open, ShowOther, ShowHome, Close, globals
<1>2. /\ page' \in [Pages -> PageState]
      /\ \A p \in Pages : OwnPage(p)' /\ Sells(p)'
  <2>1. CASE Open \/ ShowHome
    BY <1>1, <2>1, ShowNewStep DEF Open, ShowHome
  <2>2. CASE ShowOther
    <3>1. HideHome
      BY <2>2 DEF ShowOther
    <3> QED
      BY <1>1, <3>1, HideHomeStep DEF Inv, OwnPage, Sells, Vanishes
  <2>3. ASSUME NEW p \in Pages, Close(p)
        PROVE  /\ page' \in [Pages -> PageState]
               /\ \A q \in Pages : OwnPage(q)' /\ Sells(q)'
    <3>1. page' = [page EXCEPT ![p] = Hidden(p)]
      BY <2>3 DEF Close
    <3>2. ASSUME NEW q \in Pages PROVE OwnPage(q)' /\ Sells(q)'
      BY <1>1, <3>1, HiddenPage DEF Inv, Types, OwnPage, Sells
    <3> QED
      BY <3>1, <3>2, HiddenPage DEF Inv, Types
  <2> QED
    BY <2>1, <2>2, <2>3
<1> QED
  BY <1>1, <1>2 DEF Inv, Types, BarIsSomebodys, OwnPress, SameUser, RequestIsOwn

\* A set-up makes u_id the user's, for the shown pages and the presses as well.
LEMMA SetupStep ==
  ASSUME Inv, NEW p \in Pages, Setup(p)
  PROVE  Inv'
<1>1. /\ page' \in [Pages -> PageState]
      /\ \A q \in Pages : OwnPage(q)' /\ Sells(q)'
  <2>1. ASSUME NEW q \in Pages PROVE OwnPage(q)' /\ Sells(q)'
    BY DEF Setup, Inv, Types, PageState, OwnPage, Sells
  <2>2. page' \in [Pages -> PageState]
    BY DEF Setup, Inv, Types, PageState, Ats
  <2> QED
    BY <2>1, <2>2
<1> QED
  BY <1>1 DEF Setup, Inv, Types, BarIsSomebodys, OwnPress, SameUser, RequestIsOwn

\* The rest of initPlatformState, and the subscription page.
LEMMA PageStep ==
  ASSUME Inv, NEW p \in Pages,
         \/ Identify(p) \/ Identified(p) \/ GotOfferings(p) \/ InitFails(p)
         \/ Sell(p) \/ StopSelling(p)
  PROVE  Inv'
<1>1. UNCHANGED <<user, leaving, uid, bar, press, filed>>
  BY DEF Identify, Identified, GotOfferings, InitFails, Sell, StopSelling, globals
<1>2. page' \in [Pages -> PageState]
  <2> USE DEF Inv, Types, PageState, Ats
  <2>1. CASE Identify(p) \/ Identified(p)
    BY <2>1 DEF Identify, Identified
  <2>2. CASE GotOfferings(p)
    BY <2>2 DEF GotOfferings
  <2>3. CASE InitFails(p)
    BY <2>3 DEF InitFails
  <2>4. CASE Sell(p)
    BY <2>4 DEF Sell
  <2>5. CASE StopSelling(p)
    BY <2>5 DEF StopSelling
  <2> QED
    BY <2>1, <2>2, <2>3, <2>4, <2>5
<1>3. ASSUME NEW q \in Pages PROVE OwnPage(q)' /\ Sells(q)'
  <2>1. CASE q # p
    <3>1. page'[q] = page[q]
      BY <2>1 DEF Identify, Identified, GotOfferings, InitFails, Sell, StopSelling,
                  Inv, Types
    <3> QED
      BY <1>1, <3>1 DEF Inv, OwnPage, Sells
  <2>2. CASE q = p
    <3>1. page[p] \in PageState /\ OwnPage(p) /\ Sells(p)
      BY DEF Inv, Types
    <3> QED
      BY <1>1, <2>2, <3>1
      DEF Identify, Identified, GotOfferings, InitFails, Sell, StopSelling,
          Inv, Types, PageState, OwnPage, Sells
  <2> QED
    BY <2>1, <2>2
<1>4. rc' \in {rc, uid}
  BY DEF Identify, Identified, GotOfferings, InitFails, Sell, StopSelling, globals
<1> QED
  BY <1>1, <1>2, <1>3, <1>4
  DEF Inv, Types, BarIsSomebodys, OwnPress, SameUser, RequestIsOwn

\* A press starts on a page that is the user's; it files what it was started with.
LEMMA PressStep ==
  ASSUME Inv, NEW k \in Presses,
         \/ \E p \in Pages : PressButton(k, p)
         \/ FirstTime(k) \/ NotFirstTime(k) \/ AskAgain(k) \/ NothingFiled(k)
  PROVE  Inv'
<1>1. UNCHANGED <<user, leaving, uid, rc, bar, page>>
  BY DEF PressButton, FirstTime, NotFirstTime, AskAgain, NothingFiled, File, globals
<1>2. /\ press' \in [Presses -> PressState]
      /\ \A j \in Presses : OwnPress(j)'
  <2>1. ASSUME NEW p \in Pages, PressButton(k, p)
        PROVE  /\ press' \in [Presses -> PressState]
               /\ \A j \in Presses : OwnPress(j)'
    <3>1. /\ bar /\ uid = user /\ page[p].userId = user
          /\ page[p].userId \in Accounts \cup {Nobody}
      BY <2>1 DEF PressButton, Inv, Types, PageState, OwnPage, Sells
    <3> QED
      BY <1>1, <2>1, <3>1 DEF PressButton, Inv, Types, PressState, OwnPress
  <2>2. CASE press' = [press EXCEPT ![k] = Idle]
    BY <1>1, <2>2 DEF Inv, Types, PressState, OwnPress, Idle
  <2>3. CASE NotFirstTime(k)
    BY <1>1, <2>3 DEF NotFirstTime, Inv, Types, PressState, OwnPress
  <2> QED
    BY <2>1, <2>2, <2>3 DEF FirstTime, AskAgain, NothingFiled, File
<1>3. RequestIsOwn'
  <2>1. CASE UNCHANGED filed
    BY <2>1 DEF Inv, RequestIsOwn
  <2>2. CASE FirstTime(k) \/ AskAgain(k)
    <3>1. press[k].at # "idle" /\ File(k)
      BY <2>2 DEF FirstTime, AskAgain
    <3> QED
      BY <3>1 DEF File, RequestIsOwn, Inv, OwnPress
  <2> QED
    BY <2>1, <2>2 DEF PressButton, NotFirstTime, NothingFiled
<1> QED
  BY <1>1, <1>2, <1>3 DEF Inv, Types, BarIsSomebodys, OwnPage, Sells, SameUser

LEMMA Inductive == Inv /\ [Next]_vars => Inv'
<1> SUFFICES ASSUME Inv, [Next]_vars PROVE Inv'
  OBVIOUS
<1>1. CASE UNCHANGED vars
  BY <1>1
  DEF vars, Inv, Types, BarIsSomebodys, OwnPage, Sells, OwnPress, SameUser, RequestIsOwn
<1>2. CASE Next
  BY <1>2, ArrivingStep, SignOutStep, RestartStep, BrowseStep, SetupStep, PageStep,
     PressStep
  DEF Next
<1> QED
  BY <1>1, <1>2

LEMMA Invariant == Spec => []Inv
BY InitInv, Inductive, PTL DEF Spec

-----------------------------------------------------------------------------
(* The theorems *)

\* A page that can be seen shows and sells under the account that is signed in.
THEOREM ShownPagesAreOwn == Spec => []ShownIsOwn
<1>1. Inv => ShownIsOwn
  BY DEF Inv, OwnPage, Sells, ShownIsOwn
<1> QED
  BY <1>1, Invariant, PTL

\* RevenueCat's user is u_id while u_id is set.
THEOREM OneUser == Spec => []SameUser
<1>1. Inv => SameUser
  BY DEF Inv
<1> QED
  BY <1>1, Invariant, PTL

\* Requests are filed under the account that pressed, unless a sign-out overtook.
THEOREM RequestsAreOwn == Spec => []RequestIsOwn
<1>1. Inv => RequestIsOwn
  BY DEF Inv
<1> QED
  BY <1>1, Invariant, PTL

=============================================================================

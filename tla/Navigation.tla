----------------------------- MODULE Navigation -----------------------------
(***************************************************************************)
(* The bar, the drawer and the pages that load lists.                      *)
(*                                                                         *)
(* The drawer's tiles replace the content, a global of the process, and    *)
(* close the drawer with the function they were given.  The bar's icon     *)
(* opens a drawer that was given none.  The news page makes two reads, the *)
(* video page a listener; both go on after their page was left, neither is *)
(* made again when it fails, and a read may be answered from the cache.    *)
(*                                                                         *)
(* A visit is one life of the state of the news or of the video page.      *)
(***************************************************************************)
EXTENDS Frame, Naturals, Sequences, SequencesExt

CONSTANTS Users, None,
          MaxVisits,   \* bound: pages opened in one life of the process
          MaxVideos,   \* bound: versions of the list of videos
          Postings,    \* the lists of news there may be
          Notes        \* the notifications, TRUE if well-formed

ASSUME NavigationAssumption ==
  /\ None \notin Users
  /\ MaxVisits \in Nat /\ MaxVideos \in Nat
  /\ Postings \subseteq Seq(BOOLEAN) /\ Notes \in Seq(BOOLEAN)

VARIABLES
  user,        \* FirebaseAuth.instance.currentUser
  open,        \* status = FSB_OPEN
  visits,      \* visits so far
  visit,       \* the visit that is mounted, or 0
  reads,       \* reads of news pages under way
  listeners,   \* the listeners of the video pages, with what they were told
  news, notes, \* how many documents the mounted news page shows
  shown,       \* the version of the videos the mounted page shows
  server,      \* the version the server has
  posted,      \* the documents of the news, TRUE if well-formed
  missed       \* history: the visits that the server did not answer, see Reply, Ends

frame == <<page, content, isChatOpen, open>>
lists == <<news, notes, shown>>
vars == <<user, frame, visits, visit, reads, listeners, lists, server, posted, missed>>

\* What a process starts with, on the page that fits the account.
Fresh ==
  /\ content' = "home" /\ isChatOpen' = TRUE /\ open' = FALSE
  /\ visits' = 0 /\ visit' = 0 /\ reads' = {} /\ listeners' = {} /\ missed' = {}
  /\ news' = 0 /\ notes' = 0 /\ shown' = 0

Init ==
  /\ user = None
  /\ page = "login" /\ content = "home" /\ isChatOpen = TRUE /\ open = FALSE
  /\ visits = 0 /\ visit = 0 /\ reads = {} /\ listeners = {} /\ missed = {}
  /\ news = 0 /\ notes = 0 /\ shown = 0 /\ server = 1
  /\ posted \in Postings

\* The news page is built anew: its lists are empty and it reads the news.
MountNews ==
  /\ visits < MaxVisits
  /\ visits' = visits + 1 /\ visit' = visits + 1
  /\ reads' = reads \cup {[visit |-> visits + 1, of |-> "news"]}
  /\ news' = 0 /\ notes' = 0

Unmount == visit' = 0 /\ news' = 0 /\ notes' = 0 /\ UNCHANGED <<visits, reads>>

\* Content w is shown in place of what was; a page shown again keeps its state.
Mount(w, kept) ==
  CASE w = "news" /\ ~kept -> MountNews
    [] w = "news" /\ kept -> UNCHANGED <<visits, visit, reads, news, notes>>
    [] OTHER -> Unmount

-----------------------------------------------------------------------------
SignIn(u) ==
  /\ page = "login"
  /\ user' = u
  /\ page' = "bar" /\ open' = FALSE
  /\ Mount(content, FALSE)
  /\ UNCHANGED <<content, isChatOpen, listeners, shown, server, posted, missed>>

\* The process ends; the account stays.
Restart ==
  /\ Fresh
  /\ page' = IF user = None THEN "login" ELSE "bar"
  /\ UNCHANGED <<user, server, posted>>

\* A swipe, or the menu button where it is shown.
Slide(o) ==
  /\ page = "bar"
  /\ open' = o
  /\ UNCHANGED <<user, page, content, isChatOpen, visits, visit, reads, listeners, lists, server, posted, missed>>

\* A tile of the side bar's drawer: Home, Notifications or Chat.
Tile(w) ==
  /\ page = "bar" /\ open
  /\ content' = w
  /\ isChatOpen' = (w # "chat")
  /\ open' = FALSE
  /\ Mount(w, content = w)
  /\ UNCHANGED <<user, page, listeners, shown, server, posted, missed>>

SignOut ==
  /\ page = "bar" /\ open
  /\ user' = None
  /\ page' = "login" /\ open' = FALSE
  /\ Unmount
  /\ UNCHANGED <<content, isChatOpen, listeners, shown, server, posted, missed>>

\* The bar's icon: the drawer alone takes the place of the bar.
HomeIcon ==
  /\ page = "bar"
  /\ page' = "drawer"
  /\ Unmount
  /\ UNCHANGED <<user, content, isChatOpen, open, listeners, shown, server, posted, missed>>

\* A tile of that drawer: closeDrawer is null, what follows it is not reached.
LoneTile(w) ==
  /\ page = "drawer"
  /\ content' = w
  /\ isChatOpen' = (isChatOpen /\ w # "chat")
  /\ UNCHANGED <<user, page, open, visits, visit, reads, listeners, lists, server, posted, missed>>

\* Mutant: without closeDrawer the Sign out tile goes on.
LoneSignOutGoesOn ==
  /\ page = "drawer"
  /\ user' = None
  /\ page' = "login"
  /\ UNCHANGED <<content, isChatOpen, open, visits, visit, reads, listeners, lists, server, posted, missed>>

\* Its Sign out tile: closeDrawer comes first.
LoneSignOut ==
  /\ page = "drawer"
  /\ UNCHANGED <<user, frame, visits, visit, reads, listeners, lists, server, posted, missed>>

-----------------------------------------------------------------------------
\* How many documents of docs are shown before one is malformed.
Good(docs) == LET bad == {i \in DOMAIN docs : ~docs[i]}
              IN  IF bad = {} THEN Len(docs) ELSE Min(bad) - 1

Documents(r) == IF r.of = "news" THEN posted ELSE Notes

\* The read r is answered with docs.  A malformed document throws in the loop, and for
\* a page that was left the first setState does: the documents that follow and the
\* second read are not reached.
Answered(r, docs) ==
  LET gone == r.visit # visit
  IN  /\ reads' = (reads \ {r}) \cup
           IF r.of = "news" /\ Good(docs) = Len(docs) /\ ~(gone /\ docs # <<>>)
           THEN {[visit |-> r.visit, of |-> "notes"]} ELSE {}
      /\ news' = IF r.of = "news" /\ ~gone THEN Good(docs) ELSE news
      /\ notes' = IF r.of = "notes" /\ ~gone THEN Good(docs) ELSE notes

\* An error ends both reads: nothing catches it.
Failed(r) == reads' = reads \ {r} /\ UNCHANGED <<news, notes>>

\* The server answers; or the cache does, with some of the documents or none; or the
\* read fails.
Reply(r) ==
  /\ \/ Answered(r, Documents(r)) /\ UNCHANGED missed
     \/ /\ \E docs \in AllSubSeqs(Documents(r)) : Answered(r, docs)
        /\ missed' = missed \cup {r.visit}
     \/ Failed(r) /\ missed' = missed \cup {r.visit}
  /\ UNCHANGED <<user, frame, visits, visit, listeners, shown, server, posted>>

\* Mutant: only the first video page listens.
OpenVideosOnce ==
  /\ page = "bar" /\ content = "home"
  /\ visits < MaxVisits
  /\ page' = "videos"
  /\ visits' = visits + 1 /\ visit' = visits + 1
  /\ listeners' = IF listeners = {} THEN {[visit |-> visits + 1, told |-> 0]} ELSE listeners
  /\ shown' = 0
  /\ UNCHANGED <<user, content, isChatOpen, open, reads, news, notes, server, posted, missed>>

\* A chapter's page is pushed over the home page and listens.
OpenVideos ==
  /\ page = "bar" /\ content = "home"
  /\ visits < MaxVisits
  /\ page' = "videos"
  /\ visits' = visits + 1 /\ visit' = visits + 1
  /\ listeners' = listeners \cup {[visit |-> visits + 1, told |-> 0]}
  /\ shown' = 0
  /\ UNCHANGED <<user, content, isChatOpen, open, reads, news, notes, server, posted, missed>>

LeaveVideos ==
  /\ page = "videos"
  /\ page' = "bar"
  /\ visit' = 0 /\ shown' = 0
  /\ UNCHANGED <<user, content, isChatOpen, open, visits, reads, listeners, news, notes, server, posted, missed>>

\* The teachers' side adds a video.
AddVideo ==
  /\ server < MaxVideos
  /\ server' = server + 1
  /\ UNCHANGED <<user, frame, visits, visit, reads, listeners, lists, posted, missed>>

\* A listener is told of a later version, of an older one than the server's when it
\* comes from the cache.
Snapshot(l) ==
  \E version \in (l.told + 1)..server :
    /\ listeners' = (listeners \ {l}) \cup {[l EXCEPT !.told = version]}
    /\ shown' = IF l.visit = visit THEN version ELSE shown
    /\ UNCHANGED <<user, frame, visits, visit, reads, news, notes, server, posted, missed>>

\* An error ends a listener, and nothing listens again.
Ends(l) ==
  /\ listeners' = listeners \ {l}
  /\ missed' = missed \cup {l.visit}
  /\ UNCHANGED <<user, frame, visits, visit, reads, lists, server, posted>>

Replies == \/ \E r \in reads : Reply(r)
           \/ \E l \in listeners : Snapshot(l) \/ Ends(l)

Next ==
  \/ \E u \in Users : SignIn(u)
  \/ Restart \/ SignOut \/ HomeIcon \/ LoneSignOut
  \/ \E o \in BOOLEAN : Slide(o)
  \/ \E w \in {"home", "news", "chat"} : Tile(w) \/ LoneTile(w)
  \/ OpenVideos \/ LeaveVideos \/ AddVideo
  \/ Replies

Spec == Init /\ [][Next]_vars

\* The plugin answers every read, with documents or an error, and tells a listener of
\* the server's latest version sooner or later.
FairSpec == /\ Spec
            /\ \A v \in 1..MaxVisits :
                 /\ WF_vars(\E r \in reads : r.visit = v /\ Reply(r))
                 /\ WF_vars(\E l \in listeners : l.visit = v /\ Snapshot(l))

-----------------------------------------------------------------------------
\* A page that is not left shows all there is, up to the first malformed document, and
\* the notifications if none of the news was; but for one that was once answered from
\* the cache or with an error, for which nothing is read again.  What earlier pages left
\* under way does not keep it from that (news.dart:17-43, videoUp2.dart:32).
PageFilled ==
  \A v \in 1..MaxVisits :
    visit = v ~> \/ visit # v \/ v \in missed
                 \/ IF page = "videos" THEN shown = server
                    ELSE /\ news = Good(posted)
                         /\ news = Len(posted) => notes = Good(Notes)
=============================================================================

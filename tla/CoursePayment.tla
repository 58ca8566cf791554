--------------------------- MODULE CoursePayment ---------------------------
(***************************************************************************)
(* Courses, subscriptions and manual payments of one account.              *)
(*                                                                         *)
(* A course opens on an active subscription, or, on the pages that ask,    *)
(* on the isPurchased field an administrator set for it in the account's   *)
(* ManualPayment document.  A course that does not open offers the         *)
(* subscription page, whose button files a request for that approval: it   *)
(* reads the document, reads it again, and writes the course's entry.      *)
(* Several devices may do so at once; their reads may be stale and their   *)
(* writes wait in the Firestore client, as in Session.                     *)
(***************************************************************************)
EXTENDS Naturals, Sequences, FiniteSets

CONSTANTS Devices,
          Sciences,     \* courses of pages whose checkmanual works
          Engineering,  \* courses of pages whose checkmanual throws
          Pharmacy,     \* courses of pages without a checkmanual
          Taps,         \* presses of the button under way on a device
          NoCourse,     \* the course of no tap
          Gone,         \* the process that waited for a write has ended
          MaxPending    \* bound on the presses and unanswered writes of a device

Courses == Sciences \cup Engineering \cup Pharmacy

ASSUME CoursesAssumption ==
  /\ Sciences \cap Engineering = {}
  /\ Pharmacy \cap (Sciences \cup Engineering) = {}
  /\ NoCourse \notin Courses
  /\ Gone \notin Taps
  /\ MaxPending \in Nat \ {0}

VARIABLES
  entry,    \* entry[c]: Course.c of the document, isPurchased false or true
  \* what a device keeps when the app is closed
  seen,     \* seen[d]: the document as last received; all "none" if never
  queue,    \* queue[d]: the writes of the document, oldest first
  \* what the running app holds
  sent,     \* sent[d]: whether the server has applied the oldest write
  info,     \* info[d]: how far initPlatformState got on the course page;
            \* "away" from it, or "off" when the app does not run
  active,   \* active[d]: purchaserInfo.activeSubscriptions
  view,     \* view[d]: where the user is, and in which course
  tap,      \* tap[d][k]: a press of the subscription page's button
  \* history, read by properties only
  granted   \* the courses the administrator ever approved

clientVars == <<seen, queue, sent>>
pageVars   == <<info, active, view>>
vars == <<entry, seen, queue, sent, info, active, view, tap, granted>>

Status == {"none", "requested", "approved"}
Document == [Courses -> Status]
Request == [kind: {"merge", "update"}, course: Courses, by: Taps \cup {Gone}]
View == [at: {"list", "checking", "videos", "offer"}, course: Courses \cup {NoCourse}]
Tap == [at: {"idle", "first", "again", "writing", "applied", "already", "failed"},
        course: Courses \cup {NoCourse}]

List == [at |-> "list", course |-> NoCourse]
Idle == [at |-> "idle", course |-> NoCourse]
Missing == [c \in Courses |-> "none"]

TypeOK ==
  /\ entry \in Document
  /\ seen \in [Devices -> Document]
  /\ queue \in [Devices -> Seq(Request)]
  /\ sent \in [Devices -> {"no", "applied", "seen"}]
  /\ info \in [Devices -> {"off", "away", "user", "purchaser", "offerings"}]
  /\ active \in [Devices -> SUBSET Courses]
  /\ view \in [Devices -> View]
  /\ tap \in [Devices -> [Taps -> Tap]]
  /\ granted \subseteq Courses

Init ==
  /\ entry = Missing
  /\ seen = [d \in Devices |-> Missing]
  /\ queue = [d \in Devices |-> <<>>]
  /\ sent = [d \in Devices |-> "no"]
  /\ info = [d \in Devices |-> "off"]
  /\ active = [d \in Devices |-> {}]
  /\ view = [d \in Devices |-> List]
  /\ tap = [d \in Devices |-> [k \in Taps |-> Idle]]
  /\ granted = {}

-----------------------------------------------------------------------------
(* The Firestore client *)

Exists(document) == \E c \in Courses : document[c] # "none"

\* A merging set makes the document exist, an update needs it to.
Effective(base, q, i) ==
  \/ Exists(base)
  \/ \E j \in 1..i : q[j].kind = "merge"

\* The document as the device sees it, its unanswered writes laid over it.
Overlay(base, q) ==
  [c \in Courses |->
     IF \E i \in 1..Len(q) : q[i].course = c /\ Effective(base, q, i)
     THEN "requested" ELSE base[c]]

\* Mutant: the set does not merge.
ApplyAlone(document, w) ==
  [(IF w.kind = "merge" THEN Missing ELSE document)
     EXCEPT ![w.course] = "requested"]

\* Mutant: the wrong value is written.
ApplyKind(document, w) == [document EXCEPT ![w.course] = w.kind]

\* Both kinds of write replace the entry of one course.
Apply(document, w) == [document EXCEPT ![w.course] = "requested"]

\* What the server accepts.
Applies(w) == w.kind = "merge" \/ Exists(entry)

\* An acknowledged merge over a document never received leaves one that holds
\* nothing but the merged course; an acknowledged update leaves none.
AfterAck(base, w) == IF w.kind = "merge" \/ Exists(base) THEN Apply(base, w) ELSE base

\* A snapshot from the server outdates the acknowledgement of an applied write.
Snapshot(d) ==
  /\ seen' = [seen EXCEPT ![d] = entry]
  /\ sent' = [sent EXCEPT ![d] = IF @ = "applied" THEN "seen" ELSE @]

Sending(d) == info[d] # "off" /\ queue[d] # <<>>

\* Mutant: an error is reported as success.
ResumeApplied(d, w, at) ==
  tap' = IF w.by = Gone THEN tap ELSE [tap EXCEPT ![d][w.by].at = "applied"]

\* Mutant: the press resumes only while its page is shown.
ResumeIfShown(d, w, at) ==
  tap' = IF w.by = Gone \/ view[d].at # "offer" THEN tap
         ELSE [tap EXCEPT ![d][w.by].at = at]

\* The press that waits for the write resumes.
Resume(d, w, at) ==
  tap' = IF w.by = Gone THEN tap ELSE [tap EXCEPT ![d][w.by].at = at]

Deliver(d) ==
  /\ Sending(d)
  /\ sent[d] = "no"
  /\ Applies(Head(queue[d]))
  /\ entry' = Apply(entry, Head(queue[d]))
  /\ sent' = [sent EXCEPT ![d] = "applied"]
  /\ UNCHANGED <<seen, queue, pageVars, tap, granted>>

Acknowledge(d) ==
  /\ Sending(d)
  /\ sent[d] # "no"
  /\ seen' = [seen EXCEPT ![d] =
                IF sent[d] = "seen" THEN @ ELSE AfterAck(@, Head(queue[d]))]
  /\ Resume(d, Head(queue[d]), "applied")
  /\ queue' = [queue EXCEPT ![d] = Tail(@)]
  /\ sent' = [sent EXCEPT ![d] = "no"]
  /\ UNCHANGED <<entry, pageVars, granted>>

\* A permanent error: an update of a missing document, or the server's rules.
Reject(d) ==
  /\ Sending(d)
  /\ sent[d] = "no"
  /\ Resume(d, Head(queue[d]), "failed")
  /\ queue' = [queue EXCEPT ![d] = Tail(@)]
  /\ UNCHANGED <<entry, seen, sent, pageVars, granted>>

\* The answer is lost: the write will be sent, and applied, again.
LoseAnswer(d) ==
  /\ sent[d] # "no"
  /\ sent' = [sent EXCEPT ![d] = "no"]
  /\ UNCHANGED <<entry, seen, queue, pageVars, tap, granted>>

-----------------------------------------------------------------------------
(* The administrator's program *)

Approve(c) ==
  /\ entry[c] = "requested"
  /\ entry' = [entry EXCEPT ![c] = "approved"]
  /\ granted' = granted \cup {c}
  /\ UNCHANGED <<clientVars, pageVars, tap>>

-----------------------------------------------------------------------------
(* The course page *)

Start(d) ==
  /\ info[d] = "off"
  /\ info' = [info EXCEPT ![d] = "away"]
  /\ UNCHANGED <<entry, clientVars, active, view, tap, granted>>

\* The process ends: the queue survives, nobody waits for its writes any more.
Kill(d) ==
  /\ info[d] # "off"
  /\ info' = [info EXCEPT ![d] = "off"]
  /\ active' = [active EXCEPT ![d] = {}]
  /\ view' = [view EXCEPT ![d] = List]
  /\ tap' = [tap EXCEPT ![d] = [k \in Taps |-> Idle]]
  /\ queue' = [queue EXCEPT ![d] =
                 [i \in DOMAIN @ |-> [@[i] EXCEPT !.by = Gone]]]
  /\ sent' = [sent EXCEPT ![d] = "no"]
  /\ UNCHANGED <<entry, seen, granted>>

\* initState calls initPlatformState, which sets u_id.
OpenPage(d) ==
  /\ info[d] = "away"
  /\ info' = [info EXCEPT ![d] = "user"]
  /\ UNCHANGED <<entry, clientVars, active, view, tap, granted>>

\* Purchases.identify answers.  When it or a later call fails instead,
\* initPlatformState catches the error and info stays where it is.
Identified(d) ==
  /\ info[d] = "user"
  /\ info' = [info EXCEPT ![d] = "purchaser"]
  /\ \E s \in SUBSET Courses : active' = [active EXCEPT ![d] = s]
  /\ UNCHANGED <<entry, clientVars, view, tap, granted>>

OffersReceived(d) ==
  /\ info[d] = "purchaser"
  /\ info' = [info EXCEPT ![d] = "offerings"]
  /\ UNCHANGED <<entry, clientVars, active, view, tap, granted>>

\* The course is not open: its subscription page is pushed, or reading
\* offerings that are null throws, which the handler catches.
Refused(d, c) ==
  IF info[d] = "offerings" THEN [at |-> "offer", course |-> c] ELSE List

\* A course is tapped.  Without purchaserInfo the handler throws and nothing
\* happens, as long as the page is not opened anew.
TapCourse(d, c) ==
  /\ view[d] = List
  /\ info[d] \in {"purchaser", "offerings"}
  /\ view' = [view EXCEPT ![d] =
                IF c \in active[d] THEN [at |-> "videos", course |-> c]
                ELSE IF c \in Pharmacy THEN Refused(d, c)
                ELSE [at |-> "checking", course |-> c]]
  /\ UNCHANGED <<entry, clientVars, info, active, tap, granted>>

\* Mutant: any entry of the course counts as a purchase.
PurchasedIfPresent(c, document) == c \in Sciences /\ document[c] # "none"

\* Mutant: the check of every page throws.
NeverPurchased(c, document) == FALSE

\* checkmanual, false when it throws: on a missing entry, and on the pages that
\* call isAfter on DueDate, which is a Timestamp or null, always.
Purchased(c, document) == c \in Sciences /\ document[c] = "approved"

CheckResult(d, document) ==
  LET c == view[d].course IN
  view' = [view EXCEPT ![d] =
             IF Purchased(c, Overlay(document, queue[d]))
             THEN [at |-> "videos", course |-> c] ELSE Refused(d, c)]

\* Mutant: the check resets the entry it has read.
CheckAndExpire(d) ==
  /\ view[d].at = "checking"
  /\ Len(queue[d]) < MaxPending
  /\ Snapshot(d)
  /\ CheckResult(d, entry)
  /\ queue' = [queue EXCEPT ![d] =
       Append(@, [kind |-> "merge", course |-> view[d].course, by |-> Gone])]
  /\ UNCHANGED <<entry, info, active, tap, granted>>

CheckFromServer(d) ==
  /\ view[d].at = "checking"
  /\ Snapshot(d)
  /\ CheckResult(d, entry)
  /\ UNCHANGED <<entry, queue, info, active, tap, granted>>

\* Offline: the cached document, or an error, which counts as not purchased.
CheckFromCache(d) ==
  /\ view[d].at = "checking"
  /\ CheckResult(d, seen[d])
  /\ UNCHANGED <<entry, clientVars, info, active, tap, granted>>

\* The user leaves the videos or the subscription page.
Back(d) ==
  /\ view[d].at \in {"videos", "offer"}
  /\ view' = [view EXCEPT ![d] = List]
  /\ UNCHANGED <<entry, clientVars, info, active, tap, granted>>

\* The user leaves the course page; once disposed it pushes nothing.
LeavePage(d) ==
  /\ info[d] \in {"user", "purchaser", "offerings"}
  /\ view[d].at \in {"list", "checking"}
  /\ info' = [info EXCEPT ![d] = "away"]
  /\ active' = [active EXCEPT ![d] = {}]
  /\ view' = [view EXCEPT ![d] = List]
  /\ UNCHANGED <<entry, clientVars, tap, granted>>

-----------------------------------------------------------------------------
(* The button of the subscription page *)

Busy == {"first", "again", "writing"}

Pending(d) == Len(queue[d]) + Cardinality({k \in Taps : tap[d][k].at \in {"first", "again"}})

\* A press starts a handler of its own, whatever other presses are doing.
Press(d, k) ==
  /\ view[d].at = "offer"
  /\ tap[d][k].at \notin Busy
  /\ Pending(d) < MaxPending
  /\ tap' = [tap EXCEPT ![d][k] = [at |-> "first", course |-> view[d].course]]
  /\ UNCHANGED <<entry, clientVars, pageVars, granted>>

\* The write is queued and visible to reads at once; the handler awaits the answer.
Enqueue(d, k, kind) ==
  /\ queue' = [queue EXCEPT ![d] =
       Append(@, [kind |-> kind, course |-> tap[d][k].course, by |-> k])]
  /\ tap' = [tap EXCEPT ![d][k].at = "writing"]

\* checkFirstTime: a document that exists is read again, anything else, an
\* error included, is a first request, which sets (addnewUser).
FirstResult(d, k, document) ==
  IF Exists(Overlay(document, queue[d]))
  THEN tap' = [tap EXCEPT ![d][k].at = "again"] /\ UNCHANGED queue
  ELSE Enqueue(d, k, "merge")

FirstFromServer(d, k) ==
  /\ tap[d][k].at = "first"
  /\ Snapshot(d)
  /\ FirstResult(d, k, entry)
  /\ UNCHANGED <<entry, pageVars, granted>>

FirstFromCache(d, k) ==
  /\ tap[d][k].at = "first"
  /\ FirstResult(d, k, seen[d])
  /\ UNCHANGED <<entry, seen, sent, pageVars, granted>>

\* Mutant: every course not yet approved is taken for requested.
AlreadyUnlessApproved(d, k, document) ==
  IF Overlay(document, queue[d])[tap[d][k].course] # "approved"
  THEN tap' = [tap EXCEPT ![d][k].at = "already"] /\ UNCHANGED queue
  ELSE Enqueue(d, k, "update")

\* isrequestAlready: only "false" is left alone.  A missing entry and an
\* approved one are both overwritten.
AgainResult(d, k, document) ==
  IF Overlay(document, queue[d])[tap[d][k].course] = "requested"
  THEN tap' = [tap EXCEPT ![d][k].at = "already"] /\ UNCHANGED queue
  ELSE Enqueue(d, k, "update")

AgainFromServer(d, k) ==
  /\ tap[d][k].at = "again"
  /\ Snapshot(d)
  /\ AgainResult(d, k, entry)
  /\ UNCHANGED <<entry, pageVars, granted>>

\* Offline, a document that is not cached is an error nobody catches.
AgainFromCache(d, k) ==
  /\ tap[d][k].at = "again"
  /\ IF Exists(Overlay(seen[d], queue[d]))
     THEN AgainResult(d, k, seen[d])
     ELSE tap' = [tap EXCEPT ![d][k].at = "failed"] /\ UNCHANGED queue
  /\ UNCHANGED <<entry, seen, sent, pageVars, granted>>

-----------------------------------------------------------------------------
Device(d) ==
  \/ Start(d) \/ Kill(d)
  \/ OpenPage(d) \/ Identified(d) \/ OffersReceived(d) \/ LeavePage(d)
  \/ CheckFromServer(d) \/ CheckFromCache(d) \/ Back(d)
  \/ Deliver(d) \/ Acknowledge(d) \/ Reject(d) \/ LoseAnswer(d)

Button(d, k) ==
  \/ Press(d, k)
  \/ FirstFromServer(d, k) \/ FirstFromCache(d, k)
  \/ AgainFromServer(d, k) \/ AgainFromCache(d, k)

Next ==
  \/ \E c \in Courses : Approve(c)
  \/ \E d \in Devices :
       \/ Device(d)
       \/ \E c \in Courses : TapCourse(d, c)
       \/ \E k \in Taps : Button(d, k)

Spec == Init /\ [][Next]_vars

\* Reads and writes are answered, if not each time the network breaks.
Fairness ==
  /\ \A d \in Devices :
       /\ WF_vars(CheckFromServer(d) \/ CheckFromCache(d))
       /\ WF_vars(Deliver(d) \/ Reject(d))
       /\ SF_vars(Acknowledge(d))
  /\ \A d \in Devices, k \in Taps :
       /\ WF_vars(FirstFromServer(d, k) \/ FirstFromCache(d, k))
       /\ WF_vars(AgainFromServer(d, k) \/ AgainFromCache(d, k))

FairSpec == Spec /\ Fairness

-----------------------------------------------------------------------------
(* Properties *)

\* A write of c waits on d.
Waits(d, c) == \E i \in 1..Len(queue[d]) : queue[d][i].course = c

\* A request that was confirmed to the user is in the document the
\* administrator reads, whatever else was written since, from any device.
AppliedIsRecorded ==
  \A d \in Devices, k \in Taps :
    tap[d][k].at = "applied" => entry[tap[d][k].course] # "none"

\* Videos play without a subscription only in a course the administrator has
\* approved: neither the cache nor an unanswered write makes an approval up.
ManualNeedsApproval ==
  \A d \in Devices :
    view[d].at = "videos" => view[d].course \in active[d] \cup granted

\* "You already have Requested" is said only of a course that the document
\* holds or a write of this device is about to add.
AlreadyIsTrue ==
  [][\A d \in Devices, k \in Taps :
       tap[d][k].at = "again" /\ tap'[d][k].at = "already" =>
         entry[tap[d][k].course] # "none" \/ Waits(d, tap[d][k].course)]_vars

\* What becomes of a course is decided by the administrator and by requests
\* for that course: requests for others, first or not, leave it alone.
OthersKept ==
  [][\A c \in Courses :
       entry'[c] # entry[c] =>
         \/ entry[c] = "requested" /\ entry'[c] = "approved"
         \/ entry'[c] = "requested" /\ \E d \in Devices : Waits(d, c)]_vars

\* No press for c is under way and no write of it waits anywhere.
Quiet(c) ==
  \A d \in Devices :
    /\ ~Waits(d, c)
    /\ \A k \in Taps : tap[d][k].course = c => tap[d][k].at \notin Busy

\* An approval granted when all is quiet lasts until someone presses the
\* button for that very course again: no read, answer or restart undoes it.
ApprovalLasts ==
  [][\A c \in Courses : entry[c] = "approved" /\ Quiet(c) =>
       /\ entry'[c] = "approved"
       /\ \/ Quiet(c)'
          \/ \E d \in Devices, k \in Taps :
               tap'[d][k] = [at |-> "first", course |-> c]]_vars

\* A course whose approval the check has read from the server opens.
ApprovedOpens ==
  [][\A d \in Devices :
       LET c == view[d].course IN
       view[d].at = "checking" /\ view'[d].at \in {"list", "offer"}
         /\ info'[d] = info[d] /\ seen'[d] = entry /\ entry[c] = "approved"
         => Waits(d, c)]_vars

\* Every press is answered, unless the app is closed first.
PressSettles ==
  \A d \in Devices, k \in Taps :
    tap[d][k].at \in Busy ~> tap[d][k].at \notin Busy
=============================================================================

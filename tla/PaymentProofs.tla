--------------------------- MODULE PaymentProofs ---------------------------
(***************************************************************************)
(* Proofs about CoursePayment, for every set of devices, courses and taps. *)
(***************************************************************************)
EXTENDS CoursePayment, TLAPS

\* What the pages and the presses of one device imply about each other.
Control ==
  \A d \in Devices :
    /\ view[d].at = "list" => view[d] = List
    /\ view[d].at # "list" =>
         view[d].course \in Courses /\ info[d] \in {"purchaser", "offerings"}
    /\ \A k \in Taps : tap[d][k].at # "idle" => tap[d][k].course \in Courses

\* A press waits for the write queued in its name, and for one write only.
Linked ==
  \A d \in Devices : \A i \in 1..Len(queue[d]) : queue[d][i].by # Gone =>
    /\ tap[d][queue[d][i].by].at = "writing"
    /\ tap[d][queue[d][i].by].course = queue[d][i].course
    /\ \A j \in 1..Len(queue[d]) : queue[d][j].by = queue[d][i].by => j = i

\* Nothing is approved but by the administrator.
Approvals == \A c \in Courses : entry[c] = "approved" => c \in granted

\* What a device has seen is in the document, or was.
SeenIsReal ==
  \A d \in Devices, c \in Courses :
    /\ seen[d][c] # "none" => entry[c] # "none"
    /\ seen[d][c] = "approved" => c \in granted

\* A write whose answer is on its way is in the document.
SentIsThere ==
  \A d \in Devices :
    sent[d] # "no" => queue[d] # <<>> /\ entry[Head(queue[d]).course] # "none"

\* What devices have seen or are about to be told is backed by the document.
Backed == Approvals /\ SeenIsReal /\ SentIsThere

\* Pages without a checkmanual never wait for one.
Checks == \A d \in Devices : view[d].at = "checking" => view[d].course \notin Pharmacy

-----------------------------------------------------------------------------
(* What steps of the client and of a press have in common *)

\* What the oldest write of a queue is, and what is left without it.
LEMMA OldestRequest ==
  ASSUME TypeOK, NEW d \in Devices, queue[d] # <<>>
  PROVE  LET q == queue[d]
         IN  /\ Head(q) \in Request /\ Head(q) = q[1]
             /\ Tail(q) \in Seq(Request)
             /\ Len(q) \in Nat \ {0} /\ Len(Tail(q)) = Len(q) - 1
             /\ \A i \in 1..Len(Tail(q)) : Tail(q)[i] = q[i + 1]
<1>1. queue[d] \in Seq(Request)
  BY DEF TypeOK
<1> QED
  BY <1>1

\* The press k of d moves on to at.
Moved(d, k, at) == tap' = [tap EXCEPT ![d][k].at = at]

\* Moving on keeps the type, the course and every other press.
LEMMA MovedPress ==
  ASSUME TypeOK, NEW d \in Devices, NEW k \in Taps,
         NEW at \in {"idle", "first", "again", "writing", "applied", "already", "failed"},
         Moved(d, k, at)
  PROVE  /\ tap' \in [Devices -> [Taps -> Tap]]
         /\ tap'[d][k].at = at /\ tap'[d][k].course = tap[d][k].course
         /\ \A e \in Devices, l \in Taps : e # d \/ l # k => tap'[e][l] = tap[e][l]
<1> DEFINE p == [tap[d][k] EXCEPT !.at = at]
           ps == [tap[d] EXCEPT ![k] = p]
<1>1. tap[d] \in [Taps -> Tap] /\ tap[d][k] \in Tap
  BY DEF TypeOK
<1>2. p \in Tap /\ p.at = at /\ p.course = tap[d][k].course
  BY <1>1 DEF Tap
<1>3. tap' = [tap EXCEPT ![d] = ps]
  BY DEF Moved
<1> HIDE DEF p
<1>4. ps \in [Taps -> Tap] /\ ps[k] = p /\ \A l \in Taps \ {k} : ps[l] = tap[d][l]
  BY <1>1, <1>2
<1> HIDE DEF ps
<1> QED
  BY <1>2, <1>3, <1>4 DEF TypeOK

\* The reads of a press, from the server or from the cache.
Read(d, k) ==
  \/ FirstFromServer(d, k) \/ FirstFromCache(d, k)
  \/ AgainFromServer(d, k) \/ AgainFromCache(d, k)

\* A read lets the press go on, or queues a write that it then waits for.
Goes(d, k) ==
  \/ UNCHANGED queue /\ \E at \in {"again", "already", "failed"} : Moved(d, k, at)
  \/ \E kind \in {"merge", "update"} :
       /\ queue' = [queue EXCEPT ![d] = Append(@,
            [kind |-> kind, course |-> tap[d][k].course, by |-> k])]
       /\ Moved(d, k, "writing")

\* Whatever a read gives, these are its effects.
LEMMA ReadStep ==
  ASSUME NEW d \in Devices, NEW k \in Taps, Read(d, k)
  PROVE  /\ tap[d][k].at \in {"first", "again"}
         /\ Goes(d, k)
         /\ Snapshot(d) \/ UNCHANGED <<seen, sent>>
         /\ UNCHANGED <<entry, pageVars, granted>>
  BY DEF Read, FirstFromServer, FirstFromCache, AgainFromServer, AgainFromCache,
         FirstResult, AgainResult, Enqueue, Goes, Moved

\* Every step keeps the types.
LEMMA TypeStep ==
  ASSUME TypeOK, Control, [Next]_vars
  PROVE  TypeOK'
<1> USE CoursesAssumption DEF TypeOK, Document, Status, View, List, Idle, clientVars, pageVars
<1>1. ASSUME NEW d \in Devices, Start(d)
      PROVE  TypeOK'
  BY <1>1 DEF Start
<1>2. ASSUME NEW d \in Devices, Kill(d)
      PROVE  TypeOK'
  <2>1. queue' \in [Devices -> Seq(Request)]
    <3> DEFINE q == [i \in DOMAIN queue[d] |-> [queue[d][i] EXCEPT !.by = Gone]]
    <3>1. queue[d] \in Seq(Request)
      OBVIOUS
    <3>2. \A i \in DOMAIN queue[d] : [queue[d][i] EXCEPT !.by = Gone] \in Request
      <4>1. \A w \in Request : [w EXCEPT !.by = Gone] \in Request
        BY DEF Request
      <4> QED
        BY <3>1, <4>1
    <3>3. q \in Seq(Request)
      BY <3>1, <3>2
    <3> QED
      BY <1>2, <3>3 DEF Kill
  <2>2. tap' \in [Devices -> [Taps -> Tap]]
    BY <1>2 DEF Kill, Tap
  <2> QED
    BY <1>2, <2>1, <2>2 DEF Kill
<1>3. ASSUME NEW d \in Devices, OpenPage(d)
      PROVE  TypeOK'
  BY <1>3 DEF OpenPage
<1>4. ASSUME NEW d \in Devices, Identified(d)
      PROVE  TypeOK'
  BY <1>4 DEF Identified
<1>5. ASSUME NEW d \in Devices, OffersReceived(d)
      PROVE  TypeOK'
  BY <1>5 DEF OffersReceived
<1>6. ASSUME NEW d \in Devices, LeavePage(d)
      PROVE  TypeOK'
  BY <1>6 DEF LeavePage
<1>7. ASSUME NEW d \in Devices, CheckFromServer(d)
      PROVE  TypeOK'
  BY <1>7 DEF CheckFromServer, Snapshot, CheckResult, Refused
<1>8. ASSUME NEW d \in Devices, CheckFromCache(d)
      PROVE  TypeOK'
  BY <1>8 DEF CheckFromCache, CheckResult, Refused
<1>9. ASSUME NEW d \in Devices, Back(d)
      PROVE  TypeOK'
  BY <1>9 DEF Back
<1>10. ASSUME NEW d \in Devices, Deliver(d)
      PROVE  TypeOK'
  BY <1>10, OldestRequest DEF Deliver, Sending, Apply, Request
<1>11. ASSUME NEW d \in Devices, Acknowledge(d)
      PROVE  TypeOK'
  <2>1. /\ Head(queue[d]) \in Request /\ Tail(queue[d]) \in Seq(Request)
        /\ queue[d] # <<>>
    BY <1>11, OldestRequest DEF Acknowledge, Sending
  <2>2. AfterAck(seen[d], Head(queue[d])) \in Document
    BY <2>1 DEF AfterAck, Apply, Request
  <2>3. tap' \in [Devices -> [Taps -> Tap]]
    <3>1. CASE Head(queue[d]).by = Gone
      BY <1>11, <3>1 DEF Acknowledge, Resume
    <3>2. CASE Head(queue[d]).by # Gone
      <4>1. Head(queue[d]).by \in Taps /\ Moved(d, Head(queue[d]).by, "applied")
        BY <1>11, <2>1, <3>2 DEF Acknowledge, Resume, Moved, Request
      <4> QED
        BY <4>1, MovedPress
    <3> QED
      BY <3>1, <3>2
  <2> QED
    BY <1>11, <2>1, <2>2, <2>3 DEF Acknowledge
<1>12. ASSUME NEW d \in Devices, Reject(d)
      PROVE  TypeOK'
  <2>1. /\ Head(queue[d]) \in Request /\ Tail(queue[d]) \in Seq(Request)
        /\ queue[d] # <<>>
    BY <1>12, OldestRequest DEF Reject, Sending
  <2>2. tap' \in [Devices -> [Taps -> Tap]]
    <3>1. CASE Head(queue[d]).by = Gone
      BY <1>12, <3>1 DEF Reject, Resume
    <3>2. CASE Head(queue[d]).by # Gone
      <4>1. Head(queue[d]).by \in Taps /\ Moved(d, Head(queue[d]).by, "failed")
        BY <1>12, <2>1, <3>2 DEF Reject, Resume, Moved, Request
      <4> QED
        BY <4>1, MovedPress
    <3> QED
      BY <3>1, <3>2
  <2> QED
    BY <1>12, <2>1, <2>2 DEF Reject
<1>13. ASSUME NEW d \in Devices, LoseAnswer(d)
      PROVE  TypeOK'
  BY <1>13 DEF LoseAnswer
<1>14. ASSUME NEW c \in Courses, Approve(c)
      PROVE  TypeOK'
  BY <1>14 DEF Approve
<1>15. ASSUME NEW d \in Devices, NEW c \in Courses, TapCourse(d, c)
      PROVE  TypeOK'
  BY <1>15 DEF TapCourse, Refused
<1>16. ASSUME NEW d \in Devices, NEW k \in Taps, Press(d, k)
      PROVE  TypeOK'
  BY <1>16 DEF Press, Tap
<1>17. ASSUME NEW d \in Devices, NEW k \in Taps, Read(d, k)
      PROVE  TypeOK'
  <2>1. /\ tap[d][k].at \in {"first", "again"} /\ Goes(d, k)
        /\ Snapshot(d) \/ UNCHANGED <<seen, sent>>
        /\ UNCHANGED <<entry, pageVars, granted>>
    BY <1>17, ReadStep
  <2>2. tap[d][k].course \in Courses
    BY <2>1 DEF Control
  <2>3. tap' \in [Devices -> [Taps -> Tap]]
    <3>1. \E at \in {"again", "already", "failed", "writing"} : Moved(d, k, at)
      BY <2>1 DEF Goes
    <3> QED
      BY <3>1, MovedPress
  <2>4. queue' \in [Devices -> Seq(Request)]
    <3>1. CASE UNCHANGED queue
      BY <3>1
    <3>2. ASSUME NEW kind \in {"merge", "update"},
                 queue' = [queue EXCEPT ![d] = Append(@,
                      [kind |-> kind, course |-> tap[d][k].course, by |-> k])]
          PROVE  queue' \in [Devices -> Seq(Request)]
      <4>1. [kind |-> kind, course |-> tap[d][k].course, by |-> k] \in Request
        BY <2>2 DEF Request
      <4> QED
        BY <3>2, <4>1
    <3> QED
      BY <2>1, <3>1, <3>2 DEF Goes
  <2>5. seen' \in [Devices -> Document] /\ sent' \in [Devices -> {"no", "applied", "seen"}]
    <3>1. CASE Snapshot(d)
      BY <3>1 DEF Snapshot
    <3>2. CASE UNCHANGED <<seen, sent>>
      BY <3>2
    <3> QED
      BY <2>1, <3>1, <3>2
  <2> QED
    BY <2>1, <2>3, <2>4, <2>5
<1>18. CASE UNCHANGED vars
  BY <1>18 DEF vars
<1> QED
  BY <1>1, <1>2, <1>3, <1>4, <1>5, <1>6, <1>7, <1>8, <1>9, <1>10, <1>11, <1>12, <1>13, <1>14, <1>15, <1>16, <1>17, <1>18
     DEF Next, Device, Button, Read

\* The steps that leave the writes and the presses of every device alone.
Aside ==
  \/ \E c \in Courses : Approve(c)
  \/ \E d \in Devices :
       \/ Start(d) \/ OpenPage(d) \/ Identified(d) \/ OffersReceived(d) \/ LeavePage(d)
       \/ CheckFromServer(d) \/ CheckFromCache(d) \/ Back(d)
       \/ Deliver(d) \/ LoseAnswer(d)
       \/ \E c \in Courses : TapCourse(d, c)

\* Such a step changes no queue and no press.
LEMMA AsideStep ==
  ASSUME Aside
  PROVE  UNCHANGED <<queue, tap>>
  BY DEF Aside, Start, OpenPage, Identified, OffersReceived, LeavePage,
         CheckFromServer, CheckFromCache, Back, Deliver, LoseAnswer, TapCourse,
         Approve, clientVars

\* An answer removes the oldest write and wakes the press that waits for it.
LEMMA AnswerStep ==
  ASSUME TypeOK, Linked, NEW d \in Devices, Acknowledge(d) \/ Reject(d)
  PROVE  /\ queue[d] # <<>> /\ Head(queue[d]) \in Request
         /\ queue' = [queue EXCEPT ![d] = Tail(@)]
         /\ LET w == Head(queue[d]) IN
              \/ w.by = Gone /\ UNCHANGED tap
              \/ /\ w.by \in Taps
                 /\ tap[d][w.by].at = "writing" /\ tap[d][w.by].course = w.course
                 /\ \E at \in {"applied", "failed"} : Moved(d, w.by, at)
<1> DEFINE w == Head(queue[d])
<1>1. queue[d] # <<>> /\ queue' = [queue EXCEPT ![d] = Tail(@)]
  BY DEF Acknowledge, Reject, Sending
<1>2. \E at \in {"applied", "failed"} : Resume(d, w, at)
  BY DEF Acknowledge, Reject
<1>3. w \in Request /\ w = queue[d][1] /\ 1 \in 1..Len(queue[d])
  BY <1>1, OldestRequest
<1>4. w.by \in Taps \cup {Gone}
  BY <1>3 DEF Request
<1>5. w.by # Gone => tap[d][w.by].at = "writing" /\ tap[d][w.by].course = w.course
  BY <1>3 DEF Linked
<1> HIDE DEF w
<1>6. \/ w.by = Gone /\ UNCHANGED tap
      \/ w.by # Gone /\ \E at \in {"applied", "failed"} : Moved(d, w.by, at)
  BY <1>2 DEF Resume, Moved
<1> QED
  BY <1>1, <1>3, <1>4, <1>5, <1>6 DEF w

\* The fields of a write that waits.
LEMMA RequestFields ==
  ASSUME TypeOK, NEW d \in Devices, NEW i \in 1..Len(queue[d])
  PROVE  queue[d][i].by \in Taps \cup {Gone} /\ queue[d][i].course \in Courses
<1>1. queue[d] \in Seq(Request)
  BY DEF TypeOK
<1>2. queue[d][i] \in Request
  BY <1>1
<1> QED
  BY <1>2 DEF Request

\* Every step keeps Linked.
LEMMA LinkedStep ==
  ASSUME TypeOK, TypeOK', Linked, [Next]_vars
  PROVE  Linked'
<1>1. ASSUME UNCHANGED <<queue, tap>>
      PROVE  Linked'
  BY <1>1 DEF Linked
<1>2. ASSUME NEW d \in Devices, Kill(d)
      PROVE  Linked'
  BY <1>2 DEF Kill, Linked, TypeOK
<1>3. ASSUME NEW d \in Devices, NEW k \in Taps, Press(d, k)
      PROVE  Linked'
  BY <1>3 DEF Press, Busy, Linked, TypeOK, Tap, clientVars
<1>4. ASSUME NEW d \in Devices, NEW k \in Taps, Read(d, k)
      PROVE  Linked'
  <2>1. tap[d][k].at # "writing" /\ Goes(d, k)
    BY <1>4, ReadStep
  <2>2. \A i \in 1..Len(queue[d]) : queue[d][i].by # k
    <3>1. k # Gone
      BY CoursesAssumption
    <3> QED
      BY <2>1, <3>1 DEF Linked
  <2>3. \A e \in Devices, l \in Taps : e # d \/ l # k => tap'[e][l] = tap[e][l]
    BY <2>1, MovedPress DEF Goes
  <2>4. CASE UNCHANGED queue
    BY <2>2, <2>3, <2>4, RequestFields DEF Linked
  <2>5. ASSUME NEW kind \in {"merge", "update"}, Moved(d, k, "writing"),
               queue' = [queue EXCEPT ![d] = Append(@,
                 [kind |-> kind, course |-> tap[d][k].course, by |-> k])]
        PROVE  Linked'
    <3> DEFINE w == [kind |-> kind, course |-> tap[d][k].course, by |-> k]
    <3>1. /\ queue[d] \in Seq(Request)
          /\ queue'[d] = Append(queue[d], w)
          /\ \A e \in Devices \ {d} : queue'[e] = queue[e]
      BY <2>5 DEF TypeOK
    <3>2. /\ Len(queue[d]) \in Nat /\ Len(queue'[d]) = Len(queue[d]) + 1
          /\ queue'[d][Len(queue[d]) + 1] = w
          /\ \A i \in 1..Len(queue[d]) : queue'[d][i] = queue[d][i]
      BY <3>1
    <3>3. tap'[d][k].at = "writing" /\ tap'[d][k].course = w.course
      BY <2>5, MovedPress
    <3>4. w.by = k /\ k # Gone
      BY CoursesAssumption
    <3> HIDE DEF w
    <3>5. ASSUME NEW e \in Devices, NEW i \in 1..Len(queue'[e]), queue'[e][i].by # Gone
          PROVE  /\ tap'[e][queue'[e][i].by].at = "writing"
                 /\ tap'[e][queue'[e][i].by].course = queue'[e][i].course
                 /\ \A j \in 1..Len(queue'[e]) : queue'[e][j].by = queue'[e][i].by => j = i
      <4>1. CASE e # d
        <5>1. queue'[e] = queue[e]
          BY <3>1, <4>1
        <5> QED
          BY <2>3, <3>5, <4>1, <5>1, RequestFields DEF Linked
      <4>2. CASE e = d /\ i = Len(queue[d]) + 1
        <5>1. ASSUME NEW j \in 1..Len(queue[d])
              PROVE  queue'[d][j].by # k
          BY <2>2, <3>2
        <5>2. \A j \in 1..Len(queue'[d]) : queue'[d][j].by = k => j = i
          BY <3>2, <4>2, <5>1
        <5> QED
          BY <3>2, <3>3, <3>4, <4>2, <5>2
      <4>3. CASE e = d /\ i \in 1..Len(queue[d])
        <5>1. queue'[d][i] = queue[d][i] /\ queue[d][i].by # k /\ queue[d][i].by \in Taps
          BY <2>2, <3>2, <3>5, <4>3, RequestFields
        <5>2. tap'[d][queue[d][i].by] = tap[d][queue[d][i].by]
          BY <2>3, <5>1
        <5>3. \A j \in 1..Len(queue'[d]) : queue'[d][j].by = queue'[d][i].by => j = i
          BY <3>2, <3>4, <3>5, <4>3, <5>1 DEF Linked
        <5> QED
          BY <3>5, <4>3, <5>1, <5>2, <5>3 DEF Linked
      <4> QED
        BY <3>2, <4>1, <4>2, <4>3
    <3> QED
      BY <3>5 DEF Linked
  <2> QED
    BY <2>1, <2>4, <2>5 DEF Goes
<1>5. ASSUME NEW d \in Devices, Acknowledge(d) \/ Reject(d)
      PROVE  Linked'
  <2> DEFINE w == Head(queue[d])
  <2>1. /\ queue[d] # <<>> /\ w = queue[d][1]
        /\ Len(queue[d]) \in Nat \ {0} /\ Len(Tail(queue[d])) = Len(queue[d]) - 1
        /\ \A i \in 1..Len(Tail(queue[d])) : Tail(queue[d])[i] = queue[d][i + 1]
    BY <1>5, AnswerStep, OldestRequest
  <2>2. /\ queue'[d] = Tail(queue[d])
        /\ \A e \in Devices \ {d} : queue'[e] = queue[e]
    <3>1. queue' = [queue EXCEPT ![d] = Tail(@)]
      BY <1>5, AnswerStep
    <3> QED
      BY <3>1 DEF TypeOK
  <2>3. /\ w.by \in Taps \cup {Gone}
        /\ \A e \in Devices, l \in Taps : e # d \/ l # w.by => tap'[e][l] = tap[e][l]
    <3>1. CASE w.by = Gone /\ UNCHANGED tap
      BY <3>1
    <3>2. ASSUME w.by \in Taps, NEW at \in {"applied", "failed"}, Moved(d, w.by, at)
          PROVE  \A e \in Devices, l \in Taps : e # d \/ l # w.by => tap'[e][l] = tap[e][l]
      BY <3>2, MovedPress
    <3> QED
      BY <1>5, <3>1, <3>2, AnswerStep
  <2>4. \A i \in 1..Len(queue'[d]) :
          i + 1 \in 1..Len(queue[d]) /\ queue'[d][i] = queue[d][i + 1]
    BY <2>1, <2>2
  <2>5. 1 \in 1..Len(queue[d]) /\ w = queue[d][1]
    BY <2>1
  <2> HIDE DEF w
  <2>6. ASSUME NEW e \in Devices, NEW i \in 1..Len(queue'[e]), queue'[e][i].by # Gone
        PROVE  /\ tap'[e][queue'[e][i].by].at = "writing"
               /\ tap'[e][queue'[e][i].by].course = queue'[e][i].course
               /\ \A j \in 1..Len(queue'[e]) : queue'[e][j].by = queue'[e][i].by => j = i
    <3>1. CASE e # d
      <4>1. queue'[e] = queue[e]
        BY <2>2, <3>1
      <4> QED
        BY <2>3, <2>6, <3>1, <4>1, RequestFields DEF Linked
    <3>2. CASE e = d
      <4>1. i + 1 \in 1..Len(queue[d]) /\ queue'[d][i] = queue[d][i + 1]
        BY <2>4, <3>2
      <4>2. queue[d][i + 1].by # Gone /\ queue[d][i + 1].by \in Taps
        BY <2>6, <3>2, <4>1, RequestFields
      <4>3. queue[d][i + 1].by # w.by
        <5>1. i + 1 # 1
          BY <3>2
        <5> QED
          BY <2>5, <4>1, <4>2, <5>1 DEF Linked
      <4>4. tap'[d][queue[d][i + 1].by] = tap[d][queue[d][i + 1].by]
        BY <2>3, <4>2, <4>3
      <4>5. /\ tap[d][queue[d][i + 1].by].at = "writing"
            /\ tap[d][queue[d][i + 1].by].course = queue[d][i + 1].course
        BY <4>1, <4>2 DEF Linked
      <4>6. ASSUME NEW j \in 1..Len(queue'[d]), queue'[d][j].by = queue'[d][i].by
            PROVE  j = i
        <5>1. j + 1 \in 1..Len(queue[d]) /\ queue'[d][j] = queue[d][j + 1]
          BY <2>4
        <5>2. j + 1 = i + 1
          BY <4>1, <4>2, <4>6, <5>1 DEF Linked
        <5> QED
          BY <3>2, <5>2
      <4> QED
        BY <3>2, <4>1, <4>4, <4>5, <4>6
    <3> QED
      BY <3>1, <3>2
  <2> QED
    BY <2>6 DEF Linked
<1>6. CASE UNCHANGED vars
  BY <1>1, <1>6 DEF vars
<1> QED
  BY <1>1, <1>2, <1>3, <1>4, <1>5, <1>6, AsideStep
     DEF Next, Device, Button, Aside, Read

\* A press that moves on takes its course along and leaves the pages alone.
LEMMA MovedControl ==
  ASSUME TypeOK, Control, NEW d \in Devices, NEW k \in Taps,
         tap[d][k].at # "idle", UNCHANGED pageVars,
         NEW at \in {"again", "writing", "applied", "already", "failed"},
         Moved(d, k, at)
  PROVE  Control'
<1>1. \A e \in Devices, l \in Taps :
        \/ tap'[e][l] = tap[e][l]
        \/ tap[e][l].at # "idle" /\ tap'[e][l].course = tap[e][l].course
  BY MovedPress
<1>2. UNCHANGED <<info, view>>
  BY DEF pageVars
<1> QED
  BY <1>1, <1>2 DEF Control

\* Every step keeps Control.
LEMMA ControlStep ==
  ASSUME TypeOK, Control, Linked, [Next]_vars
  PROVE  Control'
<1>1. ASSUME UNCHANGED <<info, view, tap>>
      PROVE  Control'
  BY <1>1 DEF Control
<1>2. ASSUME NEW d \in Devices, Kill(d)
      PROVE  Control'
  BY <1>2 DEF Kill, Control, TypeOK, List, Idle
<1>3. ASSUME UNCHANGED <<view, tap>>, NEW d \in Devices,
             \/ info'[d] \in {"purchaser", "offerings"}
             \/ view[d].at = "list"
             \/ UNCHANGED info,
             \A e \in Devices \ {d} : info'[e] = info[e]
      PROVE  Control'
  BY <1>3 DEF Control
<1>4. ASSUME NEW d \in Devices, UNCHANGED <<info, tap>>,
             \/ view'[d] = List
             \/ /\ view'[d].at # "list" /\ view'[d].course \in Courses
                /\ info[d] \in {"purchaser", "offerings"},
             \A e \in Devices \ {d} : view'[e] = view[e]
      PROVE  Control'
  BY <1>4 DEF Control, List
<1>5. ASSUME NEW d \in Devices, Start(d) \/ OpenPage(d) \/ Identified(d) \/ OffersReceived(d)
      PROVE  Control'
  <2>1. UNCHANGED <<view, tap>> /\ \A e \in Devices \ {d} : info'[e] = info[e]
    BY <1>5 DEF Start, OpenPage, Identified, OffersReceived, TypeOK
  <2>2. info[d] \in {"off", "away", "user"} \/ info'[d] = "offerings"
    BY <1>5 DEF Start, OpenPage, Identified, OffersReceived, TypeOK
  <2> QED
    BY <1>3, <2>1, <2>2 DEF Control
<1>6. ASSUME NEW d \in Devices, LeavePage(d)
      PROVE  Control'
  BY <1>6 DEF LeavePage, Control, TypeOK, List
<1>7. ASSUME NEW d \in Devices, CheckFromServer(d) \/ CheckFromCache(d)
      PROVE  Control'
  <2>1. PICK document : CheckResult(d, document)
    BY <1>7 DEF CheckFromServer, CheckFromCache
  <2>2. /\ view[d].course \in Courses /\ info[d] \in {"purchaser", "offerings"}
        /\ UNCHANGED <<info, tap>>
    BY <1>7 DEF CheckFromServer, CheckFromCache, Control, clientVars
  <2>3. \A e \in Devices \ {d} : view'[e] = view[e]
    BY <2>1 DEF CheckResult, TypeOK
  <2>4. \/ view'[d] = List
        \/ view'[d] = [at |-> "videos", course |-> view[d].course]
        \/ view'[d] = [at |-> "offer", course |-> view[d].course]
    BY <2>1 DEF CheckResult, Refused, TypeOK
  <2> QED
    BY <1>4, <2>2, <2>3, <2>4
<1>8. ASSUME NEW d \in Devices, NEW c \in Courses, TapCourse(d, c)
      PROVE  Control'
  <2>1. info[d] \in {"purchaser", "offerings"} /\ UNCHANGED <<info, tap>>
    BY <1>8 DEF TapCourse
  <2>2. \A e \in Devices \ {d} : view'[e] = view[e]
    BY <1>8 DEF TapCourse, TypeOK
  <2>3. \/ view'[d] = List
        \/ \E at \in {"videos", "checking", "offer"} : view'[d] = [at |-> at, course |-> c]
    BY <1>8 DEF TapCourse, Refused, TypeOK
  <2> QED
    BY <1>4, <2>1, <2>2, <2>3
<1>9. ASSUME NEW d \in Devices, Back(d)
      PROVE  Control'
  BY <1>4, <1>9 DEF Back, TypeOK
<1>10. ASSUME NEW d \in Devices, Deliver(d) \/ LoseAnswer(d)
       PROVE  Control'
  BY <1>1, <1>10 DEF Deliver, LoseAnswer, pageVars
<1>11. ASSUME NEW c \in Courses, Approve(c)
       PROVE  Control'
  BY <1>1, <1>11 DEF Approve, pageVars
<1>12. ASSUME NEW d \in Devices, NEW k \in Taps, Press(d, k)
       PROVE  Control'
  <2>1. UNCHANGED <<info, view>> /\ view[d].course \in Courses
    BY <1>12 DEF Press, pageVars, Control
  <2>2. \A e \in Devices, l \in Taps :
          tap'[e][l] = tap[e][l] \/ tap'[e][l].course = view[d].course
    BY <1>12 DEF Press, TypeOK
  <2> QED
    BY <2>1, <2>2 DEF Control
<1>13. ASSUME NEW d \in Devices, NEW k \in Taps, Read(d, k)
       PROVE  Control'
  <2>1. PICK at \in {"again", "writing", "already", "failed"} : Moved(d, k, at)
    BY <1>13, ReadStep DEF Goes
  <2>2. tap[d][k].at # "idle" /\ UNCHANGED pageVars
    BY <1>13, ReadStep
  <2> QED
    BY <2>1, <2>2, MovedControl
<1>14. ASSUME NEW d \in Devices, Acknowledge(d) \/ Reject(d)
       PROVE  Control'
  <2> DEFINE k == Head(queue[d]).by
  <2>1. UNCHANGED pageVars
    BY <1>14 DEF Acknowledge, Reject
  <2>2. CASE UNCHANGED tap
    BY <1>1, <2>1, <2>2 DEF pageVars
  <2>3. ASSUME k \in Taps, tap[d][k].at = "writing",
               NEW at \in {"applied", "failed"}, Moved(d, k, at)
        PROVE  Control'
    BY <2>1, <2>3, MovedControl
  <2> QED
    BY <1>14, <2>2, <2>3, AnswerStep
<1>15. CASE UNCHANGED vars
  BY <1>1, <1>15 DEF vars, pageVars
<1> QED
  BY <1>2, <1>5, <1>6, <1>7, <1>8, <1>9, <1>10, <1>11, <1>12, <1>13, <1>14, <1>15
     DEF Next, Device, Button, Read

-----------------------------------------------------------------------------
(* The document and what the devices know of it *)

\* The document is written by the administrator and by deliveries only.
LEMMA EntryCauses ==
  ASSUME [Next]_vars
  PROVE  \/ UNCHANGED <<entry, granted>>
         \/ \E c \in Courses : Approve(c)
         \/ \E d \in Devices : Deliver(d)
  BY DEF Next, Device, Button, Start, Kill, OpenPage, Identified, OffersReceived,
         LeavePage, CheckFromServer, CheckFromCache, Back, Acknowledge, Reject,
         LoseAnswer, TapCourse, Press, FirstFromServer, FirstFromCache,
         AgainFromServer, AgainFromCache, vars

\* A delivery sets the entry of the oldest write.
LEMMA DeliverEntry ==
  ASSUME TypeOK, NEW d \in Devices, Deliver(d)
  PROVE  /\ queue[d] # <<>> /\ Head(queue[d]).course \in Courses
         /\ entry' = [entry EXCEPT ![Head(queue[d]).course] = "requested"]
         /\ UNCHANGED <<seen, queue, view, tap, granted>>
         /\ sent[d] = "no" /\ sent' = [sent EXCEPT ![d] = "applied"]
  BY OldestRequest DEF Deliver, Sending, Apply, Request, pageVars

\* An entry is never removed and an approval never forgotten.
LEMMA EntryGrows ==
  ASSUME TypeOK, [Next]_vars
  PROVE  /\ \A c \in Courses : entry[c] # "none" => entry'[c] # "none"
         /\ granted \subseteq granted'
<1>1. CASE UNCHANGED <<entry, granted>>
  BY <1>1
<1>2. ASSUME NEW c \in Courses, Approve(c)
      PROVE  /\ \A x \in Courses : entry[x] # "none" => entry'[x] # "none"
             /\ granted \subseteq granted'
  BY <1>2 DEF Approve, TypeOK, Document
<1>3. ASSUME NEW d \in Devices, Deliver(d)
      PROVE  /\ \A x \in Courses : entry[x] # "none" => entry'[x] # "none"
             /\ granted \subseteq granted'
  BY <1>3, DeliverEntry DEF TypeOK, Document
<1> QED
  BY <1>1, <1>2, <1>3, EntryCauses

\* Every step keeps Approvals.
LEMMA ApprovalsStep ==
  ASSUME TypeOK, Approvals, [Next]_vars
  PROVE  Approvals'
<1>1. CASE UNCHANGED <<entry, granted>>
  BY <1>1 DEF Approvals
<1>2. ASSUME NEW c \in Courses, Approve(c)
      PROVE  Approvals'
  BY <1>2 DEF Approve, Approvals, TypeOK, Document
<1>3. ASSUME NEW d \in Devices, Deliver(d)
      PROVE  Approvals'
  BY <1>3, DeliverEntry DEF Approvals, TypeOK, Document
<1> QED
  BY <1>1, <1>2, <1>3, EntryCauses

\* A device learns the document from a snapshot or from an acknowledgement.
LEMMA SeenCauses ==
  ASSUME TypeOK, [Next]_vars, NEW d \in Devices
  PROVE  \/ seen'[d] = seen[d] \/ seen'[d] = entry
         \/ Acknowledge(d) /\ seen'[d] = AfterAck(seen[d], Head(queue[d]))
<1> USE DEF TypeOK
<1>1. CASE UNCHANGED seen
  BY <1>1
<1>2. ASSUME NEW e \in Devices, Snapshot(e)
      PROVE  seen'[d] = seen[d] \/ seen'[d] = entry
  BY <1>2 DEF Snapshot
<1>3. ASSUME NEW e \in Devices, Acknowledge(e)
      PROVE  \/ seen'[d] = seen[d]
             \/ e = d /\ seen'[d] = AfterAck(seen[d], Head(queue[d]))
  BY <1>3 DEF Acknowledge
<1>4. \/ UNCHANGED seen
      \/ \E e \in Devices : Snapshot(e) \/ Acknowledge(e)
  BY DEF Next, Device, Button, Start, Kill, OpenPage, Identified, OffersReceived,
         LeavePage, CheckFromServer, CheckFromCache, Back, Deliver, Reject,
         LoseAnswer, TapCourse, Press, FirstFromServer, FirstFromCache,
         AgainFromServer, AgainFromCache, Approve, vars, clientVars
<1> QED
  BY <1>1, <1>2, <1>3, <1>4

\* Every step keeps SeenIsReal.
LEMMA SeenStep ==
  ASSUME TypeOK, Backed, [Next]_vars
  PROVE  SeenIsReal'
<1> SUFFICES ASSUME NEW d \in Devices, NEW c \in Courses
             PROVE  /\ seen'[d][c] # "none" => entry'[c] # "none"
                    /\ seen'[d][c] = "approved" => c \in granted'
  BY DEF SeenIsReal
<1>1. CASE seen'[d] = seen[d]
  BY <1>1, EntryGrows DEF Backed, SeenIsReal
<1>2. CASE seen'[d] = entry
  BY <1>2, EntryGrows DEF Backed, Approvals
<1>3. CASE Acknowledge(d) /\ seen'[d] = AfterAck(seen[d], Head(queue[d]))
  <2>1. sent[d] # "no" /\ queue[d] # <<>>
    BY <1>3 DEF Acknowledge, Sending
  <2>2. Head(queue[d]).course \in Courses /\ entry[Head(queue[d]).course] # "none"
    BY <2>1, OldestRequest DEF Backed, SentIsThere, Request
  <2>3. \/ seen'[d] = seen[d]
        \/ seen'[d] = [seen[d] EXCEPT ![Head(queue[d]).course] = "requested"]
    BY <1>3 DEF AfterAck, Apply
  <2>4. \/ seen'[d][c] = seen[d][c]
        \/ c = Head(queue[d]).course /\ seen'[d][c] = "requested"
    BY <2>2, <2>3 DEF TypeOK, Document
  <2> QED
    BY <2>2, <2>4, EntryGrows DEF Backed, SeenIsReal
<1> QED
  BY <1>1, <1>2, <1>3, SeenCauses

\* Every step keeps SentIsThere.
LEMMA SentStep ==
  ASSUME TypeOK, Backed, Linked, [Next]_vars
  PROVE  SentIsThere'
<1> USE DEF SentIsThere
<1>1. ASSUME NEW d \in Devices,
             \A e \in Devices \ {d} : sent'[e] = sent[e] /\ queue'[e] = queue[e],
             sent'[d] # "no" => sent[d] # "no" /\ queue[d] # <<>> /\ queue'[d] # <<>>
                                  /\ Head(queue'[d]) = Head(queue[d])
      PROVE  SentIsThere'
  <2>1. \A e \in Devices : queue[e] # <<>> => Head(queue[e]).course \in Courses
    BY OldestRequest DEF Request
  <2> QED
    BY <1>1, <2>1, EntryGrows DEF Backed
<1>2. ASSUME UNCHANGED <<queue, sent>>
      PROVE  SentIsThere'
  <2>1. \A e \in Devices : queue[e] # <<>> => Head(queue[e]).course \in Courses
    BY OldestRequest DEF Request
  <2> QED
    BY <1>2, <2>1, EntryGrows DEF Backed
<1>3. ASSUME NEW d \in Devices, Snapshot(d), UNCHANGED queue
      PROVE  SentIsThere'
  BY <1>1, <1>3 DEF Snapshot, TypeOK, Backed
<1>4. ASSUME NEW d \in Devices, Kill(d) \/ Reject(d) \/ LoseAnswer(d)
      PROVE  SentIsThere'
  BY <1>1, <1>4 DEF Kill, Reject, LoseAnswer, TypeOK
<1>5. ASSUME NEW d \in Devices, Acknowledge(d)
      PROVE  SentIsThere'
  BY <1>1, <1>5 DEF Acknowledge, TypeOK
<1>6. ASSUME NEW d \in Devices, Deliver(d)
      PROVE  SentIsThere'
  <2>1. \A e \in Devices \ {d} : sent'[e] = sent[e]
    BY <1>6, DeliverEntry DEF TypeOK
  <2>2. \A e \in Devices : queue[e] # <<>> => Head(queue[e]).course \in Courses
    BY OldestRequest DEF Request
  <2>3. queue' = queue /\ queue[d] # <<>> /\ entry'[Head(queue[d]).course] # "none"
    BY <1>6, DeliverEntry DEF TypeOK, Document
  <2> QED
    BY <2>1, <2>2, <2>3, EntryGrows DEF Backed
<1>7. ASSUME NEW d \in Devices, NEW k \in Taps, Read(d, k)
      PROVE  SentIsThere'
  <2>1. \/ UNCHANGED queue
        \/ \E w : queue' = [queue EXCEPT ![d] = Append(@, w)]
    BY <1>7, ReadStep DEF Goes
  <2>2. \A e \in Devices \ {d} : sent'[e] = sent[e]
    BY <1>7, ReadStep DEF Snapshot, TypeOK
  <2>3. sent'[d] # "no" => sent[d] # "no"
    BY <1>7, ReadStep DEF Snapshot, TypeOK
  <2>4. \A e \in Devices \ {d} : queue'[e] = queue[e]
    BY <2>1 DEF TypeOK
  <2>5. queue[d] # <<>> => queue'[d] # <<>> /\ Head(queue'[d]) = Head(queue[d])
    <3>1. CASE UNCHANGED queue
      BY <3>1
    <3>2. ASSUME NEW w, queue' = [queue EXCEPT ![d] = Append(@, w)], queue[d] # <<>>
          PROVE  queue'[d] # <<>> /\ Head(queue'[d]) = Head(queue[d])
      <4>1. queue[d] \in Seq(Request) /\ queue'[d] = Append(queue[d], w)
        BY <3>2 DEF TypeOK
      <4> QED
        BY <3>2, <4>1
    <3> QED
      BY <2>1, <3>1, <3>2
  <2> QED
    BY <1>1, <2>2, <2>3, <2>4, <2>5 DEF Backed
<1>8. \/ UNCHANGED <<queue, sent>>
      \/ \E d \in Devices :
           \/ Snapshot(d) /\ UNCHANGED queue
           \/ Kill(d) \/ Reject(d) \/ LoseAnswer(d) \/ Acknowledge(d) \/ Deliver(d)
           \/ \E k \in Taps : Read(d, k)
  BY DEF Next, Device, Button, Start, OpenPage, Identified, OffersReceived,
         LeavePage, CheckFromServer, CheckFromCache, Back, TapCourse, Press,
         Approve, Read, vars, clientVars
<1> QED
  BY <1>2, <1>3, <1>4, <1>5, <1>6, <1>7, <1>8

-----------------------------------------------------------------------------
(* What the user is told and shown *)

\* A press changes by being read for, answered, made, or ended with the process.
LEMMA TapCauses ==
  ASSUME TypeOK, Linked, [Next]_vars, NEW d \in Devices, NEW k \in Taps
  PROVE  \/ tap'[d][k] = tap[d][k]
         \/ tap'[d][k] = Idle /\ Kill(d)
         \/ tap'[d][k] = [at |-> "first", course |-> view[d].course] /\ Press(d, k)
         \/ /\ tap'[d][k].course = tap[d][k].course
            /\ \/ /\ tap[d][k].at \in {"first", "again"} /\ Read(d, k)
                  /\ tap'[d][k].at \in {"again", "already", "failed", "writing"}
               \/ /\ tap[d][k].at = "writing" /\ Head(queue[d]).by = k
                  /\ tap[d][k].course = Head(queue[d]).course
                  /\ \/ tap'[d][k].at = "applied" /\ Acknowledge(d)
                     \/ tap'[d][k].at = "failed" /\ Reject(d)
<1>1. CASE UNCHANGED tap
  BY <1>1
<1>2. ASSUME NEW e \in Devices, Kill(e)
      PROVE  \/ tap'[d][k] = tap[d][k]
             \/ e = d /\ tap'[d][k] = Idle
  <2>1. tap' = [tap EXCEPT ![e] = [l \in Taps |-> Idle]]
    BY <1>2 DEF Kill
  <2>2. tap \in [Devices -> [Taps -> Tap]]
    BY DEF TypeOK
  <2>3. e # d => tap'[d] = tap[d]
    BY <2>1, <2>2
  <2>4. e = d => tap'[d] = [l \in Taps |-> Idle]
    BY <2>1, <2>2
  <2> QED
    BY <2>3, <2>4
<1>3. ASSUME NEW e \in Devices, NEW l \in Taps, Press(e, l)
      PROVE  \/ tap'[d][k] = tap[d][k]
             \/ /\ e = d /\ l = k
                /\ tap'[d][k] = [at |-> "first", course |-> view[d].course]
  BY <1>3 DEF Press, TypeOK
<1>4. ASSUME NEW e \in Devices, NEW l \in Taps, Read(e, l)
      PROVE  \/ tap'[d][k] = tap[d][k]
             \/ /\ e = d /\ l = k
                /\ tap'[d][k].course = tap[d][k].course
                /\ tap[d][k].at \in {"first", "again"}
                /\ tap'[d][k].at \in {"again", "already", "failed", "writing"}
  <2>1. PICK at \in {"again", "already", "failed", "writing"} : Moved(e, l, at)
    BY <1>4, ReadStep DEF Goes
  <2>2. tap[e][l].at \in {"first", "again"}
    BY <1>4, ReadStep
  <2> QED
    BY <2>1, <2>2, MovedPress
<1>5. ASSUME NEW e \in Devices, NEW at \in {"applied", "failed"},
             \/ at = "applied" /\ Acknowledge(e)
             \/ at = "failed" /\ Reject(e)
      PROVE  \/ tap'[d][k] = tap[d][k]
             \/ /\ e = d /\ Head(queue[d]).by = k
                /\ tap[d][k].at = "writing"
                /\ tap[d][k].course = Head(queue[d]).course
                /\ tap'[d][k].course = tap[d][k].course
                /\ tap'[d][k].at = at
  <2> DEFINE w == Head(queue[e])
  <2>1. Resume(e, w, at)
    BY <1>5 DEF Acknowledge, Reject
  <2>2. CASE UNCHANGED tap
    BY <2>2
  <2>3. CASE w.by \in Taps /\ w.by # Gone /\ tap[e][w.by].at = "writing"
               /\ tap[e][w.by].course = w.course
    <3>1. Moved(e, w.by, at)
      BY <2>1, <2>3 DEF Resume, Moved
    <3> QED
      BY <2>3, <3>1, MovedPress
  <2> QED
    BY <1>5, <2>2, <2>3, AnswerStep, CoursesAssumption
<1>6. \/ UNCHANGED tap
      \/ \E e \in Devices :
           \/ Kill(e) \/ Acknowledge(e) \/ Reject(e)
           \/ \E l \in Taps : Press(e, l) \/ Read(e, l)
  BY AsideStep DEF Next, Device, Button, Aside, Read, vars
<1> QED
  BY <1>1, <1>2, <1>3, <1>4, <1>5, <1>6

\* Every step keeps AppliedIsRecorded.
LEMMA AppliedStep ==
  ASSUME TypeOK, Control, Linked, Backed, AppliedIsRecorded, [Next]_vars
  PROVE  AppliedIsRecorded'
<1> SUFFICES ASSUME NEW d \in Devices, NEW k \in Taps, tap'[d][k].at = "applied"
             PROVE  entry'[tap'[d][k].course] # "none"
  BY DEF AppliedIsRecorded
<1>1. CASE tap'[d][k] = tap[d][k]
  <2>1. tap[d][k].course \in Courses
    BY <1>1 DEF Control
  <2> QED
    BY <1>1, <2>1, EntryGrows DEF AppliedIsRecorded
<1>2. CASE tap[d][k].at = "writing" /\ Acknowledge(d)
             /\ tap'[d][k].course = Head(queue[d]).course
  <2>1. queue[d] # <<>> /\ entry[Head(queue[d]).course] # "none"
    BY <1>2 DEF Acknowledge, Sending, Backed, SentIsThere
  <2>2. Head(queue[d]).course \in Courses
    BY <2>1, OldestRequest DEF Request
  <2> QED
    BY <1>2, <2>1, <2>2, EntryGrows
<1>3. \/ tap'[d][k] = tap[d][k]
      \/ /\ tap[d][k].at = "writing" /\ Acknowledge(d)
         /\ tap[d][k].course = Head(queue[d]).course
         /\ tap'[d][k].course = tap[d][k].course
  <2>1. /\ tap'[d][k] # Idle
        /\ tap'[d][k] # [at |-> "first", course |-> view[d].course]
    BY DEF Idle
  <2> QED
    BY <2>1, TapCauses
<1> QED
  BY <1>1, <1>2, <1>3

\* An approval that shows through unanswered writes is in the document below.
LEMMA OverlayApproved ==
  ASSUME NEW document, NEW q, NEW c \in Courses, Overlay(document, q)[c] = "approved"
  PROVE  document[c] = "approved"
  BY DEF Overlay

\* What becomes of the view of a device.
LEMMA ViewCauses ==
  ASSUME TypeOK, Control, [Next]_vars, NEW d \in Devices
  PROVE  \/ view'[d] = view[d] /\ (active'[d] = active[d] \/ view[d] = List)
         \/ view'[d] = List
         \/ /\ active'[d] = active[d]
            /\ \/ view'[d].at = "videos" /\ view'[d].course \in active[d]
               \/ view'[d].at = "checking" /\ view'[d].course \notin Pharmacy
               \/ view'[d].at = "offer"
               \/ /\ view[d].at = "checking" /\ view'[d].at = "videos"
                  /\ view'[d].course = view[d].course /\ view[d].course \in Courses
                  /\ \/ entry[view[d].course] = "approved"
                     \/ seen[d][view[d].course] = "approved"
<1>1. CASE UNCHANGED <<view, active>>
  BY <1>1
<1>2. ASSUME NEW e \in Devices, Kill(e) \/ LeavePage(e) \/ Back(e)
      PROVE  \/ view'[d] = view[d] /\ active'[d] = active[d]
             \/ view'[d] = List
  BY <1>2 DEF Kill, LeavePage, Back, TypeOK, clientVars
<1>3. ASSUME NEW e \in Devices, Identified(e)
      PROVE  view'[d] = view[d] /\ (active'[d] = active[d] \/ view[d] = List)
  BY <1>3 DEF Identified, TypeOK, Control
<1>4. ASSUME NEW e \in Devices, NEW c \in Courses, TapCourse(e, c)
      PROVE  \/ view'[d] = view[d] \/ view'[d] = List
             \/ view'[d].at = "videos" /\ view'[d].course \in active[d]
             \/ view'[d].at = "checking" /\ view'[d].course \notin Pharmacy
             \/ view'[d].at = "offer"
  BY <1>4 DEF TapCourse, Refused, TypeOK
<1>5. ASSUME NEW e \in Devices, NEW document,
             view[e].at = "checking", CheckResult(e, document)
      PROVE  \/ view'[d] = view[d] \/ view'[d] = List
             \/ view'[d].at = "offer"
             \/ /\ e = d /\ view'[d].at = "videos"
                /\ view'[d].course = view[d].course /\ view[d].course \in Courses
                /\ document[view[d].course] = "approved"
  <2>1. CASE e # d
    BY <1>5, <2>1 DEF CheckResult, TypeOK
  <2>2. CASE e = d /\ Purchased(view[d].course, Overlay(document, queue[d]))
    <3>1. view'[d] = [at |-> "videos", course |-> view[d].course]
      BY <1>5, <2>2 DEF CheckResult, TypeOK
    <3>2. view[d].course \in Courses
      BY <1>5, <2>2 DEF Control
    <3> QED
      BY <2>2, <3>1, <3>2, OverlayApproved DEF Purchased
  <2>3. CASE e = d /\ ~Purchased(view[d].course, Overlay(document, queue[d]))
    BY <1>5, <2>3 DEF CheckResult, Refused, TypeOK
  <2> QED
    BY <2>1, <2>2, <2>3
<1>6. ASSUME NEW e \in Devices, CheckFromServer(e)
      PROVE  view[e].at = "checking" /\ CheckResult(e, entry) /\ UNCHANGED active
  BY <1>6 DEF CheckFromServer
<1>7. ASSUME NEW e \in Devices, CheckFromCache(e)
      PROVE  view[e].at = "checking" /\ CheckResult(e, seen[e]) /\ UNCHANGED active
  BY <1>7 DEF CheckFromCache
<1>8. ASSUME NEW e \in Devices, NEW c \in Courses, TapCourse(e, c)
      PROVE  UNCHANGED active
  BY <1>8 DEF TapCourse
<1>9. \/ UNCHANGED <<view, active>>
      \/ \E e \in Devices :
           \/ Kill(e) \/ LeavePage(e) \/ Back(e) \/ Identified(e)
           \/ CheckFromServer(e) \/ CheckFromCache(e)
           \/ \E c \in Courses : TapCourse(e, c)
  BY DEF Next, Device, Button, Start, OpenPage, OffersReceived, Deliver, Acknowledge,
         Reject, LoseAnswer, Press, FirstFromServer, FirstFromCache,
         AgainFromServer, AgainFromCache, Approve, vars, pageVars
<1>10. ASSUME NEW e \in Devices, CheckFromServer(e) \/ CheckFromCache(e)
       PROVE  \/ view'[d] = view[d] \/ view'[d] = List
              \/ view'[d].at = "offer"
              \/ /\ view[d].at = "checking" /\ view'[d].at = "videos"
                 /\ view'[d].course = view[d].course /\ view[d].course \in Courses
                 /\ \/ entry[view[d].course] = "approved"
                    \/ seen[d][view[d].course] = "approved"
  <2>1. CASE CheckFromServer(e)
    BY <1>5, <1>6, <2>1
  <2>2. CASE CheckFromCache(e)
    BY <1>5, <1>7, <2>2
  <2> QED
    BY <1>10, <2>1, <2>2
<1> QED
  BY <1>1, <1>2, <1>3, <1>4, <1>6, <1>7, <1>8, <1>9, <1>10

\* Every step keeps ManualNeedsApproval and Checks.
LEMMA ViewStep ==
  ASSUME TypeOK, Control, Backed, ManualNeedsApproval, Checks, [Next]_vars
  PROVE  ManualNeedsApproval' /\ Checks'
<1>1. ASSUME NEW d \in Devices
      PROVE  /\ view'[d].at = "videos" => view'[d].course \in active'[d] \cup granted'
             /\ view'[d].at = "checking" => view'[d].course \notin Pharmacy
  BY ViewCauses, EntryGrows
     DEF ManualNeedsApproval, Checks, Backed, Approvals, SeenIsReal, List
<1> QED
  BY <1>1 DEF ManualNeedsApproval, Checks

-----------------------------------------------------------------------------
(* The invariant *)

Inv ==
  /\ TypeOK /\ Control /\ Linked /\ Backed /\ Checks
  /\ AppliedIsRecorded /\ ManualNeedsApproval

\* Inv holds at the start.
LEMMA InitInv == Init => Inv
<1> SUFFICES ASSUME Init
             PROVE  Inv
  OBVIOUS
<1> USE DEF Init
<1>1. TypeOK
  BY DEF TypeOK, Document, Status, Missing, View, Tap, List, Idle
<1>2. Control /\ Checks /\ ManualNeedsApproval
  BY DEF Control, Checks, ManualNeedsApproval, List, Idle
<1>3. Linked /\ AppliedIsRecorded
  BY DEF Linked, AppliedIsRecorded, Idle
<1>4. Backed
  BY DEF Backed, Approvals, SeenIsReal, SentIsThere, Missing
<1> QED
  BY <1>1, <1>2, <1>3, <1>4 DEF Inv

\* Inv is an invariant.
LEMMA SpecInv == Spec => []Inv
<1>1. Inv /\ [Next]_vars => Inv'
  <2> SUFFICES ASSUME Inv, [Next]_vars
               PROVE  Inv'
    OBVIOUS
  <2>1. TypeOK' /\ Control'
    BY TypeStep, ControlStep DEF Inv
  <2>2. Linked'
    BY <2>1, LinkedStep DEF Inv
  <2>3. Backed'
    BY ApprovalsStep, SeenStep, SentStep DEF Inv, Backed
  <2>4. AppliedIsRecorded' /\ ManualNeedsApproval' /\ Checks'
    BY AppliedStep, ViewStep DEF Inv
  <2> QED
    BY <2>1, <2>2, <2>3, <2>4 DEF Inv
<1> QED
  BY InitInv, <1>1, PTL DEF Spec

\* The variables keep their types.
THEOREM TypeCorrect == Spec => []TypeOK
<1>1. Inv => TypeOK
  BY DEF Inv
<1> QED
  BY SpecInv, <1>1, PTL

\* A request confirmed to the user is never missing from the document.
THEOREM ConfirmedIsKept == Spec => []AppliedIsRecorded
<1>1. Inv => AppliedIsRecorded
  BY DEF Inv
<1> QED
  BY SpecInv, <1>1, PTL

\* Videos play on a subscription or on an approval that was really given.
THEOREM VideosAreEarned == Spec => []ManualNeedsApproval
<1>1. Inv => ManualNeedsApproval
  BY DEF Inv
<1> QED
  BY SpecInv, <1>1, PTL

-----------------------------------------------------------------------------
(***************************************************************************)
(* What steps do to requests and approvals.                                *)
(***************************************************************************)

\* An entry changes by an approval, or by a write of its course that waits.
LEMMA OthersKeptStep ==
  ASSUME TypeOK, [Next]_vars, NEW c \in Courses, entry'[c] # entry[c]
  PROVE  \/ entry[c] = "requested" /\ entry'[c] = "approved"
         \/ entry'[c] = "requested" /\ \E d \in Devices : Waits(d, c)
<1>1. ASSUME NEW x \in Courses, Approve(x)
      PROVE  entry[c] = "requested" /\ entry'[c] = "approved"
  BY <1>1 DEF Approve, TypeOK, Document
<1>2. ASSUME NEW d \in Devices, Deliver(d)
      PROVE  entry'[c] = "requested" /\ \E e \in Devices : Waits(e, c)
  <2>1. c = Head(queue[d]).course /\ entry'[c] = "requested" /\ queue[d] # <<>>
    BY <1>2, DeliverEntry DEF TypeOK, Document
  <2>2. 1 \in 1..Len(queue[d]) /\ Head(queue[d]) = queue[d][1]
    BY <2>1, OldestRequest
  <2> QED
    BY <2>1, <2>2 DEF Waits
<1> QED
  BY <1>1, <1>2, EntryCauses

\* Requests for other courses leave a course alone.
THEOREM OthersAreKept == Spec => OthersKept
<1>1. TypeOK /\ [Next]_vars =>
        [\A c \in Courses :
           entry'[c] # entry[c] =>
             \/ entry[c] = "requested" /\ entry'[c] = "approved"
             \/ entry'[c] = "requested" /\ \E d \in Devices : Waits(d, c)]_vars
  BY OthersKeptStep
<1> QED
  BY TypeCorrect, <1>1, PTL DEF Spec, OthersKept

\* A second read that finds the course requested found it in the document or in
\* a write that waits.
LEMMA AlreadyStep ==
  ASSUME TypeOK, Control, Linked, Backed, [Next]_vars,
         NEW d \in Devices, NEW k \in Taps,
         tap[d][k].at = "again", tap'[d][k].at = "already"
  PROVE  entry[tap[d][k].course] # "none" \/ Waits(d, tap[d][k].course)
<1> DEFINE c == tap[d][k].course
<1>1. c \in Courses
  BY DEF Control
<1>2. ASSUME NEW document, Overlay(document, queue[d])[c] = "requested"
      PROVE  document[c] = "requested" \/ Waits(d, c)
  BY <1>1, <1>2 DEF Overlay, Waits
<1>3. Read(d, k)
  <2>1. /\ tap'[d][k] # tap[d][k] /\ tap'[d][k] # Idle
        /\ tap'[d][k] # [at |-> "first", course |-> view[d].course]
    BY DEF Idle
  <2> QED
    BY <2>1, TapCauses
<1>4. AgainFromServer(d, k) \/ AgainFromCache(d, k)
  BY <1>3 DEF Read, FirstFromServer, FirstFromCache
<1>5. \/ AgainResult(d, k, entry) \/ AgainResult(d, k, seen[d])
  <2>1. tap[d] \in [Taps -> Tap] /\ tap \in [Devices -> [Taps -> Tap]]
    BY DEF TypeOK
  <2>2. ~Moved(d, k, "failed")
    BY MovedPress
  <2> QED
    BY <1>4, <2>2 DEF AgainFromServer, AgainFromCache, Moved
<1>6. ASSUME NEW document, AgainResult(d, k, document)
      PROVE  Overlay(document, queue[d])[c] = "requested"
  <2>1. ~Moved(d, k, "writing")
    BY MovedPress
  <2> QED
    BY <1>6, <2>1 DEF AgainResult, Enqueue, Moved
<1>7. entry[c] = "requested" \/ seen[d][c] = "requested" \/ Waits(d, c)
  BY <1>2, <1>5, <1>6
<1> QED
  BY <1>1, <1>7 DEF Backed, SeenIsReal

\* "You already have Requested" is true when it is said.
THEOREM AlreadyIsSo == Spec => AlreadyIsTrue
<1>1. Inv /\ [Next]_vars =>
        [\A d \in Devices, k \in Taps :
           tap[d][k].at = "again" /\ tap'[d][k].at = "already" =>
             entry[tap[d][k].course] # "none" \/ Waits(d, tap[d][k].course)]_vars
  BY AlreadyStep DEF Inv
<1> QED
  BY SpecInv, <1>1, PTL DEF Spec, AlreadyIsTrue

\* A write of a course waits after a step only if it did, or was queued by a
\* press of that course that was being read for.
LEMMA WaitsCauses ==
  ASSUME TypeOK, Control, Linked, [Next]_vars,
         NEW d \in Devices, NEW c \in Courses, Waits(d, c)'
  PROVE  \/ Waits(d, c)
         \/ \E k \in Taps : tap[d][k].course = c /\ tap[d][k].at \in {"first", "again"}
<1>1. PICK i \in 1..Len(queue'[d]) : queue'[d][i].course = c
  BY DEF Waits
<1>2. queue[d] \in Seq(Request)
  BY DEF TypeOK
<1>3. CASE queue'[d] = queue[d]
  BY <1>1, <1>3 DEF Waits
<1>4. CASE Kill(d)
  <2>1. queue'[d] = [j \in DOMAIN queue[d] |-> [queue[d][j] EXCEPT !.by = Gone]]
    BY <1>4 DEF Kill, TypeOK
  <2>2. DOMAIN queue'[d] = 1..Len(queue[d]) /\ Len(queue'[d]) = Len(queue[d])
    <3>1. \A j \in DOMAIN queue[d] : [queue[d][j] EXCEPT !.by = Gone] \in Request
      <4>1. \A w \in Request : [w EXCEPT !.by = Gone] \in Request
        BY DEF Request
      <4> QED
        BY <1>2, <4>1
    <3> QED
      BY <1>2, <2>1
  <2>3. queue[d][i] \in Request /\ i \in DOMAIN queue[d]
    BY <1>1, <1>2, <2>2
  <2>4. queue'[d][i].course = queue[d][i].course
    BY <2>1, <2>3 DEF Request
  <2> QED
    BY <1>1, <2>2, <2>4 DEF Waits
<1>5. ASSUME queue[d] # <<>>, queue'[d] = Tail(queue[d])
      PROVE  Waits(d, c)
  <2>1. i + 1 \in 1..Len(queue[d]) /\ queue'[d][i] = queue[d][i + 1]
    BY <1>1, <1>2, <1>5
  <2> QED
    BY <1>1, <2>1 DEF Waits
<1>6. ASSUME NEW k \in Taps, Read(d, k), NEW kind \in {"merge", "update"},
             queue'[d] = Append(queue[d],
               [kind |-> kind, course |-> tap[d][k].course, by |-> k])
      PROVE  \/ Waits(d, c)
             \/ tap[d][k].course = c /\ tap[d][k].at \in {"first", "again"}
  <2>1. CASE i \in 1..Len(queue[d])
    <3>1. queue'[d][i] = queue[d][i]
      BY <1>2, <1>6, <2>1
    <3> QED
      BY <1>1, <2>1, <3>1 DEF Waits
  <2>2. CASE i = Len(queue[d]) + 1
    <3>1. queue'[d][i] = [kind |-> kind, course |-> tap[d][k].course, by |-> k]
      BY <1>2, <1>6, <2>2
    <3>2. queue'[d][i].course = tap[d][k].course
      BY <3>1
    <3> QED
      BY <1>1, <1>6, <3>2, ReadStep
  <2> QED
    BY <1>1, <1>2, <1>6, <2>1, <2>2
<1>7. \/ queue'[d] = queue[d] \/ Kill(d)
      \/ queue[d] # <<>> /\ queue'[d] = Tail(queue[d])
      \/ \E k \in Taps, kind \in {"merge", "update"} :
           /\ Read(d, k)
           /\ queue'[d] = Append(queue[d],
                [kind |-> kind, course |-> tap[d][k].course, by |-> k])
  <2>1. CASE UNCHANGED queue
    BY <2>1
  <2>2. ASSUME NEW e \in Devices, Kill(e)
        PROVE  queue'[d] = queue[d] \/ Kill(d)
    BY <2>2 DEF Kill, TypeOK
  <2>3. ASSUME NEW e \in Devices, Acknowledge(e) \/ Reject(e)
        PROVE  \/ queue'[d] = queue[d]
               \/ queue[d] # <<>> /\ queue'[d] = Tail(queue[d])
    BY <2>3, AnswerStep DEF TypeOK
  <2>4. ASSUME NEW e \in Devices, NEW k \in Taps, Read(e, k)
        PROVE  \/ queue'[d] = queue[d]
               \/ \E kind \in {"merge", "update"} :
                    /\ e = d
                    /\ queue'[d] = Append(queue[d],
                         [kind |-> kind, course |-> tap[d][k].course, by |-> k])
    <3>1. CASE UNCHANGED queue
      BY <3>1
    <3>2. ASSUME NEW kind \in {"merge", "update"},
                 queue' = [queue EXCEPT ![e] = Append(@,
                   [kind |-> kind, course |-> tap[e][k].course, by |-> k])]
          PROVE  \/ queue'[d] = queue[d]
                 \/ /\ e = d
                    /\ queue'[d] = Append(queue[d],
                         [kind |-> kind, course |-> tap[d][k].course, by |-> k])
      BY <3>2 DEF TypeOK
    <3> QED
      BY <2>4, <3>1, <3>2, ReadStep DEF Goes
  <2>5. \/ UNCHANGED queue
        \/ \E e \in Devices :
             \/ Kill(e) \/ Acknowledge(e) \/ Reject(e)
             \/ \E k \in Taps : Press(e, k) \/ Read(e, k)
    BY AsideStep DEF Next, Device, Button, Aside, Read, vars
  <2>6. ASSUME NEW e \in Devices, NEW k \in Taps, Press(e, k)
        PROVE  UNCHANGED queue
    BY <2>6 DEF Press, clientVars
  <2> QED
    BY <2>1, <2>2, <2>3, <2>4, <2>5, <2>6
<1> QED
  BY <1>3, <1>4, <1>5, <1>6, <1>7

\* While all is quiet about an approved course, only a press ends the quiet.
LEMMA ApprovalStep ==
  ASSUME TypeOK, Control, Linked, [Next]_vars,
         NEW c \in Courses, entry[c] = "approved", Quiet(c)
  PROVE  /\ entry'[c] = "approved"
         /\ \/ Quiet(c)'
            \/ \E d \in Devices, k \in Taps :
                 tap'[d][k] = [at |-> "first", course |-> c]
<1>1. entry'[c] = "approved"
  BY OthersKeptStep DEF Quiet
<1>2. \A d \in Devices : ~Waits(d, c)'
  BY WaitsCauses DEF Quiet, Busy
<1>3. ASSUME NEW d \in Devices, NEW k \in Taps,
             tap'[d][k].course = c, tap'[d][k].at \in Busy
      PROVE  tap'[d][k] = [at |-> "first", course |-> c]
  <2>1. tap'[d][k] # Idle /\ tap'[d][k].at \notin {"applied", "failed"}
    BY <1>3 DEF Idle, Busy
  <2>2. tap'[d][k] # tap[d][k]
    BY <1>3 DEF Quiet
  <2>3. tap[d][k].course = c => tap[d][k].at \notin {"first", "again"}
    BY DEF Quiet, Busy
  <2>4. tap'[d][k] = [at |-> "first", course |-> view[d].course]
    BY <1>3, <2>1, <2>2, <2>3, TapCauses
  <2>5. view[d].course = c
    BY <1>3, <2>4
  <2> QED
    BY <2>4, <2>5
<1> QED
  BY <1>1, <1>2, <1>3 DEF Quiet

\* An approval outlives reads, answers, restarts and requests for other courses.
THEOREM ApprovalsLast == Spec => ApprovalLasts
<1>1. Inv /\ [Next]_vars =>
        [\A c \in Courses : entry[c] = "approved" /\ Quiet(c) =>
           /\ entry'[c] = "approved"
           /\ \/ Quiet(c)'
              \/ \E d \in Devices, k \in Taps :
                   tap'[d][k] = [at |-> "first", course |-> c]]_vars
  BY ApprovalStep DEF Inv
<1> QED
  BY SpecInv, <1>1, PTL DEF Spec, ApprovalLasts

\* On a page whose checkmanual works, a check that read the approval opens.
LEMMA OpensStep ==
  ASSUME Engineering = {}, TypeOK, Control, Checks, [Next]_vars, NEW d \in Devices,
         view[d].at = "checking", view'[d].at \in {"list", "offer"},
         info'[d] = info[d], seen'[d] = entry, entry[view[d].course] = "approved"
  PROVE  Waits(d, view[d].course)
<1> DEFINE c == view[d].course
<1>1. c \in Sciences /\ c \in Courses
  BY DEF Control, Checks, Courses
<1>2. ASSUME NEW document, document[c] = "approved", CheckResult(d, document)
      PROVE  Waits(d, c)
  <2>1. ~Purchased(c, Overlay(document, queue[d]))
    BY <1>2 DEF CheckResult, TypeOK
  <2>2. Overlay(document, queue[d])[c] # "approved"
    BY <1>1, <2>1 DEF Purchased
  <2> QED
    BY <1>1, <1>2, <2>2 DEF Overlay, Waits
<1>3. CheckFromServer(d) \/ CheckFromCache(d)
  <2>1. view'[d] # view[d]
    OBVIOUS
  <2>2. ~Kill(d) /\ ~LeavePage(d)
    BY DEF Kill, LeavePage, TypeOK
  <2>3. ~Back(d) /\ \A x \in Courses : ~TapCourse(d, x)
    BY DEF Back, TapCourse, List
  <2>4. ~UNCHANGED view
    BY <2>1
  <2>5. \A e \in Devices \ {d} :
          /\ ~Kill(e) /\ ~LeavePage(e) /\ ~Back(e)
          /\ ~CheckFromServer(e) /\ ~CheckFromCache(e)
          /\ \A x \in Courses : ~TapCourse(e, x)
    BY <2>1 DEF Kill, LeavePage, Back, CheckFromServer, CheckFromCache, CheckResult,
                TapCourse, TypeOK
  <2>6. \/ UNCHANGED view
        \/ \E e \in Devices :
             \/ Kill(e) \/ LeavePage(e) \/ Back(e)
             \/ CheckFromServer(e) \/ CheckFromCache(e)
             \/ \E x \in Courses : TapCourse(e, x)
    BY DEF Next, Device, Button, Start, OpenPage, Identified, OffersReceived, Deliver,
           Acknowledge, Reject, LoseAnswer, Press, FirstFromServer, FirstFromCache,
           AgainFromServer, AgainFromCache, Approve, vars, pageVars
  <2> QED
    BY <2>2, <2>3, <2>4, <2>5, <2>6
<1>4. CheckResult(d, entry)
  <2>1. CASE CheckFromServer(d)
    BY <2>1 DEF CheckFromServer
  <2>2. CASE CheckFromCache(d)
    BY <2>2 DEF CheckFromCache, clientVars
  <2> QED
    BY <1>3, <2>1, <2>2
<1> QED
  BY <1>2, <1>4

\* Where no page's checkmanual throws, an approval that was read opens the course.
THEOREM ApprovedDoesOpen ==
  ASSUME Engineering = {}
  PROVE  Spec => ApprovedOpens
<1>1. Inv /\ [Next]_vars =>
        [\A d \in Devices :
           LET c == view[d].course IN
           view[d].at = "checking" /\ view'[d].at \in {"list", "offer"}
             /\ info'[d] = info[d] /\ seen'[d] = entry /\ entry[c] = "approved"
             => Waits(d, c)]_vars
  BY OpensStep DEF Inv
<1> QED
  BY SpecInv, <1>1, PTL DEF Spec, ApprovedOpens
=============================================================================

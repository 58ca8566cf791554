-------------------------- MODULE CredentialProofs --------------------------
(***************************************************************************)
(* Proofs about StreamCredentials, for any users and any bounds.           *)
(*                                                                         *)
(* Two queues carry changes of the user, and at the far end of each        *)
(* somebody acts for the user of the latest change that has come out.  A   *)
(* token travels through the same queues: it is for the right user unless  *)
(* a change is ahead of it, and then the counter of that queue drops it.   *)
(***************************************************************************)
EXTENDS StreamCredentials, TLAPS

\* The first n elements of s are no changes.
Silent(s, n) == \A i \in 1..n : s[i].kind # "change"

\* x is the user of the latest change in s, or y if there is none.
Latest(s, x, y) ==
  /\ Silent(s, Len(s)) => x = y
  /\ \A i \in 1..Len(s) :
       /\ s[i].kind = "change"
       /\ \A j \in (i + 1)..Len(s) : s[j].kind # "change"
       => s[i].user = x

Elements(s) == {s[i] : i \in 1..Len(s)}

\* A request that is not older than the stream it asks for finds it started.
CloseOk(close) == close <= closes /\ (close = closes => Started)
CallOk(call) == call.counter <= counter /\ CloseOk(call.close)

Calls ==
  /\ \A call \in Elements(tokenWork) : CallOk(call)
  /\ \A f \in fetching : CallOk(f.call)
  /\ \A m \in Elements(main) : m.kind = "token" => CallOk(m.call)
  /\ \A r \in Elements(worker) : r.kind = "resume" => CloseOk(r.close)

\* With the notifications and answers in q: the latest change made a the current
\* user, and a token that no change will overtake is for the labelled user l.
AheadOf(q, a, l, c, fs) ==
  /\ Latest(q, a, l)
  /\ \A i \in 1..Len(q) :
       q[i].kind = "token" /\ q[i].call.counter = c /\ Silent(q, i - 1) => q[i].user = l
  /\ \A f \in fs : f.call.counter = c /\ Silent(q, Len(q)) => f.user = l

\* With the changes and tokens in q: a stream that no change will stop resumes with
\* the token of the user st.
ResumedOf(q, l, st, c) ==
  /\ Latest(q, l, st)
  /\ \A i \in 1..Len(q) :
       q[i].kind = "resume" =>
         /\ q[i].label = q[i].user
         /\ q[i].close = c /\ Silent(q, i - 1) => q[i].user = st

Ahead == AheadOf(main, authUser, labelled, counter, fetching)
Resumed == ResumedOf(worker, labelled, storeUser, closes)
OpenIsOwn == stream = "Open" => token = storeUser

\* The requests, the answers and what they resume that are for the close count c.
CallsFor(c) == {call \in Call : call.close = c}
FetchesFor(c) == {f \in [user: Users, call: Call] : f.call.close = c}
AnswersFor(c) == {m \in Answer : m.call.close = c}
ResumesFor(c) == {r \in Resume : r.close = c}

NoneOf(q, S) == \A i \in 1..Len(q) : q[i] \notin S
OneOf(q, S) == \A i, j \in 1..Len(q) : q[i] \in S /\ q[j] \in S => i = j

\* Nothing under way is for the close count c, or one thing at most.
Nowhere(work, fs, q, r, c) ==
  /\ NoneOf(work, CallsFor(c)) /\ fs \cap FetchesFor(c) = {}
  /\ NoneOf(q, AnswersFor(c)) /\ NoneOf(r, ResumesFor(c))

Single(work, fs, q, r, c) ==
  /\ OneOf(work, CallsFor(c)) /\ OneOf(q, AnswersFor(c)) /\ OneOf(r, ResumesFor(c))
  /\ \A f, g \in fs \cap FetchesFor(c) : f = g
  /\ NoneOf(work, CallsFor(c)) \/ Nowhere(<<>>, fs, q, r, c)
  /\ fs \cap FetchesFor(c) = {} \/ Nowhere(work, {}, q, r, c)
  /\ NoneOf(q, AnswersFor(c)) \/ Nowhere(work, fs, <<>>, r, c)

\* A stream that starts waits for one token, and another one for none.
Awaited ==
  /\ Single(tokenWork, fetching, main, worker, closes)
  /\ stream # "Starting" => Nowhere(tokenWork, fetching, main, worker, closes)

Inv == TypeOK /\ Calls /\ Ahead /\ Resumed /\ OpenIsOwn /\ Awaited

-----------------------------------------------------------------------------
(* Queues *)

LEMMA QueueElements ==
  ASSUME NEW S, NEW s \in Seq(S)
  PROVE  /\ Elements(s) \subseteq S
         /\ \A e \in S : Append(s, e) \in Seq(S) /\ Elements(Append(s, e)) = Elements(s) \cup {e}
         /\ s # <<>> => /\ Tail(s) \in Seq(S) /\ Elements(Tail(s)) \subseteq Elements(s)
                        /\ Head(s) \in Elements(s) /\ Head(s) = s[1] /\ Len(s) >= 1
<1>1. Elements(s) \subseteq S
  BY DEF Elements
<1>2. ASSUME NEW e \in S
      PROVE  Append(s, e) \in Seq(S) /\ Elements(Append(s, e)) = Elements(s) \cup {e}
  <2>1. /\ Append(s, e) \in Seq(S) /\ Len(Append(s, e)) = Len(s) + 1
        /\ \A i \in 1..Len(s) : Append(s, e)[i] = s[i]
        /\ Append(s, e)[Len(s) + 1] = e
    OBVIOUS
  <2>2. Len(s) \in Nat /\ 1..(Len(s) + 1) = 1..Len(s) \cup {Len(s) + 1}
    OBVIOUS
  <2> QED
    BY <2>1, <2>2 DEF Elements
<1>3. ASSUME s # <<>>
      PROVE  /\ Tail(s) \in Seq(S) /\ Elements(Tail(s)) \subseteq Elements(s)
             /\ Head(s) \in Elements(s) /\ Head(s) = s[1] /\ Len(s) >= 1
  BY <1>3 DEF Elements
<1> QED
  BY <1>1, <1>2, <1>3

\* A change that is appended is the latest; another element changes nothing.
LEMMA LatestAppend ==
  ASSUME NEW S, NEW s \in Seq(S), NEW e \in S, NEW x, NEW y, Latest(s, x, y)
  PROVE  /\ e.kind = "change" => Latest(Append(s, e), e.user, y)
         /\ e.kind # "change" => Latest(Append(s, e), x, y)
<1> DEFINE t == Append(s, e)
<1>1. /\ Len(s) \in Nat /\ Len(t) = Len(s) + 1 /\ t[Len(t)] = e
      /\ \A i \in 1..Len(s) : t[i] = s[i]
  OBVIOUS
<1> HIDE DEF t
<1>2. ASSUME e.kind = "change" PROVE Latest(t, e.user, y)
  BY <1>1, <1>2 DEF Latest, Silent
<1>3. ASSUME e.kind # "change" PROVE Latest(t, x, y)
  <2>1. Silent(t, Len(t)) => Silent(s, Len(s))
    BY <1>1 DEF Silent
  <2>2. ASSUME NEW i \in 1..Len(t), t[i].kind = "change",
               \A j \in (i + 1)..Len(t) : t[j].kind # "change"
        PROVE  t[i].user = x
    BY <1>1, <1>3, <2>2 DEF Latest
  <2> QED
    BY <2>1, <2>2 DEF Latest
<1> QED
  BY <1>2, <1>3 DEF t

\* A change that is taken out is the one acted for from then on.
LEMMA LatestTail ==
  ASSUME NEW S, NEW s \in Seq(S), s # <<>>, NEW x, NEW y, Latest(s, x, y)
  PROVE  /\ Head(s).kind = "change" => Latest(Tail(s), x, Head(s).user)
         /\ Head(s).kind # "change" => Latest(Tail(s), x, y)
         /\ \A i \in 1..Len(Tail(s)) :
              /\ i + 1 \in 1..Len(s) /\ Tail(s)[i] = s[i + 1]
              /\ Head(s).kind # "change" /\ Silent(Tail(s), i - 1) => Silent(s, i)
         /\ Head(s).kind # "change" /\ Silent(Tail(s), Len(Tail(s))) => Silent(s, Len(s))
<1> DEFINE t == Tail(s)
<1>1. /\ Len(s) \in Nat /\ Len(s) = Len(t) + 1 /\ Len(t) \in Nat
      /\ Head(s) = s[1]
      /\ \A i \in 1..Len(t) : t[i] = s[i + 1]
  OBVIOUS
<1> HIDE DEF t
<1>2. \A i \in 2..Len(s) : i - 1 \in 1..Len(t) /\ s[i] = t[i - 1]
  BY <1>1
<1>3. ASSUME NEW i \in 0..Len(t), s[1].kind # "change", Silent(t, i)
      PROVE  Silent(s, i + 1)
  BY <1>1, <1>2, <1>3 DEF Silent
<1>4. ASSUME NEW i \in 1..Len(t), t[i].kind = "change",
             \A j \in (i + 1)..Len(t) : t[j].kind # "change"
      PROVE  t[i].user = x
  <2>1. i + 1 \in 1..Len(s) /\ s[i + 1] = t[i]
    BY <1>1
  <2>2. \A j \in (i + 2)..Len(s) : s[j].kind # "change"
    BY <1>2, <1>4
  <2> QED
    BY <1>1, <1>4, <2>1, <2>2 DEF Latest
<1>5. ASSUME s[1].kind = "change", Silent(t, Len(t)) PROVE x = s[1].user
  <2>1. \A j \in 2..Len(s) : s[j].kind # "change"
    BY <1>1, <1>2, <1>5 DEF Silent
  <2> QED
    BY <1>1, <1>5, <2>1 DEF Latest
<1>6. ASSUME s[1].kind # "change", Silent(t, Len(t)) PROVE x = y
  BY <1>1, <1>3, <1>6 DEF Latest
<1>7. \A i \in 1..Len(t) : i - 1 \in 0..Len(t) /\ (i - 1) + 1 = i /\ i + 1 \in 1..Len(s)
  BY <1>1
<1> QED
  BY <1>1, <1>3, <1>4, <1>5, <1>6, <1>7 DEF Latest, t

\* What is ahead of the old elements stays as it was.
LEMMA SilentAppend ==
  ASSUME NEW S, NEW s \in Seq(S), NEW e \in S
  PROVE  /\ Len(Append(s, e)) = Len(s) + 1 /\ Append(s, e)[Len(s) + 1] = e
         /\ \A i \in 1..Len(s) : /\ Append(s, e)[i] = s[i]
                                /\ Silent(Append(s, e), i - 1) <=> Silent(s, i - 1)
         /\ Silent(Append(s, e), Len(s)) <=> Silent(s, Len(s))
         /\ Silent(Append(s, e), Len(s) + 1) <=> Silent(s, Len(s)) /\ e.kind # "change"
<1> DEFINE t == Append(s, e)
<1>1. /\ Len(s) \in Nat /\ Len(t) = Len(s) + 1 /\ t[Len(s) + 1] = e
      /\ \A i \in 1..Len(s) : t[i] = s[i]
  OBVIOUS
<1> HIDE DEF t
<1>2. ASSUME NEW n \in 0..Len(s) PROVE Silent(t, n) <=> Silent(s, n)
  BY <1>1, <1>2 DEF Silent
<1>3. Silent(t, Len(s) + 1) <=> Silent(s, Len(s)) /\ e.kind # "change"
  <2>1. 1..(Len(s) + 1) = 1..Len(s) \cup {Len(s) + 1}
    BY <1>1
  <2> QED
    BY <1>1, <2>1 DEF Silent
<1>4. \A i \in 1..Len(s) : i - 1 \in 0..Len(s)
  BY <1>1
<1> QED
  BY <1>1, <1>2, <1>3, <1>4 DEF t

-----------------------------------------------------------------------------
(* Types *)

LEMMA InitInv == Init => Inv
<1> SUFFICES ASSUME Init PROVE Inv
  OBVIOUS
<1>1. TypeOK
  BY CredentialsAssumption DEF Init, TypeOK, Anyone
<1>2. Awaited
  BY DEF Init, Awaited, Single, Nowhere, NoneOf, OneOf
<1> QED
  BY <1>1, <1>2 DEF Init, Inv, Calls, Ahead, AheadOf, Resumed, ResumedOf, OpenIsOwn, Elements,
                    Latest, Silent

\* The backend's answers to a request f for a token.
SameToken(f, ok) ==
  /\ main' = Append(main, Reply(f.user, ok, f.call))
  /\ UNCHANGED <<authUser, posted>>
NewToken(f, ok) ==
  /\ posted < MaxChanges /\ posted' = posted + 1
  /\ authUser' \in {authUser, NoUser}
  /\ main' = Append(Append(main, Notification(authUser')), Reply(f.user, ok, f.call))

LEMMA FetchedCases ==
  ASSUME TypeOK, Fetched
  PROVE  /\ \E f \in fetching, ok \in BOOLEAN :
               fetching' = fetching \ {f} /\ (SameToken(f, ok) \/ NewToken(f, ok))
         /\ UNCHANGED <<tokenWork, labelled, counter, worker, streamVars>>
<1>1. UNCHANGED <<tokenWork, labelled, counter, worker, streamVars>>
  BY DEF Fetched
<1>2. PICK f \in fetching :
        /\ fetching' = fetching \ {f}
        /\ \/ /\ \E ok \in BOOLEAN :
                   main' = Append(main, Reply(f.user, ok, f.call))
              /\ UNCHANGED <<authUser, posted>>
           \/ /\ posted < MaxChanges /\ posted' = posted + 1
              /\ \E ok \in BOOLEAN :
                   /\ authUser' = IF ok THEN authUser ELSE NoUser
                   /\ main' = main \o <<Notification(authUser'), Reply(f.user, ok, f.call)>>
  BY DEF Fetched
<1>3. CASE \E ok \in BOOLEAN :
             main' = Append(main, Reply(f.user, ok, f.call)) /\ UNCHANGED <<authUser, posted>>
  BY <1>1, <1>2, <1>3 DEF SameToken
<1>4. ASSUME NEW ok \in BOOLEAN, posted < MaxChanges, posted' = posted + 1,
             authUser' = IF ok THEN authUser ELSE NoUser,
             main' = main \o <<Notification(authUser'), Reply(f.user, ok, f.call)>>
      PROVE  NewToken(f, ok)
  <2>1. f.user \in Anyone /\ f.call \in Call /\ authUser' \in Anyone
    BY <1>4 DEF TypeOK, Anyone
  <2>2. /\ Notification(authUser') \in Change \cup Answer
        /\ Reply(f.user, ok, f.call) \in Change \cup Answer
    BY <2>1 DEF Notification, Change, Reply, Answer
  <2>3. \A S : \A q \in Seq(S), a \in S, b \in S : q \o <<a, b>> = Append(Append(q, a), b)
    OBVIOUS
  <2>4. main \in Seq(Change \cup Answer)
    BY DEF TypeOK
  <2>5. main' = Append(Append(main, Notification(authUser')), Reply(f.user, ok, f.call))
    BY <1>4, <2>2, <2>3, <2>4
  <2> QED
    BY <1>4, <2>5 DEF NewToken
<1> QED
  BY <1>1, <1>2, <1>3, <1>4

LEMMA Items ==
  ASSUME TypeOK
  PROVE  /\ \A u \in Anyone : Notification(u) \in Change /\ Notification(u).kind = "change"
                             /\ Notification(u).user = u
         /\ \A f \in fetching, ok \in BOOLEAN :
              /\ f.user \in Anyone /\ f.call \in Call
              /\ Reply(f.user, ok, f.call) \in Answer
         /\ authUser \in Anyone /\ NoUser \in Anyone
         /\ \A m \in Change : m.kind = "change" /\ m.user \in Anyone
         /\ \A m \in Answer : /\ m.kind = "token" /\ m.user \in Anyone /\ m.ok \in BOOLEAN
                             /\ m.call \in Call
         /\ \A m \in Resume : m.kind = "resume" /\ m.close \in Nat /\ m.user \in Anyone
BY DEF TypeOK, Notification, Change, Reply, Answer, Anyone, Resume

LEMMA AuthTypes ==
  ASSUME TypeOK, UpdateCurrentUser \/ HandOut \/ Fetched
  PROVE  TypeOK'
<1>1. CASE UpdateCurrentUser
  <2>1. PICK u \in Anyone : Post(u) /\ authUser' = u
    BY <1>1 DEF UpdateCurrentUser
  <2>2. Notification(u) \in Change
    BY DEF Notification, Change
  <2> QED
    BY <1>1, <2>1, <2>2, CredentialsAssumption
    DEF UpdateCurrentUser, Post, TypeOK, streamVars
<1>2. CASE HandOut
  <2>1. Tail(tokenWork) \in Seq(Call) /\ Head(tokenWork) \in Call
    BY <1>2, QueueElements DEF HandOut, TypeOK
  <2>2. Reply(authUser, TRUE, Head(tokenWork)) \in Answer
    BY <2>1 DEF Reply, Answer, TypeOK
  <2>3. authUser # NoUser =>
          [user |-> authUser, call |-> Head(tokenWork)] \in [user: Users, call: Call]
    BY <2>1 DEF TypeOK, Anyone
  <2>4. main' \in Seq(Change \cup Answer)
    <3>1. \A r \in Answer : Append(main, r) \in Seq(Change \cup Answer)
      BY DEF TypeOK
    <3> QED
      BY <1>2, <2>2, <3>1 DEF HandOut, TypeOK
  <2>5. fetching' \in SUBSET [user: Users, call: Call]
    BY <1>2, <2>3 DEF HandOut, TypeOK
  <2> QED
    BY <1>2, <2>1, <2>4, <2>5 DEF HandOut, TypeOK, streamVars
<1>3. CASE Fetched
  <2>1. PICK f \in fetching, ok \in BOOLEAN :
          fetching' = fetching \ {f} /\ (SameToken(f, ok) \/ NewToken(f, ok))
    BY <1>3, FetchedCases
  <2>2. /\ authUser' \in Anyone /\ posted' \in 0..MaxChanges
    <3>1. authUser' \in {authUser, NoUser}
      BY <2>1 DEF SameToken, NewToken
    <3>2. posted' \in 0..MaxChanges
      BY <2>1, CredentialsAssumption DEF SameToken, NewToken, TypeOK
    <3> QED
      BY <3>1, <3>2, Items
  <2>3. main' \in Seq(Change \cup Answer)
    <3>1. Reply(f.user, ok, f.call) \in Answer /\ Notification(authUser') \in Change
      BY <2>2, Items
    <3>2. \A q \in Seq(Change \cup Answer) :
            /\ Append(q, Reply(f.user, ok, f.call)) \in Seq(Change \cup Answer)
            /\ Append(q, Notification(authUser')) \in Seq(Change \cup Answer)
      BY <3>1
    <3> QED
      BY <2>1, <3>2 DEF SameToken, NewToken, TypeOK
  <2> QED
    BY <1>3, <2>1, <2>2, <2>3, FetchedCases DEF TypeOK, streamVars
<1> QED
  BY <1>1, <1>2, <1>3

LEMMA MainTypes ==
  ASSUME TypeOK, Notified \/ Answered
  PROVE  TypeOK'
<1>1. /\ main # <<>> /\ Head(main) \in Change \cup Answer
      /\ main' = Tail(main) /\ Tail(main) \in Seq(Change \cup Answer)
  BY QueueElements DEF Notified, Answered, TypeOK
<1>2. CASE Notified
  <2>1. Head(main) \in Change
    BY <1>1, <1>2, Items DEF Notified
  <2> QED
    BY <1>1, <1>2, <2>1, Items DEF Notified, TypeOK, authVars, streamVars
<1>3. CASE Answered
  <2>1. Head(main) \in Answer /\ Head(main).call \in Call
    BY <1>1, <1>3, Items DEF Answered
  <2>2. [Head(main).call EXCEPT !.counter = counter] \in Call
    BY <2>1 DEF Call, TypeOK
  <2>3. ResumeItem(Head(main)) \in Resume
    BY <2>1 DEF ResumeItem, Resume, Answer, Call, TypeOK
  <2>4. Append(worker, ResumeItem(Head(main))) \in Seq(Change \cup Resume)
    BY <2>3 DEF TypeOK
  <2>5. Append(tokenWork, [Head(main).call EXCEPT !.counter = counter]) \in Seq(Call)
    BY <2>2 DEF TypeOK
  <2> HIDE DEF ResumeItem
  <2> QED
    BY <1>1, <1>3, <2>4, <2>5 DEF Answered, TypeOK, authVars, streamVars
<1> QED
  BY <1>2, <1>3

LEMMA WorkerTypes ==
  ASSUME TypeOK,
         StartStream \/ BackoffElapsed \/ Break \/ StopStream \/ CredentialChange \/ ResumeStart
  PROVE  TypeOK'
<1>1. /\ closes' \in Nat
      /\ stream' \in {"Initial", "Starting", "Open", "Error", "Backoff"}
  BY DEF StartStream, BackoffElapsed, Break, StopStream, CredentialChange, ResumeStart,
         RequestCredentials, CloseWithError, Open, TypeOK
<1>2. tokenWork' \in Seq(Call)
  <2>1. closes' \in Nat => [counter |-> counter, close |-> closes'] \in Call
    BY DEF Call, TypeOK
  <2>2. tokenWork' \in {tokenWork, Append(tokenWork, [counter |-> counter, close |-> closes'])}
    BY DEF StartStream, BackoffElapsed, Break, StopStream, CredentialChange, ResumeStart,
           RequestCredentials
  <2> QED
    BY <1>1, <2>1, <2>2 DEF TypeOK
<1>3. /\ worker' \in Seq(Change \cup Resume)
      /\ CredentialChange => storeUser' \in Anyone
      /\ ResumeStart => token' \in Anyone
  <2>1. CASE CredentialChange \/ ResumeStart
    <3>1. /\ Head(worker) \in Change \cup Resume /\ worker' = Tail(worker)
          /\ Tail(worker) \in Seq(Change \cup Resume)
      BY <2>1, QueueElements DEF CredentialChange, ResumeStart, TypeOK
    <3>2. Head(worker).user \in Anyone
      BY <3>1, Items
    <3> QED
      BY <3>1, <3>2 DEF CredentialChange, ResumeStart, Open, TypeOK
  <2>2. CASE UNCHANGED worker
    BY <2>2, <2>1 DEF TypeOK
  <2> QED
    BY <2>1, <2>2 DEF StartStream, BackoffElapsed, Break, StopStream
<1>4. /\ UNCHANGED <<authVars, main, labelled, counter>>
      /\ storeUser' = storeUser \/ CredentialChange
      /\ token' = token \/ ResumeStart
  BY DEF StartStream, BackoffElapsed, Break, StopStream, CredentialChange, ResumeStart
<1> QED
  BY <1>1, <1>2, <1>3, <1>4 DEF TypeOK, authVars

LEMMA TypeStep == TypeOK /\ [Next]_vars => TypeOK'
<1> SUFFICES ASSUME TypeOK, [Next]_vars PROVE TypeOK'
  OBVIOUS
<1>1. CASE UNCHANGED vars
  BY <1>1 DEF vars, TypeOK
<1> QED
  BY <1>1, AuthTypes, MainTypes, WorkerTypes DEF Next

-----------------------------------------------------------------------------
(* Requests and the stream they were made for *)

\* The close count only grows, and without that a started stream stays started.
LEMMA StreamMoves ==
  ASSUME TypeOK, Next
  PROVE  /\ closes' = closes + 1 \/ (closes' = closes /\ (Started => Started'))
         /\ counter' \in {counter, counter + 1}
<1> DEFINE moves == closes' = closes + 1 \/ (closes' = closes /\ (Started => Started'))
<1>1. CASE UpdateCurrentUser \/ HandOut \/ Fetched \/ Notified \/ Answered
  <2>1. closes' = closes /\ stream' = stream
    BY <1>1 DEF UpdateCurrentUser, HandOut, Fetched, Notified, Answered, streamVars
  <2> QED
    BY <1>1, <2>1 DEF UpdateCurrentUser, HandOut, Fetched, Notified, Answered, Started
<1>2. CASE StartStream \/ BackoffElapsed \/ Break \/ StopStream
  <2>1. moves
    BY <1>2 DEF StartStream, BackoffElapsed, Break, StopStream, RequestCredentials,
                CloseWithError, Started
  <2> QED
    BY <1>2, <2>1 DEF StartStream, BackoffElapsed, Break, StopStream
<1>3. CASE CredentialChange \/ ResumeStart
  <2>1. moves
    BY <1>3 DEF CredentialChange, ResumeStart, RequestCredentials, CloseWithError, Open,
                Started
  <2> QED
    BY <1>3, <2>1 DEF CredentialChange, ResumeStart
<1> QED
  BY <1>1, <1>2, <1>3 DEF Next

LEMMA CallKept ==
  ASSUME TypeOK, Next
  PROVE  /\ \A close \in Nat : CloseOk(close) => CloseOk(close)'
         /\ \A call \in Call : CallOk(call) => CallOk(call)'
<1>1. ASSUME NEW close \in Nat, CloseOk(close) PROVE CloseOk(close)'
  BY <1>1, StreamMoves DEF CloseOk, TypeOK
<1>2. ASSUME NEW call \in Call, CallOk(call) PROVE CallOk(call)'
  <2>1. call.close \in Nat /\ call.counter \in Nat
    BY DEF Call
  <2> QED
    BY <1>1, <1>2, <2>1, StreamMoves DEF CallOk, TypeOK
<1> QED
  BY <1>1, <1>2

\* Requests are made for a stream that starts.
LEMMA NewCall ==
  ASSUME TypeOK, TypeOK', Next, RequestCredentials, UNCHANGED counter
  PROVE  \A call \in Elements(tokenWork') :
           call \in Elements(tokenWork) \/ (call \in Call /\ CallOk(call)')
<1> DEFINE new == [counter |-> counter, close |-> closes']
<1>1. new \in Call /\ tokenWork' = Append(tokenWork, new)
  BY DEF RequestCredentials, Call, TypeOK
<1>2. Elements(tokenWork') = Elements(tokenWork) \cup {new}
  BY <1>1, QueueElements DEF TypeOK
<1>3. ASSUME NEW call \in Call, call = new PROVE CallOk(call)'
  BY <1>3 DEF RequestCredentials, CallOk, CloseOk, Started, TypeOK
<1> QED
  BY <1>1, <1>2, <1>3

\* What a step leaves of the queues, or adds to them.
LEMMA Queues ==
  ASSUME TypeOK, Next
  PROVE  /\ \/ Elements(tokenWork') \subseteq Elements(tokenWork)
            \/ RequestCredentials /\ UNCHANGED counter
            \/ /\ UNCHANGED counter
               /\ \E m \in Elements(main) :
                    /\ m.kind = "token"
                    /\ Elements(tokenWork') = Elements(tokenWork) \cup
                         {[m.call EXCEPT !.counter = counter]}
         /\ \A m \in Elements(main') :
              \/ m \in Elements(main)
              \/ m.kind = "change"
              \/ \E call \in Elements(tokenWork) : m.call = call
              \/ \E f \in fetching : m.call = f.call
         /\ \A r \in Elements(worker') :
              \/ r \in Elements(worker)
              \/ r.kind = "change"
              \/ \E m \in Elements(main) : m.kind = "token" /\ r.close = m.call.close
<1>0. /\ tokenWork \in Seq(Call) /\ main \in Seq(Change \cup Answer)
      /\ worker \in Seq(Change \cup Resume)
  BY DEF TypeOK
<1> DEFINE sub == /\ Elements(tokenWork') \subseteq Elements(tokenWork)
                  /\ Elements(main') \subseteq Elements(main)
                  /\ Elements(worker') \subseteq Elements(worker)
<1>1. CASE UpdateCurrentUser
  <2>1. PICK u \in Anyone : main' = Append(main, Notification(u))
    BY <1>1 DEF UpdateCurrentUser, Post
  <2>2. /\ Elements(main') = Elements(main) \cup {Notification(u)}
        /\ Notification(u).kind = "change"
    BY <1>0, <2>1, QueueElements, Items
  <2> QED
    BY <1>1, <2>2 DEF UpdateCurrentUser
<1>2. CASE HandOut
  <2>1. Head(tokenWork) \in Elements(tokenWork) /\ Elements(tokenWork') \subseteq Elements(tokenWork)
        /\ Head(tokenWork) \in Call
    BY <1>0, <1>2, QueueElements DEF HandOut
  <2>2. /\ Reply(authUser, TRUE, Head(tokenWork)) \in Answer
        /\ Reply(authUser, TRUE, Head(tokenWork)).call = Head(tokenWork)
    BY <2>1 DEF Reply, Answer, TypeOK
  <2>3. \A m \in Elements(main') : m \in Elements(main) \/ m.call = Head(tokenWork)
    <3>1. Elements(Append(main, Reply(authUser, TRUE, Head(tokenWork)))) =
            Elements(main) \cup {Reply(authUser, TRUE, Head(tokenWork))}
      BY <1>0, <2>2, QueueElements
    <3>2. main' \in {main, Append(main, Reply(authUser, TRUE, Head(tokenWork)))}
      BY <1>2 DEF HandOut
    <3> QED
      BY <2>2, <3>1, <3>2
  <2> QED
    BY <1>2, <2>1, <2>3 DEF HandOut
<1>3. CASE Fetched
  <2>1. PICK f \in fetching, ok \in BOOLEAN : SameToken(f, ok) \/ NewToken(f, ok)
    BY <1>3, FetchedCases
  <2>2. /\ Reply(f.user, ok, f.call) \in Answer /\ Reply(f.user, ok, f.call).call = f.call
    BY <2>1, Items DEF Reply
  <2>3. CASE SameToken(f, ok)
    <3>1. \A m \in Elements(main') : m \in Elements(main) \/ m.call = f.call
      BY <1>0, <2>2, <2>3, QueueElements DEF SameToken
    <3> QED
      BY <1>3, <3>1, FetchedCases
  <2>4. CASE NewToken(f, ok)
    <3>1. Notification(authUser') \in Change /\ Notification(authUser').kind = "change"
      BY <2>4, Items DEF NewToken
    <3>2. /\ Append(main, Notification(authUser')) \in Seq(Change \cup Answer)
          /\ Elements(Append(main, Notification(authUser')))
               = Elements(main) \cup {Notification(authUser')}
      BY <1>0, <3>1, QueueElements
    <3>3. Elements(main') =
            Elements(main) \cup {Notification(authUser')} \cup {Reply(f.user, ok, f.call)}
      <4>1. \A q \in Seq(Change \cup Answer) :
              Elements(Append(q, Reply(f.user, ok, f.call))) =
                Elements(q) \cup {Reply(f.user, ok, f.call)}
        BY <2>2, QueueElements
      <4> QED
        BY <2>4, <3>2, <4>1 DEF NewToken
    <3> QED
      BY <1>3, <2>2, <3>1, <3>3, FetchedCases
  <2> QED
    BY <2>1, <2>3, <2>4
<1>4. CASE Notified
  <2>1. /\ Head(main) \in Elements(main) /\ Elements(main') \subseteq Elements(main)
        /\ Head(main) \in Change
    BY <1>0, <1>4, QueueElements, Items DEF Notified
  <2>2. Elements(worker') = Elements(worker) \cup {Head(main)} /\ Head(main).kind = "change"
    BY <1>0, <1>4, <2>1, QueueElements DEF Notified
  <2> QED
    BY <1>4, <2>1, <2>2 DEF Notified
<1>5. CASE Answered
  <2>1. /\ Head(main) \in Elements(main) /\ Elements(main') \subseteq Elements(main)
        /\ Head(main) \in Answer /\ Head(main).kind = "token" /\ counter' = counter
    BY <1>0, <1>5, QueueElements, Items DEF Answered
  <2>2. /\ [Head(main).call EXCEPT !.counter = counter] \in Call
        /\ ResumeItem(Head(main)) \in Resume
        /\ ResumeItem(Head(main)).close = Head(main).call.close
    BY <2>1 DEF ResumeItem, Resume, Answer, Call, TypeOK
  <2>3. CASE UNCHANGED worker
    <3>1. Elements(tokenWork') = Elements(tokenWork) \cup
            {[Head(main).call EXCEPT !.counter = counter]}
      <4>1. \A q : Append(worker, q) # worker
        BY <1>0
      <4>2. tokenWork' = Append(tokenWork, [Head(main).call EXCEPT !.counter = counter])
        BY <1>5, <2>3, <4>1 DEF Answered
      <4> QED
        BY <1>0, <2>2, <4>2, QueueElements
    <3> QED
      BY <1>5, <2>1, <2>3, <3>1
  <2>4. CASE UNCHANGED tokenWork /\ worker' = Append(worker, ResumeItem(Head(main)))
    <3>1. Elements(worker') = Elements(worker) \cup {ResumeItem(Head(main))}
      BY <1>0, <2>2, <2>4, QueueElements
    <3> QED
      BY <1>5, <2>1, <2>2, <2>4, <3>1
  <2> QED
    BY <1>5, <2>3, <2>4 DEF Answered
<1>6. CASE StartStream \/ BackoffElapsed \/ Break \/ StopStream
  BY <1>6 DEF StartStream, BackoffElapsed, Break, StopStream
<1>7. CASE CredentialChange \/ ResumeStart
  <2>1. Elements(worker') \subseteq Elements(worker)
    BY <1>0, <1>7, QueueElements DEF CredentialChange, ResumeStart
  <2> QED
    BY <1>7, <2>1 DEF CredentialChange, ResumeStart
<1> QED
  BY <1>1, <1>2, <1>3, <1>4, <1>5, <1>6, <1>7 DEF Next

LEMMA CallsStep ==
  ASSUME TypeOK, TypeOK', Calls, Next
  PROVE  Calls'
<1>0. /\ Elements(tokenWork) \subseteq Call
      /\ Elements(main) \subseteq Change \cup Answer
      /\ Elements(worker) \subseteq Change \cup Resume
  BY QueueElements DEF TypeOK
<1>1. \A call \in Elements(tokenWork) : CallOk(call)'
  BY <1>0, CallKept DEF Calls
<1>2. \A f \in fetching : CallOk(f.call)'
  BY CallKept DEF Calls, TypeOK
<1>3. \A m \in Elements(main) : m.kind = "token" => CallOk(m.call)'
  <2>1. \A m \in Elements(main) : m.kind = "token" => m.call \in Call
    BY <1>0, Items
  <2> QED
    BY <2>1, CallKept DEF Calls
<1>4. \A r \in Elements(worker) : r.kind = "resume" => CloseOk(r.close)'
  <2>1. \A r \in Elements(worker) : r.kind = "resume" => r.close \in Nat
    BY <1>0, Items
  <2> QED
    BY <2>1, CallKept DEF Calls
<1>5. \A call \in Elements(tokenWork') : CallOk(call)'
  <2>1. ASSUME UNCHANGED counter, NEW m \in Elements(main), m.kind = "token", NEW call,
               call = [m.call EXCEPT !.counter = counter]
        PROVE  CallOk(call)'
    <3>1. m.call \in Call /\ CallOk(m.call)'
      BY <1>0, <1>3, <2>1, Items
    <3>2. call.counter = counter /\ call.close = m.call.close
      BY <2>1, <3>1 DEF Call
    <3> QED
      BY <2>1, <3>1, <3>2 DEF CallOk, TypeOK
  <2> QED
    BY <1>1, <2>1, Queues, NewCall
<1>6. \A f \in fetching' : CallOk(f.call)'
  <2>1. CASE fetching' \subseteq fetching
    BY <1>2, <2>1
  <2>2. CASE HandOut
    <3>1. \A f \in fetching' : f \in fetching \/ f.call = Head(tokenWork)
      <4>1. [user |-> authUser, call |-> Head(tokenWork)].call = Head(tokenWork)
        OBVIOUS
      <4> QED
        BY <2>2, <4>1 DEF HandOut
    <3>2. Head(tokenWork) \in Elements(tokenWork)
      BY <2>2, QueueElements DEF HandOut, TypeOK
    <3> QED
      BY <1>1, <1>2, <3>1, <3>2
  <2> QED
    BY <2>1, <2>2 DEF Next, UpdateCurrentUser, Fetched, Notified, Answered, StartStream,
         BackoffElapsed, Break, StopStream, CredentialChange, ResumeStart, authVars
<1>7. \A m \in Elements(main') : m.kind = "token" => CallOk(m.call)'
  BY <1>1, <1>2, <1>3, Queues
<1>8. \A r \in Elements(worker') : r.kind = "resume" => CloseOk(r.close)'
  BY <1>3, <1>4, Queues DEF CallOk
<1> QED
  BY <1>5, <1>6, <1>7, <1>8 DEF Calls

-----------------------------------------------------------------------------
(* The main queue *)

LEMMA AheadAppend ==
  ASSUME NEW q \in Seq(Change \cup Answer), NEW e \in Change \cup Answer,
         NEW a, NEW b, NEW l, NEW c, NEW fs, NEW gs \in SUBSET fs,
         AheadOf(q, a, l, c, fs),
         e.kind = "change" => b = e.user,
         e.kind # "change" => b = a,
         e.kind = "token" /\ e.call.counter = c /\ Silent(q, Len(q)) => e.user = l
  PROVE  AheadOf(Append(q, e), b, l, c, gs)
<1> DEFINE t == Append(q, e)
<1>1. Latest(t, b, l)
  BY LatestAppend DEF AheadOf
<1>2. /\ Len(q) \in Nat /\ Len(t) = Len(q) + 1 /\ t[Len(q) + 1] = e
      /\ \A i \in 1..Len(q) : t[i] = q[i] /\ (Silent(t, i - 1) <=> Silent(q, i - 1))
      /\ Silent(t, Len(q)) <=> Silent(q, Len(q))
      /\ Silent(t, Len(t)) => Silent(q, Len(q))
  BY SilentAppend
<1> HIDE DEF t
<1>3. ASSUME NEW i \in 1..Len(t), t[i].kind = "token", t[i].call.counter = c,
             Silent(t, i - 1)
      PROVE  t[i].user = l
  <2>1. CASE i \in 1..Len(q)
    BY <1>2, <1>3, <2>1 DEF AheadOf
  <2>2. CASE i = Len(q) + 1
    <3>1. i - 1 = Len(q)
      BY <1>2, <2>2
    <3> QED
      BY <1>2, <1>3, <2>2, <3>1
  <2> QED
    BY <1>2, <2>1, <2>2
<1>4. \A f \in gs : f.call.counter = c /\ Silent(t, Len(t)) => f.user = l
  BY <1>2 DEF AheadOf
<1> QED
  BY <1>1, <1>3, <1>4 DEF AheadOf, t

\* An answer that is taken out leaves the others where they are.
LEMMA AheadTail ==
  ASSUME NEW q \in Seq(Change \cup Answer), q # <<>>, Head(q).kind # "change",
         NEW a, NEW l, NEW c, NEW fs, AheadOf(q, a, l, c, fs)
  PROVE  AheadOf(Tail(q), a, l, c, fs)
<1> DEFINE t == Tail(q)
<1>1. /\ Latest(t, a, l)
      /\ \A i \in 1..Len(t) :
           /\ i + 1 \in 1..Len(q) /\ t[i] = q[i + 1]
           /\ Silent(t, i - 1) => Silent(q, (i + 1) - 1)
      /\ Silent(t, Len(t)) => Silent(q, Len(q))
  <2>1. Latest(q, a, l)
    BY DEF AheadOf
  <2>2. \A i \in 1..Len(t) : (i + 1) - 1 = i
    OBVIOUS
  <2> QED
    BY <2>1, <2>2, LatestTail
<1> HIDE DEF t
<1> QED
  BY <1>1 DEF AheadOf, t

\* After a notification no token that is under way is used.
LEMMA AheadNotified ==
  ASSUME TypeOK, Calls, Ahead, Notified
  PROVE  Ahead'
<1>1. /\ main \in Seq(Change \cup Answer) /\ main # <<>> /\ main' = Tail(main)
      /\ Head(main).kind = "change" /\ labelled' = Head(main).user
      /\ counter' = counter + 1 /\ counter \in Nat
      /\ UNCHANGED <<authUser, fetching>>
  BY DEF Notified, TypeOK, authVars
<1>2. Latest(main', authUser, labelled')
  BY <1>1, LatestTail DEF Ahead, AheadOf
<1>3. \A f \in fetching : f.call.counter # counter + 1
  <2>1. \A f \in fetching : f.call.counter \in Nat /\ f.call.counter <= counter
    BY DEF Calls, CallOk, TypeOK, Call
  <2> QED
    BY <1>1, <2>1
<1>4. \A m \in Elements(main') : m.kind = "token" => m.call.counter # counter + 1
  <2>1. Elements(main') \subseteq Elements(main) /\ Elements(main) \subseteq Change \cup Answer
    BY <1>1, QueueElements
  <2>2. \A m \in Elements(main') :
          m.kind = "token" => m.call.counter \in Nat /\ m.call.counter <= counter
    BY <2>1, Items DEF Calls, CallOk, Call
  <2> QED
    BY <1>1, <2>2
<1> QED
  BY <1>1, <1>2, <1>3, <1>4 DEF Ahead, AheadOf, Elements

LEMMA AheadStep ==
  ASSUME TypeOK, Calls, Ahead, Next
  PROVE  Ahead'
<1>0. main \in Seq(Change \cup Answer) /\ tokenWork \in Seq(Call)
  BY DEF TypeOK
<1>1. CASE UpdateCurrentUser
  <2>1. PICK u \in Anyone : main' = Append(main, Notification(u)) /\ authUser' = u
    BY <1>1 DEF UpdateCurrentUser, Post
  <2>2. UNCHANGED <<labelled, counter, fetching>>
    BY <1>1 DEF UpdateCurrentUser
  <2>3. /\ Notification(u) \in Change /\ Notification(u).kind = "change"
        /\ Notification(u).user = u
    BY Items
  <2>4. AheadOf(Append(main, Notification(u)), u, labelled, counter, fetching)
    BY <1>0, <2>3, AheadAppend DEF Ahead
  <2> QED
    BY <2>1, <2>2, <2>4 DEF Ahead
<1>2. CASE HandOut
  <2> DEFINE e == Reply(authUser, TRUE, Head(tokenWork))
             f == [user |-> authUser, call |-> Head(tokenWork)]
  <2>1. Head(tokenWork) \in Call
    BY <1>0, <1>2, QueueElements DEF HandOut
  <2>2. e \in Answer /\ e.kind = "token" /\ e.user = authUser /\ f.user = authUser
    BY <2>1 DEF Reply, Answer, TypeOK
  <2>3. UNCHANGED <<authUser, labelled, counter>>
    BY <1>2 DEF HandOut
  <2>4. CASE main' = Append(main, e) /\ UNCHANGED fetching
    <3>1. AheadOf(Append(main, e), authUser, labelled, counter, fetching)
      <4>1. Silent(main, Len(main)) => e.user = labelled
        BY <2>2 DEF Ahead, AheadOf, Latest
      <4> HIDE DEF e
      <4> QED
        BY <1>0, <2>2, <4>1, AheadAppend DEF Ahead
    <3> QED
      BY <2>3, <2>4, <3>1 DEF Ahead
  <2>5. CASE fetching' = fetching \cup {f} /\ UNCHANGED main
    <3> HIDE DEF f, e
    <3> QED
      BY <2>2, <2>3, <2>5 DEF Ahead, AheadOf, Latest
  <2> QED
    BY <1>2, <2>4, <2>5 DEF HandOut
<1>3. CASE Fetched
  <2>1. PICK f \in fetching, ok \in BOOLEAN :
          fetching' = fetching \ {f} /\ (SameToken(f, ok) \/ NewToken(f, ok))
    BY <1>3, FetchedCases
  <2> DEFINE e == Reply(f.user, ok, f.call)
             n == Notification(authUser')
  <2>2. UNCHANGED <<labelled, counter>>
    BY <1>3, FetchedCases
  <2>3. e \in Answer /\ e.kind = "token" /\ e.user = f.user /\ e.call = f.call
    BY Items DEF Reply
  <2>4. CASE SameToken(f, ok)
    <3>1. e.call.counter = counter /\ Silent(main, Len(main)) => e.user = labelled
      BY <2>3 DEF Ahead, AheadOf
    <3>2. main' = Append(main, e) /\ authUser' = authUser /\ fetching' \in SUBSET fetching
      BY <2>1, <2>4 DEF SameToken
    <3> HIDE DEF e
    <3>3. AheadOf(Append(main, e), authUser, labelled, counter, fetching')
      BY <1>0, <2>3, <3>1, <3>2, AheadAppend DEF Ahead
    <3> QED
      BY <2>2, <3>2, <3>3 DEF Ahead
  <2>5. CASE NewToken(f, ok)
    <3>1. n \in Change /\ n.kind = "change" /\ n.user = authUser'
      BY <2>5, Items DEF NewToken
    <3>2. main' = Append(Append(main, n), e) /\ fetching' \in SUBSET fetching
      BY <2>1, <2>5 DEF NewToken
    <3> HIDE DEF e, n
    <3>3. AheadOf(Append(main, n), authUser', labelled, counter, fetching')
      BY <1>0, <3>1, <3>2, AheadAppend DEF Ahead
    <3>4. Append(main, n) \in Seq(Change \cup Answer)
      BY <1>0, <3>1
    <3>5. ~Silent(Append(main, n), Len(Append(main, n)))
      BY <1>0, <3>1, SilentAppend
    <3> DEFINE q == Append(main, n)
    <3> HIDE DEF q
    <3>6. AheadOf(Append(q, e), authUser', labelled, counter, fetching')
      BY <2>3, <3>3, <3>4, <3>5, AheadAppend DEF q
    <3> QED
      BY <2>2, <3>2, <3>6 DEF Ahead, q
  <2> QED
    BY <2>1, <2>4, <2>5
<1>4. CASE Notified
  BY <1>4, AheadNotified
<1>5. CASE Answered
  <2>1. /\ main # <<>> /\ Head(main).kind # "change" /\ main' = Tail(main)
        /\ UNCHANGED <<authUser, labelled, counter, fetching>>
    BY <1>5 DEF Answered, authVars
  <2>2. AheadOf(Tail(main), authUser, labelled, counter, fetching)
    BY <1>0, <2>1, AheadTail DEF Ahead
  <2> QED
    BY <2>1, <2>2 DEF Ahead
<1>6. CASE UNCHANGED <<authUser, main, labelled, counter, fetching>>
  BY <1>6 DEF Ahead
<1> QED
  BY <1>1, <1>2, <1>3, <1>4, <1>5, <1>6
  DEF Next, StartStream, BackoffElapsed, Break, StopStream, CredentialChange, ResumeStart,
      authVars

-----------------------------------------------------------------------------
(* The worker queue *)

LEMMA ResumedAppend ==
  ASSUME NEW q \in Seq(Change \cup Resume), NEW e \in Change \cup Resume,
         NEW l, NEW k, NEW st, NEW c, ResumedOf(q, l, st, c),
         e.kind = "change" => k = e.user,
         e.kind = "resume" =>
           /\ k = l /\ e.label = e.user
           /\ Silent(q, Len(q)) => e.user = st
  PROVE  ResumedOf(Append(q, e), k, st, c)
<1> DEFINE t == Append(q, e)
<1>1. e.kind \in {"change", "resume"}
  BY DEF Change, Resume
<1>2. Latest(t, k, st)
  BY <1>1, LatestAppend DEF ResumedOf
<1>3. /\ Len(q) \in Nat /\ Len(t) = Len(q) + 1 /\ t[Len(q) + 1] = e
      /\ \A i \in 1..Len(q) : t[i] = q[i] /\ (Silent(t, i - 1) <=> Silent(q, i - 1))
      /\ Silent(t, Len(q)) <=> Silent(q, Len(q))
  BY SilentAppend
<1> HIDE DEF t
<1>4. ASSUME NEW i \in 1..Len(t), t[i].kind = "resume"
      PROVE  /\ t[i].label = t[i].user
             /\ t[i].close = c /\ Silent(t, i - 1) => t[i].user = st
  <2>1. CASE i \in 1..Len(q)
    BY <1>3, <1>4, <2>1 DEF ResumedOf
  <2>2. CASE i = Len(q) + 1
    <3>1. i - 1 = Len(q)
      BY <1>3, <2>2
    <3> QED
      BY <1>3, <1>4, <2>2, <3>1
  <2> QED
    BY <1>3, <2>1, <2>2
<1> QED
  BY <1>2, <1>4 DEF ResumedOf, t

\* What is left of the queue, for the user of the change that was taken out.  No
\* item can be for a later close than the last.
LEMMA ResumedTail ==
  ASSUME NEW q \in Seq(Change \cup Resume), q # <<>>,
         NEW l, NEW st, NEW c, NEW d, ResumedOf(q, l, st, c),
         \/ Head(q).kind # "change" /\ d = c
         \/ \A r \in Elements(q) : r.kind = "resume" => r.close # d
  PROVE  ResumedOf(Tail(q), l, IF Head(q).kind = "change" THEN Head(q).user ELSE st, d)
<1> DEFINE t == Tail(q)
           u == IF Head(q).kind = "change" THEN Head(q).user ELSE st
<1>1. /\ Latest(t, l, u)
      /\ \A i \in 1..Len(t) :
           /\ i + 1 \in 1..Len(q) /\ t[i] = q[i + 1]
           /\ Head(q).kind # "change" /\ Silent(t, i - 1) => Silent(q, (i + 1) - 1)
  <2>1. Latest(q, l, st)
    BY DEF ResumedOf
  <2>2. \A i \in 1..Len(t) : (i + 1) - 1 = i
    OBVIOUS
  <2> QED
    BY <2>1, <2>2, LatestTail
<1>2. \A i \in 1..Len(q) : q[i] \in Elements(q)
  BY DEF Elements
<1> HIDE DEF t
<1>3. ASSUME NEW i \in 1..Len(t), t[i].kind = "resume"
      PROVE  /\ t[i].label = t[i].user
             /\ t[i].close = d /\ Silent(t, i - 1) => t[i].user = u
  BY <1>1, <1>2, <1>3 DEF ResumedOf
<1> HIDE DEF u
<1>4. ResumedOf(t, l, u, d)
  BY <1>1, <1>3 DEF ResumedOf
<1> QED
  BY <1>4 DEF t, u

LEMMA CloseTypes ==
  ASSUME TypeOK, Calls
  PROVE  \A r \in Elements(worker) :
           r.kind = "resume" => /\ r.close \in Nat /\ r.close <= closes
                                /\ r.close = closes => Started
<1>1. Elements(worker) \subseteq Change \cup Resume
  BY QueueElements DEF TypeOK
<1> QED
  BY <1>1, Items DEF Calls, CloseOk

LEMMA ResumedStep ==
  ASSUME TypeOK, Calls, Ahead, Resumed, Next
  PROVE  Resumed'
<1>0. /\ worker \in Seq(Change \cup Resume) /\ main \in Seq(Change \cup Answer)
      /\ closes \in Nat
  BY DEF TypeOK
<1>1. CASE Notified
  <2>1. /\ main # <<>> /\ Head(main).kind = "change" /\ worker' = Append(worker, Head(main))
        /\ labelled' = Head(main).user /\ UNCHANGED <<storeUser, closes>>
    BY <1>1 DEF Notified, streamVars
  <2>2. Head(main) \in Change
    BY <1>0, <2>1, QueueElements, Items
  <2>3. ResumedOf(Append(worker, Head(main)), labelled', storeUser, closes)
    BY <1>0, <2>1, <2>2, ResumedAppend DEF Resumed
  <2> QED
    BY <2>1, <2>3 DEF Resumed
<1>2. CASE Answered
  <2>1. UNCHANGED <<labelled, storeUser, closes>>
    BY <1>2 DEF Answered, streamVars
  <2>2. CASE UNCHANGED worker
    BY <2>1, <2>2 DEF Resumed
  <2>3. CASE Head(main).call.counter = counter /\ worker' = Append(worker, ResumeItem(Head(main)))
    <3> DEFINE e == ResumeItem(Head(main))
    <3>1. /\ main # <<>> /\ Head(main).kind = "token" /\ Head(main) = main[1]
          /\ Len(main) \in Nat /\ 1 \in 1..Len(main)
          /\ Head(main) \in Change \cup Answer
      BY <1>0, <1>2, QueueElements DEF Answered
    <3>2. Head(main).user = labelled
      BY <2>3, <3>1 DEF Ahead, AheadOf, Silent
    <3>3. e \in Resume /\ e.kind = "resume" /\ e.label = labelled /\ e.user = Head(main).user
      <4>1. Head(main) \in Answer
        BY <3>1, Items
      <4> QED
        BY <4>1 DEF ResumeItem, Resume, Answer, Call, TypeOK
    <3>4. Silent(worker, Len(worker)) => labelled = storeUser
      BY DEF Resumed, ResumedOf, Latest
    <3> HIDE DEF e
    <3>5. ResumedOf(Append(worker, e), labelled, storeUser, closes)
      BY <1>0, <3>2, <3>3, <3>4, ResumedAppend DEF Resumed
    <3> QED
      BY <2>1, <2>3, <3>5 DEF Resumed, e
  <2> QED
    BY <1>2, <2>2, <2>3 DEF Answered
<1>3. CASE CredentialChange
  <2>1. /\ worker # <<>> /\ Head(worker).kind = "change" /\ worker' = Tail(worker)
        /\ storeUser' = Head(worker).user /\ UNCHANGED labelled
        /\ closes' = IF Started THEN closes + 1 ELSE closes
    BY <1>3 DEF CredentialChange
  <2>2. \A r \in Elements(worker) : r.kind = "resume" => r.close # closes'
    BY <1>0, <2>1, CloseTypes
  <2>3. ResumedOf(Tail(worker), labelled, storeUser', closes')
    BY <1>0, <2>1, <2>2, ResumedTail DEF Resumed
  <2> QED
    BY <2>1, <2>3 DEF Resumed
<1>4. CASE ResumeStart
  <2>1. /\ worker # <<>> /\ Head(worker).kind # "change" /\ worker' = Tail(worker)
        /\ UNCHANGED <<storeUser, labelled>>
        /\ closes' \in {closes, closes + 1}
    BY <1>4 DEF ResumeStart, Open, CloseWithError
  <2>2. closes' # closes => \A r \in Elements(worker) : r.kind = "resume" => r.close # closes'
    BY <1>0, <2>1, CloseTypes
  <2>3. ResumedOf(Tail(worker), labelled, storeUser, closes')
    BY <1>0, <2>1, <2>2, ResumedTail DEF Resumed
  <2> QED
    BY <2>1, <2>3 DEF Resumed
<1>5. CASE /\ UNCHANGED <<worker, labelled, storeUser>>
           /\ closes' \in {closes, closes + 1}
  <2>1. closes' # closes => \A r \in Elements(worker) : r.kind = "resume" => r.close # closes'
    BY <1>0, <1>5, CloseTypes
  <2> QED
    BY <1>5, <2>1 DEF Resumed, ResumedOf, Elements
<1>6. UpdateCurrentUser \/ HandOut \/ Fetched => UNCHANGED <<worker, labelled, storeUser, closes>>
  BY DEF UpdateCurrentUser, HandOut, Fetched, streamVars
<1>7. StartStream \/ BackoffElapsed \/ Break \/ StopStream =>
        UNCHANGED <<worker, labelled, storeUser>> /\ closes' \in {closes, closes + 1}
  BY DEF StartStream, BackoffElapsed, Break, StopStream, CloseWithError
<1> QED
  BY <1>1, <1>2, <1>3, <1>4, <1>5, <1>6, <1>7 DEF Next

\* The stream is opened by the head of the queue, for which no change is ahead.
LEMMA OpenStep ==
  ASSUME TypeOK, Resumed, OpenIsOwn, Next
  PROVE  OpenIsOwn'
<1>1. CASE ResumeStart
  <2>1. /\ worker # <<>> /\ Head(worker).kind = "resume" /\ storeUser' = storeUser
        /\ \/ UNCHANGED <<stream, token>>
           \/ Head(worker).close = closes /\ token' = Head(worker).user
           \/ stream' # "Open"
    BY <1>1 DEF ResumeStart, Open, CloseWithError
  <2>2. Head(worker) = worker[1] /\ 1 \in 1..Len(worker)
    BY <2>1, QueueElements DEF TypeOK
  <2>3. Head(worker).close = closes => Head(worker).user = storeUser
    BY <2>1, <2>2 DEF Resumed, ResumedOf, Silent
  <2> QED
    BY <2>1, <2>3 DEF OpenIsOwn
<1>2. CASE UNCHANGED <<stream, token, storeUser>> \/ stream' # "Open"
  BY <1>2 DEF OpenIsOwn
<1> QED
  BY <1>1, <1>2
  DEF Next, UpdateCurrentUser, HandOut, Fetched, Notified, Answered, StartStream,
      BackoffElapsed, Break, StopStream, CredentialChange, RequestCredentials,
      CloseWithError, streamVars

-----------------------------------------------------------------------------
(* The token a stream waits for *)

LEMMA OneAppend ==
  ASSUME NEW T, NEW q \in Seq(T), NEW e \in T, NEW S
  PROVE  /\ (NoneOf(q, S) /\ e \notin S) => NoneOf(Append(q, e), S)
         /\ (OneOf(q, S) /\ e \notin S) => OneOf(Append(q, e), S)
         /\ NoneOf(q, S) => OneOf(Append(q, e), S)
<1> DEFINE t == Append(q, e)
<1>1. /\ Len(q) \in Nat /\ Len(t) = Len(q) + 1 /\ t[Len(q) + 1] = e
      /\ \A i \in 1..Len(q) : t[i] = q[i]
  OBVIOUS
<1> HIDE DEF t
<1>2. \A i \in 1..Len(t) : i \in 1..Len(q) \/ i = Len(q) + 1
  BY <1>1
<1>3. /\ (NoneOf(q, S) /\ e \notin S) => NoneOf(t, S)
      /\ (OneOf(q, S) /\ e \notin S) => OneOf(t, S)
      /\ NoneOf(q, S) => OneOf(t, S)
  BY <1>1, <1>2 DEF NoneOf, OneOf
<1> QED
  BY <1>3 DEF t

LEMMA OneTail ==
  ASSUME NEW T, NEW q \in Seq(T), q # <<>>, NEW S
  PROVE  /\ NoneOf(q, S) => (NoneOf(Tail(q), S) /\ Head(q) \notin S)
         /\ OneOf(q, S) => OneOf(Tail(q), S)
         /\ (OneOf(q, S) /\ Head(q) \in S) => NoneOf(Tail(q), S)
<1> DEFINE t == Tail(q)
<1>1. /\ Len(q) \in Nat /\ Len(t) \in Nat /\ Len(q) = Len(t) + 1 /\ Head(q) = q[1]
      /\ \A i \in 1..Len(t) : t[i] = q[i + 1]
  OBVIOUS
<1> HIDE DEF t
<1>2. 1 \in 1..Len(q) /\ \A i \in 1..Len(t) : i + 1 \in 1..Len(q) /\ i + 1 # 1
  BY <1>1
<1>3. /\ NoneOf(q, S) => (NoneOf(t, S) /\ Head(q) \notin S)
      /\ OneOf(q, S) => OneOf(t, S)
      /\ (OneOf(q, S) /\ Head(q) \in S) => NoneOf(t, S)
  BY <1>1, <1>2 DEF NoneOf, OneOf
<1> QED
  BY <1>3 DEF t

LEMMA NoneOfEmpty == \A S : NoneOf(<<>>, S)
BY DEF NoneOf

\* Nothing is under way for a close that is still to come.
LEMMA FreshClose ==
  ASSUME TypeOK, Calls
  PROVE  Nowhere(tokenWork, fetching, main, worker, closes + 1)
<1>1. /\ \A call \in Elements(tokenWork) : call.close <= closes
      /\ \A f \in fetching : f.call.close <= closes
      /\ \A m \in Elements(main) : m.kind = "token" => m.call.close <= closes
      /\ \A r \in Elements(worker) : r.kind = "resume" => r.close <= closes
  BY DEF Calls, CallOk, CloseOk
<1>2. closes \in Nat /\ ~(closes + 1 <= closes)
  BY DEF TypeOK
<1>3. /\ \A call \in Elements(tokenWork) : call \notin CallsFor(closes + 1)
      /\ \A f \in fetching : f \notin FetchesFor(closes + 1)
      /\ \A m \in Elements(main) : m \notin AnswersFor(closes + 1)
      /\ \A r \in Elements(worker) : r \notin ResumesFor(closes + 1)
  BY <1>1, <1>2, Items DEF CallsFor, FetchesFor, AnswersFor, ResumesFor
<1> QED
  BY <1>3 DEF Nowhere, NoneOf, Elements

\* Nothing is also at most one thing.
LEMMA NowhereIsSingle ==
  ASSUME NEW work, NEW fs, NEW q, NEW r, NEW c, Nowhere(work, fs, q, r, c)
  PROVE  Single(work, fs, q, r, c)
BY DEF Nowhere, Single, NoneOf, OneOf

\* A change is no answer, and nothing to resume.
LEMMA OtherItems ==
  ASSUME TypeOK, NEW c
  PROVE  \A m \in Change : m \notin AnswersFor(c) /\ m \notin ResumesFor(c)
BY Items DEF AnswersFor, ResumesFor

\* On Auth's work queue.
LEMMA AwaitedAuth ==
  ASSUME TypeOK, Awaited, UpdateCurrentUser \/ HandOut \/ Fetched
  PROVE  Awaited'
<1> DEFINE W == CallsFor(closes)
           F == FetchesFor(closes)
           M == AnswersFor(closes)
           R == ResumesFor(closes)
<1>0. /\ tokenWork \in Seq(Call) /\ main \in Seq(Change \cup Answer)
      /\ worker \in Seq(Change \cup Resume)
      /\ fetching \in SUBSET [user: Users, call: Call]
  BY DEF TypeOK
<1>1. UNCHANGED <<closes, stream, worker>>
  BY FetchedCases DEF UpdateCurrentUser, HandOut, Fetched, streamVars
<1>2. CASE UpdateCurrentUser
  <2>1. PICK u \in Anyone : main' = Append(main, Notification(u))
    BY <1>2 DEF UpdateCurrentUser, Post
  <2>2. Notification(u) \in Change \cup Answer /\ Notification(u) \notin M
    BY Items, OtherItems
  <2>3. (NoneOf(main, M) => NoneOf(main', M)) /\ (OneOf(main, M) => OneOf(main', M))
    BY <1>0, <2>1, <2>2, OneAppend
  <2> HIDE DEF M
  <2>4. UNCHANGED <<tokenWork, fetching>>
    BY <1>2 DEF UpdateCurrentUser
  <2> QED
    BY <1>1, <2>3, <2>4, NoneOfEmpty DEF Awaited, Single, Nowhere, M
<1>3. CASE HandOut
  <2> DEFINE h == Head(tokenWork)
             e == Reply(authUser, TRUE, h)
             f == [user |-> authUser, call |-> h]
  <2>1. tokenWork # <<>> /\ tokenWork' = Tail(tokenWork) /\ h \in Call
    BY <1>0, <1>3, QueueElements DEF HandOut
  <2>2. e \in Change \cup Answer /\ (e \in M <=> h \in W) /\ (f \in F => h \in W)
    BY <2>1 DEF Reply, Answer, TypeOK, CallsFor, AnswersFor, FetchesFor
  <2>3. \/ main' = Append(main, e) /\ fetching' = fetching
        \/ main' = main /\ fetching' = fetching \cup {f}
    BY <1>3 DEF HandOut
  <2> HIDE DEF h, e, f, W, F, M, R
  <2>4. /\ NoneOf(tokenWork, W) => (NoneOf(tokenWork', W) /\ h \notin W)
        /\ OneOf(tokenWork, W) => OneOf(tokenWork', W)
        /\ OneOf(tokenWork, W) /\ h \in W => NoneOf(tokenWork', W)
    BY <1>0, <2>1, OneTail DEF h
  <2>5. /\ NoneOf(main, M) /\ e \notin M => NoneOf(Append(main, e), M)
        /\ OneOf(main, M) /\ e \notin M => OneOf(Append(main, e), M)
        /\ NoneOf(main, M) => OneOf(Append(main, e), M)
    BY <1>0, <2>2, OneAppend
  <2>6. CASE main' = Append(main, e) /\ fetching' = fetching
    BY <1>1, <2>2, <2>4, <2>5, <2>6, NoneOfEmpty DEF Awaited, Single, Nowhere, W, M, F, R
  <2>7. CASE main' = main /\ fetching' = fetching \cup {f}
    <3>1. f \notin F => fetching' \cap F = fetching \cap F
      BY <2>7
    <3>2. fetching \cap F = {} => \A g1, g2 \in fetching' \cap F : g1 = g2
      BY <2>7
    <3> QED
      BY <1>1, <2>2, <2>4, <2>7, <3>1, <3>2, NoneOfEmpty
      DEF Awaited, Single, Nowhere, W, M, F, R
  <2> QED
    BY <2>3, <2>6, <2>7
<1>4. CASE Fetched
  <2>1. PICK f \in fetching, ok \in BOOLEAN :
          fetching' = fetching \ {f} /\ (SameToken(f, ok) \/ NewToken(f, ok))
    BY <1>4, FetchedCases
  <2> DEFINE e == Reply(f.user, ok, f.call)
             n == Notification(authUser')
  <2>2. UNCHANGED tokenWork
    BY <1>4, FetchedCases
  <2>3. e \in Change \cup Answer /\ (e \in M => f \in F)
    BY <1>0, <2>1, Items DEF Reply, AnswersFor, FetchesFor
  <2>4. n \in Change \cup Answer /\ n \notin M
    BY <2>1, Items, OtherItems DEF SameToken, NewToken
  <2>5. main' = Append(main, e) \/ main' = Append(Append(main, n), e)
    BY <2>1 DEF SameToken, NewToken
  <2> HIDE DEF e, n, W, F, M, R
  <2>6. /\ NoneOf(main, M) /\ e \notin M => NoneOf(main', M)
        /\ OneOf(main, M) /\ e \notin M => OneOf(main', M)
        /\ NoneOf(main, M) => OneOf(main', M)
    <3>1. CASE main' = Append(main, e)
      BY <1>0, <2>3, <3>1, OneAppend
    <3>2. CASE main' = Append(Append(main, n), e)
      <4> DEFINE q == Append(main, n)
      <4>1. q \in Seq(Change \cup Answer)
        BY <1>0, <2>4
      <4>2. (NoneOf(main, M) => NoneOf(q, M)) /\ (OneOf(main, M) => OneOf(q, M))
        BY <1>0, <2>4, OneAppend
      <4> HIDE DEF q
      <4>3. /\ NoneOf(q, M) /\ e \notin M => NoneOf(Append(q, e), M)
            /\ OneOf(q, M) /\ e \notin M => OneOf(Append(q, e), M)
            /\ NoneOf(q, M) => OneOf(Append(q, e), M)
        BY <2>3, <4>1, OneAppend
      <4> QED
        BY <3>2, <4>2, <4>3 DEF q
    <3> QED
      BY <2>5, <3>1, <3>2
  <2>7. /\ fetching' \cap F \subseteq fetching \cap F
        /\ f \in F /\ (\A g1, g2 \in fetching \cap F : g1 = g2) => fetching' \cap F = {}
        /\ f \in F => fetching \cap F # {}
    BY <2>1
  <2> QED
    BY <1>1, <2>2, <2>3, <2>6, <2>7, NoneOfEmpty DEF Awaited, Single, Nowhere, W, M, F, R
<1> QED
  BY <1>2, <1>3, <1>4

\* On the main queue.
LEMMA AwaitedMain ==
  ASSUME TypeOK, Awaited, Notified \/ Answered
  PROVE  Awaited'
<1> DEFINE W == CallsFor(closes)
           F == FetchesFor(closes)
           M == AnswersFor(closes)
           R == ResumesFor(closes)
           h == Head(main)
<1>0. /\ tokenWork \in Seq(Call) /\ main \in Seq(Change \cup Answer)
      /\ worker \in Seq(Change \cup Resume)
  BY DEF TypeOK
<1>1. UNCHANGED <<closes, stream, fetching>> /\ main' = Tail(main) /\ main # <<>>
  BY DEF Notified, Answered, streamVars, authVars
<1>2. h \in Change \cup Answer
  BY <1>0, <1>1, QueueElements
<1>3. /\ NoneOf(main, M) => NoneOf(main', M) /\ h \notin M
      /\ OneOf(main, M) => OneOf(main', M)
      /\ OneOf(main, M) /\ h \in M => NoneOf(main', M)
  BY <1>0, <1>1, OneTail
<1>4. CASE Notified
  <2>1. h \in Change /\ UNCHANGED tokenWork /\ worker' = Append(worker, h)
    BY <1>2, <1>4, Items DEF Notified
  <2>2. h \notin R
    BY <2>1, OtherItems
  <2> HIDE DEF h, W, F, M, R
  <2>3. (NoneOf(worker, R) => NoneOf(worker', R)) /\ (OneOf(worker, R) => OneOf(worker', R))
    BY <1>0, <2>1, <2>2, OneAppend
  <2> QED
    BY <1>1, <1>3, <2>1, <2>3, NoneOfEmpty DEF Awaited, Single, Nowhere, W, M, F, R
<1>5. CASE Answered
  <2> DEFINE c == [h.call EXCEPT !.counter = counter]
             r == ResumeItem(h)
  <2>1. h \in Answer /\ h.call \in Call
    BY <1>2, <1>5, Items DEF Answered
  <2>2. c \in Call /\ (c \in W <=> h \in M)
    BY <2>1 DEF Call, TypeOK, CallsFor, AnswersFor
  <2>3. r \in Change \cup Resume /\ (r \in R <=> h \in M)
    BY <2>1 DEF ResumeItem, Resume, Answer, Call, TypeOK, ResumesFor, AnswersFor
  <2>4. \/ tokenWork' = Append(tokenWork, c) /\ worker' = worker
        \/ tokenWork' = tokenWork /\ worker' = Append(worker, r)
    BY <1>5 DEF Answered
  <2> HIDE DEF h, c, r, W, F, M, R
  <2>5. /\ NoneOf(tokenWork, W) /\ c \notin W => NoneOf(Append(tokenWork, c), W)
        /\ OneOf(tokenWork, W) /\ c \notin W => OneOf(Append(tokenWork, c), W)
        /\ NoneOf(tokenWork, W) => OneOf(Append(tokenWork, c), W)
    BY <1>0, <2>2, OneAppend
  <2>6. /\ NoneOf(worker, R) /\ r \notin R => NoneOf(Append(worker, r), R)
        /\ OneOf(worker, R) /\ r \notin R => OneOf(Append(worker, r), R)
        /\ NoneOf(worker, R) => OneOf(Append(worker, r), R)
    BY <1>0, <2>3, OneAppend
  <2>7. CASE tokenWork' = Append(tokenWork, c) /\ worker' = worker
    BY <1>1, <1>3, <2>2, <2>5, <2>7, NoneOfEmpty DEF Awaited, Single, Nowhere, W, M, F, R
  <2>8. CASE tokenWork' = tokenWork /\ worker' = Append(worker, r)
    BY <1>1, <1>3, <2>3, <2>6, <2>8, NoneOfEmpty DEF Awaited, Single, Nowhere, W, M, F, R
  <2> QED
    BY <2>4, <2>7, <2>8
<1> QED
  BY <1>4, <1>5

\* On the worker queue: a request is made only when none is under way.
LEMMA AwaitedWorker ==
  ASSUME TypeOK, TypeOK', Calls, Awaited,
         StartStream \/ BackoffElapsed \/ Break \/ StopStream \/ CredentialChange
  PROVE  Awaited'
<1> DEFINE c == closes'
           new == [counter |-> counter, close |-> c]
<1>0. /\ tokenWork \in Seq(Call) /\ worker \in Seq(Change \cup Resume) /\ new \in Call
  BY DEF TypeOK, Call
<1>1. /\ UNCHANGED <<main, fetching>>
      /\ worker' = worker \/ (worker # <<>> /\ worker' = Tail(worker))
  BY DEF StartStream, BackoffElapsed, Break, StopStream, CredentialChange, authVars
<1>2. closes' = closes + 1 \/ (closes' = closes /\ stream # "Starting")
  BY DEF StartStream, BackoffElapsed, Break, StopStream, CredentialChange, CloseWithError,
         RequestCredentials, Started
<1>3. \/ tokenWork' = tokenWork /\ stream' # "Starting"
      \/ tokenWork' = Append(tokenWork, new) /\ stream' = "Starting"
  BY DEF StartStream, BackoffElapsed, Break, StopStream, CredentialChange, CloseWithError,
         RequestCredentials
<1>4. Nowhere(tokenWork, fetching, main, worker, c)
  BY <1>2, FreshClose DEF Awaited
<1> HIDE DEF c, new
<1>5. NoneOf(worker', ResumesFor(c))
  <2>1. NoneOf(worker, ResumesFor(c))
    BY <1>4 DEF Nowhere
  <2>2. worker # <<>> => NoneOf(Tail(worker), ResumesFor(c))
    BY <1>0, <2>1, OneTail
  <2> QED
    BY <1>1, <2>1, <2>2
<1>6. Nowhere(tokenWork, fetching', main', worker', c)
  BY <1>1, <1>4, <1>5 DEF Nowhere
<1>7. CASE tokenWork' = tokenWork /\ stream' # "Starting"
  BY <1>6, <1>7, NowhereIsSingle DEF Awaited, c
<1>8. CASE tokenWork' = Append(tokenWork, new) /\ stream' = "Starting"
  <2>1. OneOf(tokenWork', CallsFor(c))
    BY <1>0, <1>6, <1>8, OneAppend DEF Nowhere
  <2>2. Single(tokenWork, fetching', main', worker', c)
    BY <1>6, NowhereIsSingle
  <2>3. Single(tokenWork', fetching', main', worker', c)
    BY <1>6, <2>1, <2>2, NoneOfEmpty DEF Single, Nowhere
  <2> QED
    BY <1>8, <2>3 DEF Awaited, c
<1> QED
  BY <1>3, <1>7, <1>8

\* A stream that is resumed, or fails to, waits no more.
LEMMA AwaitedResume ==
  ASSUME TypeOK, Calls, Awaited, ResumeStart
  PROVE  Awaited'
<1> DEFINE r == Head(worker)
           R == ResumesFor(closes)
<1>0. worker \in Seq(Change \cup Resume) /\ closes \in Nat
  BY DEF TypeOK
<1>1. /\ UNCHANGED <<main, fetching, tokenWork>> /\ worker # <<>> /\ worker' = Tail(worker)
      /\ r.kind = "resume"
  BY DEF ResumeStart, authVars
<1>2. r \in Resume
  BY <1>0, <1>1, QueueElements, Items
<1>3. r \in R <=> r.close = closes
  BY <1>2 DEF ResumesFor
<1>4. /\ NoneOf(worker, R) => NoneOf(worker', R) /\ r \notin R
      /\ OneOf(worker, R) => OneOf(worker', R)
      /\ OneOf(worker, R) /\ r \in R => NoneOf(worker', R)
  BY <1>0, <1>1, OneTail
<1>5. \/ r.close # closes /\ UNCHANGED <<stream, closes>>
      \/ r.close = closes /\ closes' = closes /\ stream' = "Open"
      \/ r.close = closes /\ closes' = closes + 1 /\ stream' # "Starting"
  BY DEF ResumeStart, Open, CloseWithError
<1> HIDE DEF r, R
<1>6. CASE r.close # closes /\ UNCHANGED <<stream, closes>>
  BY <1>1, <1>4, <1>6, NoneOfEmpty DEF Awaited, Single, Nowhere, R
<1>7. CASE r.close = closes /\ closes' = closes /\ stream' = "Open"
  <2>1. Nowhere(tokenWork', fetching', main', worker', closes')
    BY <1>1, <1>3, <1>4, <1>7, NoneOfEmpty DEF Awaited, Single, Nowhere, R
  <2> QED
    BY <2>1, NowhereIsSingle DEF Awaited
<1>8. CASE r.close = closes /\ closes' = closes + 1 /\ stream' # "Starting"
  <2>1. Nowhere(tokenWork, fetching, main, worker, closes')
    BY <1>8, FreshClose
  <2>2. NoneOf(worker', ResumesFor(closes'))
    BY <1>0, <1>1, <2>1, OneTail DEF Nowhere
  <2>3. Nowhere(tokenWork', fetching', main', worker', closes')
    BY <1>1, <2>1, <2>2 DEF Nowhere
  <2> QED
    BY <1>8, <2>3, NowhereIsSingle DEF Awaited
<1> QED
  BY <1>5, <1>6, <1>7, <1>8

LEMMA AwaitedStep ==
  ASSUME TypeOK, TypeOK', Calls, Awaited, Next
  PROVE  Awaited'
BY AwaitedAuth, AwaitedMain, AwaitedWorker, AwaitedResume DEF Next

-----------------------------------------------------------------------------
(* The theorems *)

LEMMA Inductive == Inv /\ [Next]_vars => Inv'
<1> SUFFICES ASSUME Inv, [Next]_vars PROVE Inv'
  OBVIOUS
<1>1. CASE UNCHANGED vars
  BY <1>1, TypeStep
  DEF vars, Inv, Calls, CallOk, CloseOk, Started, Elements, Ahead, Resumed, OpenIsOwn, Awaited
<1>2. CASE Next
  BY <1>2, TypeStep, CallsStep, AheadStep, ResumedStep, OpenStep, AwaitedStep DEF Inv
<1> QED
  BY <1>1, <1>2

LEMMA Invariant == Spec => []Inv
BY InitInv, Inductive, PTL DEF Spec

\* Every variable keeps its type.
THEOREM TypeCorrect == Spec => []TypeOK
<1>1. Inv => TypeOK
  BY DEF Inv
<1> QED
  BY <1>1, Invariant, PTL

\* An open stream has its user's token, and tokens are labelled with their owners.
THEOREM CredentialsAreRight == Spec => []RightCredentials
<1>1. Inv => RightCredentials
  <2> SUFFICES ASSUME Inv PROVE RightCredentials
    OBVIOUS
  <2>1. DOMAIN worker = 1..Len(worker)
    BY DEF Inv, TypeOK
  <2> QED
    BY <2>1 DEF Inv, OpenIsOwn, Resumed, ResumedOf, RightCredentials
<1> QED
  BY <1>1, Invariant, PTL
\* The assertion of ResumeStartWithCredentials holds: a token that passes the check of
\* the close count finds the stream still starting (stream.cc:106-130).
THEOREM AssertionHolds == Spec => []Asserted
<1>1. Inv => Asserted
  <2> SUFFICES ASSUME Inv, worker # <<>>, Head(worker).kind = "resume",
                      Head(worker).close = closes
               PROVE  stream = "Starting"
    BY DEF Inv, Asserted
  <2>1. /\ Head(worker) \in Elements(worker) /\ Elements(worker) \subseteq Change \cup Resume
        /\ TypeOK
    BY QueueElements DEF Inv, TypeOK
  <2>2. Head(worker) \in ResumesFor(closes)
    BY <2>1, Items DEF ResumesFor
  <2>3. ~NoneOf(worker, ResumesFor(closes))
    BY <2>1, <2>2 DEF Elements, NoneOf
  <2> QED
    BY <2>3 DEF Inv, Awaited, Nowhere
<1> QED
  BY <1>1, Invariant, PTL
=============================================================================

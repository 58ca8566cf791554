--------------------------- MODULE PipelineProofs ---------------------------
(***************************************************************************)
(* Proofs about WritePipeline for any accounts, any number of writes and a *)
(* pipeline of any size.                                                   *)
(*                                                                         *)
(* Everything rests on numbers: a queue is an interval of its account's    *)
(* writes that starts after the settled ones, and the pipeline, the        *)
(* requests and the answers under way are intervals that start where they  *)
(* should.                                                                 *)
(***************************************************************************)
EXTENDS WritePipeline, SequenceTheorems, TLAPS

\* The writes a + 1, a + 2, ...
Consecutive(s, a) == \A i \in 1..Len(s) : s[i] = a + i

\* The number of u's writes that are settled.
Base(u) == made[u] - Len(queue[u])

Numbered ==
  \A u \in Users : Len(queue[u]) <= made[u] /\ Consecutive(queue[u], Base(u))

\* A pipeline p as long as it can be with the queue q.
Full(p, q) == Len(p) = Least(Len(q), MaxPending)

\* The pipeline is the front of the queue.
Front == Consecutive(pipeline, Base(user)) /\ Full(pipeline, queue[user])

Needed ==
  /\ pipeline # <<>> => Started
  /\ idle => pipeline = <<>>

\* What is under way on the stream: nothing, the handshake or its answer, or answers
\* to the oldest writes of the pipeline and, until one is refused, the other ones.
Wire ==
  /\ stream # "Open" => toServer = <<>> /\ toClient = <<>> /\ ~shaken /\ ~idle
  /\ ~shaken => /\ ~idle
                /\ Len(toServer) + Len(toClient) <= 1
                /\ \A i \in 1..Len(toServer) : toServer[i] = Handshake
                /\ \A i \in 1..Len(toClient) : toClient[i].to = Handshake
  /\ shaken => /\ Len(toClient) <= Len(pipeline)
               /\ \A i \in 1..Len(toClient) : toClient[i].to = Base(user) + i
               /\ ~Ended => /\ Consecutive(toServer, Base(user) + Len(toClient))
                            /\ Len(toClient) + Len(toServer) = Len(pipeline)

\* An answer that says refused is the last one, and answers are true.
Answered ==
  \A i \in 1..Len(toClient) :
    /\ toClient[i].kind = "refused" => i = Len(toClient)
    /\ toClient[i].to # Handshake =>
         IF toClient[i].kind = "ok"
         THEN toClient[i].to \in applied[user] /\ toClient[i].to <= last[user]
         ELSE toClient[i].to \in refused[user]

\* Only writes that were made are applied; of the settled ones that are not refused none
\* is newer than the one applied last.
Known ==
  \A u \in Users : \A b \in applied[u] \ refused[u] :
    b <= made[u] /\ (b <= Base(u) => b <= last[u])

Inv == TypeOK /\ Numbered /\ Front /\ Needed /\ Wire /\ Answered /\ Known

-----------------------------------------------------------------------------
(***************************************************************************)
(* Sequences of consecutive numbers.                                       *)
(***************************************************************************)

\* Two such sequences that start alike and have the same length are the same.
LEMMA SameRun ==
  ASSUME NEW a \in Nat, NEW s \in Seq(Nat), NEW t \in Seq(Nat),
         Consecutive(s, a), Consecutive(t, a), Len(s) = Len(t)
  PROVE  s = t
<1>1. \A i \in 1..Len(s) : s[i] = t[i]
  BY DEF Consecutive
<1> QED BY <1>1, SeqEqual, Zenon

\* Without the first number.
LEMMA TailRun ==
  ASSUME NEW a \in Nat, NEW s \in Seq(Nat), s # <<>>, Consecutive(s, a)
  PROVE  /\ Tail(s) \in Seq(Nat) /\ Len(Tail(s)) = Len(s) - 1
         /\ Consecutive(Tail(s), a + 1)
         /\ Head(s) = a + 1
<1>1. /\ Tail(s) \in Seq(Nat) /\ Len(Tail(s)) = Len(s) - 1
      /\ \A i \in 1..Len(Tail(s)) : Tail(s)[i] = s[i + 1]
  BY HeadTailProperties, Zenon
<1>2. Len(s) \in Nat \ {0}
  BY EmptySeq, Zenon
<1>3. \A i \in 1..Len(Tail(s)) : Tail(s)[i] = a + 1 + i
  BY <1>1, <1>2 DEF Consecutive
<1>4. Head(s) = a + 1
  BY <1>2 DEF Consecutive
<1> QED BY <1>1, <1>3, <1>4 DEF Consecutive

\* One after the other.
LEMMA ConcatRun ==
  ASSUME NEW a \in Nat, NEW s \in Seq(Nat), NEW t \in Seq(Nat),
         Consecutive(s, a), Consecutive(t, a + Len(s))
  PROVE  s \o t \in Seq(Nat) /\ Len(s \o t) = Len(s) + Len(t) /\ Consecutive(s \o t, a)
<1>1. /\ s \o t \in Seq(Nat) /\ Len(s \o t) = Len(s) + Len(t)
      /\ \A i \in 1..Len(s) + Len(t) :
           (s \o t)[i] = IF i <= Len(s) THEN s[i] ELSE t[i - Len(s)]
  BY ConcatProperties, Zenon
<1>2. \A i \in 1..Len(s) + Len(t) : (s \o t)[i] = a + i
  BY <1>1 DEF Consecutive
<1> QED BY <1>1, <1>2 DEF Consecutive

\* With one more number.
LEMMA AppendRun ==
  ASSUME NEW a \in Nat, NEW s \in Seq(Nat), Consecutive(s, a), NEW b, b = a + Len(s) + 1
  PROVE  /\ Append(s, b) \in Seq(Nat) /\ Len(Append(s, b)) = Len(s) + 1
         /\ Consecutive(Append(s, b), a)
  BY DEF Consecutive

\* What FillWritePipeline finds in a queue whose front the pipeline is: the writes that
\* follow, until the pipeline is full or the queue is used up.
LEMMA NextBatchesRun ==
  ASSUME NEW a \in Nat, NEW q \in Seq(Nat), NEW p \in Seq(Nat),
         Consecutive(q, a), Consecutive(p, a),
         Len(p) <= Len(q), Len(p) <= MaxPending
  PROVE  LET more == NextBatches(q, p) IN
           /\ more \in Seq(Nat) /\ Consecutive(more, a + Len(p))
           /\ Len(more) = Least(Len(q), MaxPending) - Len(p)
<1> DEFINE b == IF p = <<>> THEN 0 ELSE p[Len(p)]
           first == NextAfter(q, b)
           end == Least(Len(q), first + (MaxPending - Len(p)) - 1)
<1> USE PipelineAssumption
<1>1. \A j \in 1..Len(q) : q[j] <= b <=> j < Len(p) + 1
  <2>1. CASE p = <<>>
    BY <2>1 DEF Consecutive
  <2>2. CASE p # <<>>
    <3>1. b = a + Len(p)
      BY <2>2 DEF Consecutive
    <3> QED BY <3>1 DEF Consecutive
  <2> QED BY <2>1, <2>2
<1>2. first = Len(p) + 1
  <2> HIDE DEF b
  <2> DEFINE P(i) == \A j \in DOMAIN q : j < i <=> q[j] <= b
  <2>0. DOMAIN q = 1..Len(q)
    BY LenProperties, Zenon
  <2>1. Len(p) + 1 \in 1..Len(q) + 1 /\ P(Len(p) + 1)
    BY <1>1, <2>0
  <2>2. \A i \in 1..Len(q) + 1 : P(i) => i = Len(p) + 1
    <3> SUFFICES ASSUME NEW i \in 1..Len(q) + 1, P(i), i # Len(p) + 1 PROVE FALSE
      OBVIOUS
    <3>1. CASE i < Len(p) + 1
      <4>1. i \in 1..Len(q)
        BY <3>1
      <4>2. q[i] <= b
        BY <1>1, <4>1, <3>1
      <4>3. i < i <=> q[i] <= b
        BY <4>1, <2>0
      <4> QED BY <4>2, <4>3
    <3>2. CASE Len(p) + 1 < i
      <4>1. Len(p) + 1 \in 1..Len(q)
        BY <3>2
      <4> QED BY <1>1, <4>1, <3>2, <2>0
    <3> QED BY <3>1, <3>2
  <2>3. first = CHOOSE i \in 1..Len(q) + 1 : P(i)
    BY DEF NextAfter
  <2> HIDE DEF P, first
  <2> QED BY <2>1, <2>2, <2>3
<1>3. end = Least(Len(q), MaxPending)
  <2> HIDE DEF first
  <2> QED BY <1>2 DEF Least
<1>4. NextBatches(q, p) = SubSeq(q, first, end)
  BY DEF NextBatches
<1>5. Least(Len(q), MaxPending) \in Nat /\ Least(Len(q), MaxPending) <= Len(q)
      /\ Len(p) <= Least(Len(q), MaxPending)
  BY DEF Least
<1> DEFINE n == Least(Len(q), MaxPending)
<1> HIDE DEF first, end, b, n
<1>6. NextBatches(q, p) = SubSeq(q, Len(p) + 1, n)
  BY <1>2, <1>3, <1>4 DEF n
<1>7. /\ SubSeq(q, Len(p) + 1, n) \in Seq(Nat)
      /\ Len(SubSeq(q, Len(p) + 1, n)) = n - Len(p)
      /\ \A i \in 1..(n - Len(p)) : SubSeq(q, Len(p) + 1, n)[i] = q[Len(p) + i]
  <2>1. Len(p) + 1 \in Int /\ n \in Int /\ \A i \in (Len(p) + 1)..n : q[i] \in Nat
    BY <1>5 DEF n
  <2>2. /\ SubSeq(q, Len(p) + 1, n) \in Seq(Nat)
        /\ Len(SubSeq(q, Len(p) + 1, n)) =
             IF Len(p) + 1 <= n THEN n - (Len(p) + 1) + 1 ELSE 0
        /\ \A i \in 1..n - (Len(p) + 1) + 1 :
             SubSeq(q, Len(p) + 1, n)[i] = q[Len(p) + 1 + i - 1]
    BY <2>1, SubSeqProperties
  <2> QED BY <1>5, <2>2 DEF n
<1>8. n \in Nat /\ Len(p) <= n /\ n <= Len(q)
  BY <1>5 DEF n
<1>9. \A i \in 1..(n - Len(p)) : SubSeq(q, Len(p) + 1, n)[i] = a + Len(p) + i
  <2> SUFFICES ASSUME NEW i \in 1..(n - Len(p)) PROVE q[Len(p) + i] = a + Len(p) + i
    BY <1>7
  <2>1. Len(p) + i \in 1..Len(q)
    BY <1>8
  <2> QED BY <2>1 DEF Consecutive
<1>10. Consecutive(SubSeq(q, Len(p) + 1, n), a + Len(p))
  BY <1>7, <1>9 DEF Consecutive
<1> QED BY <1>6, <1>7, <1>10 DEF n

\* Consecutive numbers are writes.
LEMMA RunIsWrites ==
  ASSUME NEW a \in Nat, NEW s \in Seq(Nat), Consecutive(s, a)
  PROVE  s \in Seq(WriteId)
<1>1. s \in [1..Len(s) -> Nat] /\ Len(s) \in Nat
  BY LenProperties, Zenon
<1>2. \A i \in 1..Len(s) : s[i] \in WriteId
  BY DEF Consecutive, WriteId
<1>3. s \in [1..Len(s) -> WriteId]
  BY <1>1, <1>2
<1> QED BY <1>1, <1>3, SeqDef

\* The pipeline is filled up to the front of the queue.
LEMMA Filled ==
  ASSUME NEW a \in Nat, NEW q \in Seq(Nat), NEW p \in Seq(Nat),
         Consecutive(q, a), Consecutive(p, a),
         Len(p) <= Len(q), Len(p) <= MaxPending,
         NEW more, more = NextBatches(q, p)
  PROVE  /\ more \in Seq(Nat) /\ Consecutive(more, a + Len(p))
         /\ p \o more \in Seq(WriteId) /\ Consecutive(p \o more, a)
         /\ Full(p \o more, q) /\ Len(p \o more) <= MaxPending
<1>1. /\ more \in Seq(Nat) /\ Consecutive(more, a + Len(p))
      /\ Len(more) = Least(Len(q), MaxPending) - Len(p)
  BY NextBatchesRun
<1>2. /\ p \o more \in Seq(Nat) /\ Len(p \o more) = Len(p) + Len(more)
      /\ Consecutive(p \o more, a)
  BY <1>1, ConcatRun
<1>3. p \o more \in Seq(WriteId)
  BY <1>2, RunIsWrites
<1>4. Full(p \o more, q) /\ Len(p \o more) <= MaxPending
  BY <1>1, <1>2, PipelineAssumption DEF Least, Full
<1> QED BY <1>1, <1>2, <1>3, <1>4

-----------------------------------------------------------------------------
(***************************************************************************)
(* What the parts of the handlers keep.                                    *)
(***************************************************************************)

\* A sequence of writes is one of numbers.
LEMMA WritesAreNumbers == \A s \in Seq(WriteId) : s \in Seq(Nat)
  BY SeqMonotonic, WriteId \subseteq Nat DEF WriteId

\* The queues and the pipeline as sequences of numbers, and how long they are.
Shape ==
  /\ \A u \in Users : /\ Base(u) \in Nat /\ queue[u] \in Seq(Nat) /\ Len(queue[u]) \in Nat
                      /\ made[u] = Base(u) + Len(queue[u])
                      /\ Consecutive(queue[u], Base(u))
  /\ user \in Users
  /\ pipeline \in Seq(Nat) /\ Consecutive(pipeline, Base(user))
  /\ Len(pipeline) \in Nat
  /\ Full(pipeline, queue[user])
  /\ Len(pipeline) <= Len(queue[user]) /\ Len(pipeline) <= MaxPending
  /\ toServer \in Seq(Nat) /\ toClient \in Seq(Answer)
  /\ DOMAIN toClient = 1..Len(toClient) /\ Len(toClient) \in Nat
  /\ DOMAIN toServer = 1..Len(toServer) /\ Len(toServer) \in Nat
  /\ \A i \in 1..Len(toClient) : toClient[i] \in Answer
  /\ \A i \in 1..Len(toServer) : toServer[i] \in Nat

\* The invariant gives it.
LEMMA Facts ==
  ASSUME Inv
  PROVE  Shape
<1>1. \A u \in Users : queue[u] \in Seq(WriteId) /\ made[u] \in Nat /\ Len(queue[u]) <= made[u]
  BY DEF Inv, TypeOK, Numbered
<1>2. \A u \in Users : queue[u] \in Seq(Nat) /\ Len(queue[u]) \in Nat
  BY <1>1, WritesAreNumbers
<1>3. \A u \in Users : Base(u) \in Nat /\ made[u] = Base(u) + Len(queue[u])
  BY <1>1, <1>2 DEF Base
<1>4. pipeline \in Seq(Nat) /\ Len(pipeline) \in Nat
  BY WritesAreNumbers DEF Inv, TypeOK
<1>5. Len(pipeline) <= Len(queue[user]) /\ Len(pipeline) <= MaxPending
  BY <1>2, PipelineAssumption DEF Inv, TypeOK, Front, Least, Full
<1>6. toServer \in Seq(Nat) /\ toClient \in Seq(Answer)
  BY DEF Inv, TypeOK
<1>7. /\ DOMAIN toClient = 1..Len(toClient) /\ Len(toClient) \in Nat
      /\ DOMAIN toServer = 1..Len(toServer) /\ Len(toServer) \in Nat
  BY <1>6, LenProperties, Zenon
<1>8. /\ \A i \in 1..Len(toClient) : toClient[i] \in Answer
      /\ \A i \in 1..Len(toServer) : toServer[i] \in Nat
  BY <1>6, ElementOfSeq
<1> QED BY <1>2, <1>3, <1>4, <1>5, <1>6, <1>7, <1>8 DEF Inv, TypeOK, Front, Numbered, Shape

\* A stream that has ended carries nothing.
LEMMA Quiet ==
  ASSUME toServer' = <<>>, toClient' = <<>>, shaken' = FALSE, idle' = FALSE
  PROVE  Wire' /\ Answered'
  BY DEF Wire, Answered

\* What the server still gets when a stream ends are writes from the front of the queue:
\* those answered already and some that follow.
LEMMA AbandonKeeps ==
  ASSUME Inv, Abandon
  PROVE  /\ toServer' = <<>> /\ toClient' = <<>> /\ shaken' = FALSE /\ idle' = FALSE
         /\ refused' = refused
         /\ applied' \in [Users -> SUBSET WriteId] /\ last' \in [Users -> Nat]
         /\ \A u \in Users : \A b \in applied'[u] \ refused[u] :
              b <= made[u] /\ (b <= Base(u) => b <= last'[u])
         /\ \/ applied' = applied
            \/ \E n \in 1..Len(queue[user]) :
                 applied' = [applied EXCEPT ![user] = @ \cup {queue[user][i] : i \in 1..n}]
         /\ Ended => applied' = applied /\ last' = last
<1>1. PICK n \in 0..(IF Ended THEN 0 ELSE Len(toServer)) :
        LET got == {toServer[i] : i \in 1..n} \ {Handshake} IN
          /\ applied' = [applied EXCEPT ![user] = @ \cup got]
          /\ last' = IF got = {} THEN last ELSE [last EXCEPT ![user] = toServer[n]]
  BY DEF Abandon
<1> DEFINE got == {toServer[i] : i \in 1..n} \ {Handshake}
<1>2. /\ applied' = [applied EXCEPT ![user] = @ \cup got]
      /\ last' = IF got = {} THEN last ELSE [last EXCEPT ![user] = toServer[n]]
  BY <1>1
<1>3. /\ applied \in [Users -> SUBSET WriteId] /\ last \in [Users -> Nat] /\ user \in Users
      /\ Known /\ Wire /\ Answered
  BY DEF Inv, TypeOK
<1>s. Shape
  BY Facts
<1>4. CASE got = {}
  <2>1. applied' = applied /\ last' = last
    BY <1>2, <1>3, <1>4
  <2> QED BY <2>1, <1>3 DEF Abandon, Known
<1>5. CASE got # {}
  <2>1. n \in 1..Len(toServer) /\ ~Ended
    BY <1>5, <1>s DEF Shape
  <2>2. shaken
    BY <1>5, <2>1, <1>s, <1>3 DEF Shape, Wire, Handshake
  <2>3. \A i \in 1..n : /\ toServer[i] = Base(user) + Len(toClient) + i
                        /\ Len(toClient) + i <= Len(queue[user])
    <3>1. /\ \A i \in 1..Len(toServer) : toServer[i] = Base(user) + Len(toClient) + i
          /\ Len(toClient) + Len(toServer) = Len(pipeline)
      BY <2>1, <2>2, <1>3 DEF Wire, Consecutive
    <3>2. Len(toClient) \in Nat /\ Len(toServer) \in Nat /\ Base(user) \in Nat
          /\ Len(queue[user]) \in Nat /\ Len(pipeline) <= Len(queue[user])
      BY <1>s DEF Shape
    <3> QED BY <2>1, <3>1, <3>2
  <2>n. Len(toClient) \in Nat /\ Len(toServer) \in Nat /\ Base(user) \in Nat
    BY <1>s DEF Shape
  <2>4. got = {toServer[i] : i \in 1..n}
    <3>1. \A i \in 1..n : toServer[i] # Handshake
      BY <2>1, <2>3, <2>n DEF Handshake
    <3> QED BY <3>1
  <2> DEFINE m == Len(toClient) + n
  <2>5. m \in 1..Len(queue[user])
    BY <2>1, <2>3, <1>s DEF Shape
  <2>6. \A i \in 1..m : queue[user][i] = Base(user) + i
    BY <2>5, <1>s DEF Shape, Consecutive
  <2>7. \A i \in 1..Len(toClient) : Base(user) + i \in applied[user]
    <3> SUFFICES ASSUME NEW i \in 1..Len(toClient) PROVE Base(user) + i \in applied[user]
      OBVIOUS
    <3>1. toClient[i].to = Base(user) + i /\ toClient[i].to # Handshake
      BY <2>2, <1>s, <1>3 DEF Shape, Wire, Handshake
    <3>2. toClient[i].kind = "ok"
      BY <2>1, <1>s DEF Shape, Ended, Answer
    <3> QED BY <3>1, <3>2, <1>3 DEF Answered
  <2>8. applied[user] \cup got = applied[user] \cup {queue[user][i] : i \in 1..m}
    <3>1. ASSUME NEW b \in got PROVE b \in {queue[user][i] : i \in 1..m}
      <4>1. PICK i \in 1..n : b = Base(user) + (Len(toClient) + i)
        <5>1. PICK i \in 1..n : b = toServer[i]
          BY <2>4
        <5>2. b = Base(user) + Len(toClient) + i
          BY <2>3, <5>1
        <5>3. b = Base(user) + (Len(toClient) + i)
          <6> HIDE DEF got, m
          <6> QED BY <5>2, <2>1, <2>n
        <5> QED BY <5>3
      <4>2. Len(toClient) + i \in 1..m
        BY <1>s, <2>1 DEF Shape
      <4> QED BY <4>1, <4>2, <2>6
    <3>2. ASSUME NEW i \in 1..m PROVE queue[user][i] \in applied[user] \cup got
      <4>1. CASE i <= Len(toClient)
        BY <4>1, <2>6, <2>7, <1>s DEF Shape
      <4>2. CASE i > Len(toClient)
        <5>1. i - Len(toClient) \in 1..n
          BY <4>2, <1>s, <2>1 DEF Shape
        <5>2. toServer[i - Len(toClient)] = Base(user) + i
          BY <5>1, <2>3, <1>s DEF Shape
        <5> QED BY <5>1, <5>2, <2>4, <2>6
      <4> QED BY <4>1, <4>2, <1>s DEF Shape
    <3> QED BY <3>1, <3>2
  <2>9. applied' = [applied EXCEPT ![user] = @ \cup {queue[user][i] : i \in 1..m}]
    BY <1>2, <2>8
  <2>10. toServer[n] \in Nat /\ toServer[n] > Base(user)
    BY <2>1, <2>3, <1>s DEF Shape
  <2>11. applied' \in [Users -> SUBSET WriteId] /\ last' \in [Users -> Nat]
    <3>1. got \subseteq WriteId
      BY <2>1, <1>s DEF Shape, WriteId, Handshake
    <3> QED BY <1>2, <1>3, <2>10, <3>1
  <2>12. \A u \in Users : \A b \in applied'[u] \ refused[u] :
           b <= made[u] /\ (b <= Base(u) => b <= last'[u])
    <3> SUFFICES ASSUME NEW u \in Users, NEW b \in applied'[u] \ refused[u]
                 PROVE  b <= made[u] /\ (b <= Base(u) => b <= last'[u])
      OBVIOUS
    <3>1. CASE u # user
      BY <3>1, <1>2, <1>3 DEF Known
    <3>2. CASE u = user
      <4>1. last'[u] = toServer[n]
        BY <3>2, <1>2, <1>3, <1>5
      <4>2. b \in WriteId
        BY <2>11
      <4>3. b <= Base(u) => b <= last'[u]
        BY <4>1, <4>2, <2>10, <3>2, <1>s DEF Shape, WriteId
      <4>4. b <= made[u]
        <5>1. CASE b \in applied[u]
          BY <5>1, <1>3 DEF Known
        <5>2. CASE b \notin applied[u]
          <6>1. PICK i \in 1..m : b = Base(user) + i
            BY <5>2, <3>2, <2>9, <2>6, <1>3
          <6> QED BY <6>1, <2>5, <1>s, <3>2 DEF Shape
        <5> QED BY <5>1, <5>2
      <4> QED BY <4>3, <4>4
    <3> QED BY <3>1, <3>2
  <2> QED BY <2>1, <2>5, <2>9, <2>11, <2>12 DEF Abandon
<1> QED BY <1>4, <1>5

\* A queue that loses its oldest write: one more is settled.
LEMMA SettleQueue ==
  ASSUME Inv, pipeline # <<>>,
         queue' = [queue EXCEPT ![user] = Tail(@)], made' = made
  PROVE  /\ queue' \in [Users -> Seq(WriteId)] /\ Numbered'
         /\ \A u \in Users : Base(u)' = IF u = user THEN Base(u) + 1 ELSE Base(u)
         /\ queue'[user] \in Seq(Nat) /\ Consecutive(queue'[user], Base(user) + 1)
         /\ Len(queue'[user]) = Len(queue[user]) - 1
         /\ Len(queue[user]) \in Nat \ {0}
         /\ Tail(pipeline) \in Seq(Nat) /\ Len(Tail(pipeline)) = Len(pipeline) - 1
         /\ Consecutive(Tail(pipeline), Base(user) + 1)
         /\ Len(pipeline) \in Nat \ {0}
<1>s. Shape
  BY Facts
<1>1. Len(pipeline) \in Nat \ {0}
  BY <1>s, EmptySeq DEF Shape
<1>2. Len(queue[user]) \in Nat \ {0} /\ queue[user] # <<>>
  BY <1>1, <1>s DEF Shape
<1>3. /\ Tail(queue[user]) \in Seq(Nat) /\ Len(Tail(queue[user])) = Len(queue[user]) - 1
      /\ Consecutive(Tail(queue[user]), Base(user) + 1)
  BY <1>2, <1>s, TailRun DEF Shape
<1>4. /\ Tail(pipeline) \in Seq(Nat) /\ Len(Tail(pipeline)) = Len(pipeline) - 1
      /\ Consecutive(Tail(pipeline), Base(user) + 1)
  BY <1>s, TailRun DEF Shape
<1>5. Tail(queue[user]) \in Seq(WriteId)
  BY <1>3, <1>s, RunIsWrites DEF Shape
<1>6. queue \in [Users -> Seq(WriteId)]
  BY DEF Inv, TypeOK
<1>7. /\ queue' \in [Users -> Seq(WriteId)]
      /\ \A u \in Users : queue'[u] = IF u = user THEN Tail(queue[user]) ELSE queue[u]
  BY <1>5, <1>6
<1>8. \A u \in Users : Base(u)' = IF u = user THEN Base(u) + 1 ELSE Base(u)
  BY <1>3, <1>7, <1>s DEF Shape, Base
<1>9. Numbered'
  <2> SUFFICES ASSUME NEW u \in Users
               PROVE  Len(queue'[u]) <= made'[u] /\ Consecutive(queue'[u], Base(u)')
    BY DEF Numbered, Consecutive
  <2>1. Consecutive(queue'[u], Base(u)')
    BY <1>3, <1>7, <1>8, <1>s DEF Shape
  <2>2. Len(queue'[u]) <= made'[u]
    BY <1>2, <1>3, <1>7, <1>s DEF Shape
  <2> QED BY <2>1, <2>2
<1> QED BY <1>1, <1>2, <1>3, <1>4, <1>7, <1>8, <1>9, <1>s DEF Shape

\* A queue that gets a new write.
LEMMA WriteQueue ==
  ASSUME Inv,
         made' = [made EXCEPT ![user] = @ + 1],
         queue' = [queue EXCEPT ![user] = Append(@, made'[user])]
  PROVE  /\ queue' \in [Users -> Seq(WriteId)] /\ made' \in [Users -> Nat] /\ Numbered'
         /\ \A u \in Users : Base(u)' = Base(u) /\ made'[u] >= made[u]
         /\ queue'[user] \in Seq(Nat) /\ Consecutive(queue'[user], Base(user))
         /\ Len(queue'[user]) = Len(queue[user]) + 1
<1>s. Shape
  BY Facts
<1>1. /\ queue \in [Users -> Seq(WriteId)] /\ made \in [Users -> Nat] /\ user \in Users
  BY DEF Inv, TypeOK
<1>2. /\ made' \in [Users -> Nat]
      /\ \A u \in Users : made'[u] = IF u = user THEN made[u] + 1 ELSE made[u]
  BY <1>1
<1> DEFINE q == Append(queue[user], made'[user])
<1>3. made'[user] = Base(user) + Len(queue[user]) + 1
  BY <1>1, <1>2, <1>s DEF Shape
<1>4. q \in Seq(Nat) /\ Len(q) = Len(queue[user]) + 1 /\ Consecutive(q, Base(user))
  <2> DEFINE b == made'[user]
  <2>1. b = Base(user) + Len(queue[user]) + 1
    BY <1>3
  <2> HIDE DEF b
  <2>2. /\ Append(queue[user], b) \in Seq(Nat)
        /\ Len(Append(queue[user], b)) = Len(queue[user]) + 1
        /\ Consecutive(Append(queue[user], b), Base(user))
    BY <2>1, <1>1, <1>s, AppendRun DEF Shape
  <2> QED BY <2>2 DEF b
<1>5. q \in Seq(WriteId)
  BY <1>1, <1>4, <1>s, RunIsWrites DEF Shape
<1>6. /\ queue' \in [Users -> Seq(WriteId)]
      /\ \A u \in Users : queue'[u] = IF u = user THEN q ELSE queue[u]
  BY <1>1, <1>5
<1>7. \A u \in Users : Base(u)' = Base(u)
  BY <1>2, <1>4, <1>6, <1>s DEF Shape, Base
<1>8. Numbered'
  <2> SUFFICES ASSUME NEW u \in Users
               PROVE  Len(queue'[u]) <= made'[u] /\ Consecutive(queue'[u], Base(u)')
    BY DEF Numbered, Consecutive
  <2> HIDE DEF q
  <2>1. Consecutive(queue'[u], Base(u)')
    BY <1>4, <1>6, <1>7, <1>s DEF Shape
  <2>2. Len(queue'[u]) <= made'[u]
    BY <1>2, <1>4, <1>6, <1>s DEF Shape
  <2> QED BY <2>1, <2>2
<1>9. \A u \in Users : made'[u] >= made[u]
  BY <1>1, <1>2
<1> QED BY <1>1, <1>2, <1>4, <1>6, <1>7, <1>8, <1>9

\* Known does not depend on the pipeline, and survives new writes.
LEMMA KnownKept ==
  ASSUME Inv, UNCHANGED serverVars,
         \A u \in Users : Base(u)' = Base(u) /\ made'[u] \in Nat /\ made'[u] >= made[u]
  PROVE  Known'
<1> SUFFICES ASSUME NEW u \in Users, NEW b \in applied[u] \ refused[u]
             PROVE  b <= made'[u] /\ (b <= Base(u)' => b <= last[u])
  BY DEF Known, serverVars
<1>1. b \in Nat /\ made[u] \in Nat
  BY DEF Inv, TypeOK, WriteId
<1>2. b <= made[u] /\ (b <= Base(u) => b <= last[u])
  BY DEF Inv, Known
<1> QED BY <1>1, <1>2

\* c answers and the requests s are for n writes together.
Covers(c, s, n) == c + Len(s) = n

\* Between the handshake and the end of a stream, more writes may be added to what is
\* under way.
LEMMA MoreOnTheWire ==
  ASSUME NEW a \in Nat, NEW more \in Seq(Nat), NEW sent \in Seq(Nat), NEW c \in Nat, NEW n \in Nat,
         Consecutive(sent, a + c), Covers(c, sent, n), Consecutive(more, a + n)
  PROVE  /\ sent \o more \in Seq(Nat) /\ Consecutive(sent \o more, a + c)
         /\ Covers(c, sent \o more, n + Len(more))
<1>1. Len(sent) \in Nat /\ Len(more) \in Nat /\ a + n = (a + c) + Len(sent)
  BY DEF Covers
<1>2. Consecutive(more, (a + c) + Len(sent))
  BY <1>1
<1>3. /\ sent \o more \in Seq(Nat) /\ Consecutive(sent \o more, a + c)
      /\ Len(sent \o more) = Len(sent) + Len(more)
  BY <1>2, ConcatRun
<1> QED BY <1>1, <1>3 DEF Covers

-----------------------------------------------------------------------------
(***************************************************************************)
(* The actions, one by one.                                                *)
(***************************************************************************)

\* A new write goes to the end of the queue and, if there is room, of the pipeline.
LEMMA WriteKeeps ==
  ASSUME Inv, Write
  PROVE  Inv'
<1>s. Shape
  BY Facts
<1>i. TypeOK /\ Front /\ Needed /\ Wire /\ Answered
  BY DEF Inv
<1> DEFINE more == NextBatches(queue'[user], pipeline)
<1>1. /\ made' = [made EXCEPT ![user] = @ + 1]
      /\ queue' = [queue EXCEPT ![user] = Append(@, made'[user])]
      /\ IF stream = "Open" THEN FillOpen(pipeline, more) ELSE FillClosed(pipeline, more, stream)
      /\ user' = user /\ toClient' = toClient
      /\ applied' = applied /\ last' = last /\ refused' = refused
  BY DEF Write, serverVars
<1>2. /\ queue' \in [Users -> Seq(WriteId)] /\ made' \in [Users -> Nat] /\ Numbered'
      /\ \A u \in Users : Base(u)' = Base(u) /\ made'[u] >= made[u]
      /\ queue'[user] \in Seq(Nat) /\ Consecutive(queue'[user], Base(user))
      /\ Len(queue'[user]) = Len(queue[user]) + 1
  BY <1>1, WriteQueue
<1>b. Base(user) \in Nat /\ Len(queue[user]) \in Nat /\ Len(pipeline) \in Nat
      /\ Len(pipeline) <= Len(queue'[user]) /\ Len(pipeline) <= MaxPending
      /\ pipeline \in Seq(Nat) /\ Consecutive(pipeline, Base(user)) /\ user \in Users
      /\ toServer \in Seq(Nat) /\ Len(toClient) \in Nat
  BY <1>s, <1>2 DEF Shape
<1>3. /\ more \in Seq(Nat) /\ Consecutive(more, Base(user) + Len(pipeline))
      /\ pipeline \o more \in Seq(WriteId) /\ Consecutive(pipeline \o more, Base(user))
      /\ Full(pipeline \o more, queue'[user]) /\ Len(pipeline \o more) <= MaxPending
  BY <1>b, <1>2, Filled, Zenon
<1> HIDE DEF more
<1>l. Len(more) \in Nat /\ Len(pipeline \o more) = Len(pipeline) + Len(more)
  BY <1>3, <1>b, ConcatProperties
<1>4. pipeline' = pipeline \o more
  BY <1>1 DEF FillOpen, FillClosed
<1>5. pipeline \o more # <<>>
  BY <1>2, <1>3, <1>b, PipelineAssumption DEF Least, Full
<1>6. Front'
  BY <1>2, <1>3, <1>4, <1>1, <1>b DEF Front, Consecutive, Full
<1>7. Known'
  BY <1>1, <1>2, KnownKept DEF serverVars
<1>8. CASE stream = "Open"
  <2>1. /\ toServer' = IF shaken THEN toServer \o more ELSE toServer
        /\ idle' = (idle /\ ~(shaken /\ more # <<>>))
        /\ stream' = stream /\ shaken' = shaken
    BY <1>1, <1>5, <1>8 DEF FillOpen
  <2>2. toServer' \in Seq(Nat) /\ idle' \in BOOLEAN
    BY <2>1, <1>3, <1>b, <1>i, ConcatProperties DEF TypeOK
  <2>3. TypeOK'
    BY <1>1, <1>2, <1>3, <1>4, <2>1, <2>2, <1>i DEF TypeOK
  <2>4. ~idle'
    <3>1. idle => pipeline = <<>> /\ shaken
      BY <1>i DEF Needed, Wire
    <3>2. pipeline = <<>> => more # <<>>
      BY <1>5
    <3> QED BY <2>1, <3>1, <3>2
  <2>5. Needed'
    BY <2>1, <2>4, <1>8 DEF Needed, Started
  <2>6. Wire'
    <3>1. CASE ~shaken
      BY <3>1, <2>1, <2>4, <1>1, <1>i, <1>8 DEF Wire
    <3>2. CASE shaken
      <4>1. Len(toClient) <= Len(pipeline') /\ Len(more) \in Nat
        BY <3>2, <1>l, <1>4, <1>b, <1>i DEF Wire
      <4>2. \A i \in 1..Len(toClient) : toClient[i].to = Base(user)' + i
        <5>1. Base(user)' = Base(user)'
          OBVIOUS
        <5>2. \A i \in 1..Len(toClient) : toClient[i].to = Base(user) + i
          BY <3>2, <1>i DEF Wire
        <5> QED BY <5>2, <1>2, <1>b, <1>1
      <4>3. ASSUME ~Ended
            PROVE  /\ Consecutive(toServer', Base(user) + Len(toClient))
                   /\ Len(toClient) + Len(toServer') = Len(pipeline')
        <5>1. /\ Consecutive(toServer, Base(user) + Len(toClient))
              /\ Len(toClient) + Len(toServer) = Len(pipeline)
          BY <3>2, <4>3, <1>i DEF Wire
        <5>2. Covers(Len(toClient), toServer, Len(pipeline))
          BY <5>1 DEF Covers
        <5>3. /\ Consecutive(toServer \o more, Base(user) + Len(toClient))
              /\ Covers(Len(toClient), toServer \o more, Len(pipeline) + Len(more))
          BY <5>1, <5>2, <1>3, <1>b, MoreOnTheWire, Zenon
        <5> QED BY <5>3, <2>1, <3>2, <1>l, <1>4 DEF Covers
      <4>4. Ended' <=> Ended
        BY <1>1 DEF Ended
      <4> QED BY <4>1, <4>2, <4>3, <4>4, <3>2, <2>1, <1>1, <1>2, <1>b, <1>8 DEF Wire, Consecutive
    <3> QED BY <3>1, <3>2
  <2>7. Answered'
    BY <1>1, <1>i DEF Answered
  <2> QED BY <2>3, <2>5, <2>6, <2>7, <1>2, <1>6, <1>7 DEF Inv
<1>9. CASE stream # "Open"
  <2>1. /\ stream' \in {"Starting", "Backoff"}
        /\ shaken' = shaken /\ idle' = idle /\ toServer' = toServer
    BY <1>1, <1>5, <1>9, <1>i DEF FillClosed, TypeOK
  <2>2. toServer' = <<>> /\ toClient' = <<>> /\ shaken' = FALSE /\ idle' = FALSE
    BY <2>1, <1>1, <1>9, <1>i DEF Wire, TypeOK
  <2>3. TypeOK'
    BY <1>1, <1>2, <1>3, <1>4, <2>1, <1>i DEF TypeOK
  <2>4. Needed'
    BY <2>1, <2>2 DEF Needed, Started
  <2> QED BY <2>2, <2>3, <2>4, Quiet, <1>2, <1>6, <1>7 DEF Inv
<1> QED BY <1>8, <1>9

\* A stream that ends while the queue stays, for a user whose pipeline is filled anew or
\* not.
LEMMA EndKeeps ==
  ASSUME Inv, Abandon, made' = made, queue' = queue,
         user' \in Users, pipeline' \in Seq(WriteId), Len(pipeline') <= MaxPending,
         stream' \in {"Initial", "Starting", "Error", "Backoff"},
         Front', pipeline' # <<>> => stream' \in {"Starting", "Backoff"}
  PROVE  Inv'
<1>1. /\ toServer' = <<>> /\ toClient' = <<>> /\ shaken' = FALSE /\ idle' = FALSE
      /\ refused' = refused
      /\ applied' \in [Users -> SUBSET WriteId] /\ last' \in [Users -> Nat]
      /\ \A u \in Users : \A b \in applied'[u] \ refused[u] :
           b <= made[u] /\ (b <= Base(u) => b <= last'[u])
  BY AbandonKeeps
<1>2. Known'
  BY <1>1 DEF Known, Base
<1>3. TypeOK'
  <2>1. TypeOK
    BY DEF Inv
  <2>2. /\ toServer' \in Seq(Nat) /\ toClient' \in Seq(Answer)
        /\ stream' \in {"Initial", "Starting", "Open", "Error", "Backoff"}
    BY <1>1
  <2> QED BY <1>1, <2>1, <2>2 DEF TypeOK
<1>4. Numbered'
  BY DEF Inv, Numbered, Base
<1>5. Needed'
  BY <1>1 DEF Needed, Started
<1> QED BY <1>1, <1>2, <1>3, <1>4, <1>5, Quiet DEF Inv

\* A break or the idle timer: the pipeline stays.
LEMMA BreakKeeps ==
  ASSUME Inv, Break \/ IdleTimeout
  PROVE  Inv'
<1>1. /\ Abandon /\ made' = made /\ queue' = queue /\ user' = user /\ pipeline' = pipeline
      /\ stream' \in {"Initial", "Error", "Backoff"}
  BY DEF Break, IdleTimeout
<1>2. /\ user' \in Users /\ pipeline' \in Seq(WriteId) /\ Len(pipeline') <= MaxPending
      /\ Front'
  BY <1>1 DEF Inv, TypeOK, Front, Base
<1>3. pipeline' # <<>> => stream' \in {"Starting", "Backoff"}
  BY <1>1 DEF Break, IdleTimeout, Inv, Needed
<1> QED BY <1>1, <1>2, <1>3, EndKeeps

\* A restart, for any user.
LEMMA RestartKeeps ==
  ASSUME Inv, NEW u \in Users, RestartNetwork(u)
  PROVE  Inv'
<1>s. Shape
  BY Facts
<1> DEFINE more == NextBatches(queue[u], <<>>)
<1>1. /\ Abandon /\ made' = made /\ queue' = queue /\ user' = u /\ pipeline' = more
      /\ stream' = IF more = <<>> THEN "Initial" ELSE "Starting"
  BY DEF RestartNetwork, Restart
<1>2. <<>> \in Seq(Nat) /\ Len(<<>>) = 0 /\ Consecutive(<<>>, Base(u))
  BY DEF Consecutive
<1>3. /\ Base(u) \in Nat /\ queue[u] \in Seq(Nat) /\ Consecutive(queue[u], Base(u))
      /\ 0 <= Len(queue[u]) /\ 0 <= MaxPending
  BY <1>s, PipelineAssumption DEF Shape
<1>4. /\ more \in Seq(Nat) /\ <<>> \o more \in Seq(WriteId) /\ Consecutive(<<>> \o more, Base(u))
      /\ Full(<<>> \o more, queue[u]) /\ Len(<<>> \o more) <= MaxPending
  BY <1>2, <1>3, Filled, Zenon
<1> HIDE DEF more
<1>5. <<>> \o more = more
  BY <1>4, ConcatEmptySeq, Zenon
<1>6. Front' /\ pipeline' \in Seq(WriteId) /\ Len(pipeline') <= MaxPending
  BY <1>1, <1>4, <1>5 DEF Front, Base
<1> QED BY <1>1, <1>6, EndKeeps

\* What an answer on the stream tells when the handshake is over: there is a pipeline,
\* and its oldest write is the one that was answered.
LEMMA Oldest ==
  ASSUME Inv, toClient # <<>>, shaken
  PROVE  /\ Len(toClient) \in Nat \ {0} /\ stream = "Open" /\ pipeline # <<>>
         /\ Head(toClient) = toClient[1] /\ Head(toClient) \in Answer
         /\ Head(toClient).to = Base(user) + 1
         /\ Head(toClient).kind = "ok" =>
              Base(user) + 1 \in applied[user] /\ Base(user) + 1 <= last[user]
         /\ Head(toClient).kind = "refused" => Base(user) + 1 \in refused[user]
<1>s. Shape
  BY Facts
<1>1. Len(toClient) \in Nat \ {0} /\ Head(toClient) = toClient[1]
  BY <1>s, EmptySeq DEF Shape
<1>2. stream = "Open" /\ Len(toClient) <= Len(pipeline) /\ toClient[1].to = Base(user) + 1
  BY <1>1 DEF Inv, Wire
<1>3. pipeline # <<>>
  BY <1>1, <1>2, <1>s DEF Shape
<1>4. Base(user) \in Nat /\ toClient[1] \in Answer
  BY <1>1, <1>s DEF Shape
<1>5. Answered
  BY DEF Inv
<1>6. toClient[1].to # Handshake
  BY <1>2, <1>4 DEF Handshake
<1>7. IF toClient[1].kind = "ok"
      THEN toClient[1].to \in applied[user] /\ toClient[1].to <= last[user]
      ELSE toClient[1].to \in refused[user]
  BY <1>1, <1>5, <1>6 DEF Answered
<1> QED BY <1>1, <1>2, <1>3, <1>4, <1>7

\* The oldest write leaves queue and pipeline, and others move up.
LEMMA MovedUp ==
  ASSUME Inv, pipeline # <<>>, made' = made, user' = user,
         queue' = [queue EXCEPT ![user] = Tail(@)],
         pipeline' = Tail(pipeline) \o NextBatches(queue'[user], Tail(pipeline))
  PROVE  LET more == NextBatches(queue'[user], Tail(pipeline)) IN
         /\ more \in Seq(Nat) /\ Consecutive(more, Base(user) + 1 + Len(Tail(pipeline)))
         /\ pipeline' \in Seq(WriteId) /\ Len(pipeline') <= MaxPending
         /\ Len(pipeline') = Len(Tail(pipeline)) + Len(more)
         /\ Len(Tail(pipeline)) = Len(pipeline) - 1
         /\ queue' \in [Users -> Seq(WriteId)] /\ Numbered' /\ Front'
         /\ \A u \in Users : Base(u)' = IF u = user THEN Base(u) + 1 ELSE Base(u)
         /\ Base(user)' = Base(user) + 1
<1>s. Shape
  BY Facts
<1> DEFINE more == NextBatches(queue'[user], Tail(pipeline))
<1>1. /\ queue' \in [Users -> Seq(WriteId)] /\ Numbered'
      /\ \A u \in Users : Base(u)' = IF u = user THEN Base(u) + 1 ELSE Base(u)
      /\ queue'[user] \in Seq(Nat) /\ Consecutive(queue'[user], Base(user) + 1)
      /\ Len(queue'[user]) = Len(queue[user]) - 1
      /\ Len(queue[user]) \in Nat \ {0}
      /\ Tail(pipeline) \in Seq(Nat) /\ Len(Tail(pipeline)) = Len(pipeline) - 1
      /\ Consecutive(Tail(pipeline), Base(user) + 1)
      /\ Len(pipeline) \in Nat \ {0}
  BY SettleQueue
<1>2. /\ Base(user) + 1 \in Nat /\ Len(Tail(pipeline)) <= Len(queue'[user])
      /\ Len(Tail(pipeline)) <= MaxPending
  BY <1>1, <1>s, PipelineAssumption DEF Shape
<1>3. /\ more \in Seq(Nat) /\ Consecutive(more, Base(user) + 1 + Len(Tail(pipeline)))
      /\ Tail(pipeline) \o more \in Seq(WriteId)
      /\ Consecutive(Tail(pipeline) \o more, Base(user) + 1)
      /\ Full(Tail(pipeline) \o more, queue'[user])
      /\ Len(Tail(pipeline) \o more) <= MaxPending
  BY <1>1, <1>2, Filled, Zenon
<1> HIDE DEF more
<1>4. pipeline' = Tail(pipeline) \o more
  BY DEF more
<1>5. Len(pipeline') = Len(Tail(pipeline)) + Len(more)
  <2>1. Tail(pipeline) \in Seq(Nat) /\ more \in Seq(Nat)
    BY <1>1, <1>3
  <2>2. Len(Tail(pipeline) \o more) = Len(Tail(pipeline)) + Len(more)
    BY <2>1, ConcatProperties, Zenon
  <2> QED BY <1>4, <2>2
<1>6. Base(user)' = Base(user) + 1
  <2>1. user \in Users
    BY <1>s DEF Shape
  <2> QED BY <1>1, <2>1 DEF Base
<1>7. Front'
  BY <1>3, <1>4, <1>6 DEF Front, Full, Consecutive
<1> QED BY <1>1, <1>3, <1>4, <1>5, <1>6, <1>7 DEF more

\* The oldest write is acknowledged.
LEMMA MutationResultKeeps ==
  ASSUME Inv, MutationResult
  PROVE  Inv'
<1>s. Shape
  BY Facts
<1>i. TypeOK /\ Needed /\ Wire /\ Answered /\ Known
  BY DEF Inv
<1> DEFINE more == NextBatches(queue'[user], Tail(pipeline))
<1>1. /\ toClient # <<>> /\ shaken /\ Head(toClient).kind = "ok"
      /\ toClient' = Tail(toClient)
      /\ queue' = [queue EXCEPT ![user] = Tail(@)]
      /\ pipeline' = Tail(pipeline) \o more
      /\ toServer' = toServer \o more
      /\ idle' = (Tail(pipeline) \o more = <<>> \/ (idle /\ ~(shaken /\ more # <<>>)))
      /\ stream' = stream /\ shaken' = shaken
      /\ made' = made /\ user' = user
      /\ applied' = applied /\ last' = last /\ refused' = refused
  BY DEF MutationResult, FillOpen, serverVars
<1>2. /\ Len(toClient) \in Nat \ {0} /\ stream = "Open" /\ pipeline # <<>>
      /\ Base(user) + 1 <= last[user]
  BY <1>1, Oldest
<1>3. /\ more \in Seq(Nat) /\ Consecutive(more, Base(user) + 1 + Len(Tail(pipeline)))
      /\ pipeline' \in Seq(WriteId) /\ Len(pipeline') <= MaxPending
      /\ Len(pipeline') = Len(Tail(pipeline)) + Len(more)
      /\ Len(Tail(pipeline)) = Len(pipeline) - 1
      /\ queue' \in [Users -> Seq(WriteId)] /\ Numbered' /\ Front'
      /\ \A u \in Users : Base(u)' = IF u = user THEN Base(u) + 1 ELSE Base(u)
      /\ Base(user)' = Base(user) + 1
  BY <1>1, <1>2, MovedUp
<1> HIDE DEF more
<1>b. /\ Base(user) \in Nat /\ Len(pipeline) \in Nat /\ Len(more) \in Nat /\ toServer \in Seq(Nat)
      /\ user \in Users /\ Len(toServer) \in Nat
  BY <1>s, <1>3 DEF Shape
<1>4. /\ toClient' \in Seq(Answer) /\ Len(toClient') = Len(toClient) - 1
      /\ \A i \in 1..Len(toClient') : toClient'[i] = toClient[i + 1]
  BY <1>1, <1>s, HeadTailProperties, Zenon DEF Shape
<1>5. toServer' \in Seq(Nat)
  BY <1>1, <1>3, <1>b, ConcatProperties
<1>6. idle' = (pipeline' = <<>>)
  <2>1. ~idle
    BY <1>2, <1>i DEF Needed
  <2> QED BY <2>1, <1>1
<1>7. TypeOK'
  BY <1>1, <1>3, <1>4, <1>5, <1>6, <1>i DEF TypeOK
<1>8. Needed'
  BY <1>1, <1>2, <1>6 DEF Needed, Started
<1>9. Wire'
  <2>1. Len(toClient') <= Len(pipeline')
    <3>1. Len(toClient) <= Len(pipeline)
      BY <1>1, <1>i DEF Wire
    <3>2. /\ Len(toClient') = Len(toClient) - 1
          /\ Len(pipeline') = (Len(pipeline) - 1) + Len(more)
      BY <1>3, <1>4
    <3> QED BY <3>1, <3>2, <1>2, <1>b
  <2>2. \A i \in 1..Len(toClient') : toClient'[i].to = Base(user)' + i
    <3> SUFFICES ASSUME NEW i \in 1..Len(toClient')
                 PROVE  toClient'[i].to = Base(user) + 1 + i
      BY <1>3, <1>b
    <3>1. i + 1 \in 1..Len(toClient) /\ toClient'[i] = toClient[i + 1]
      BY <1>2, <1>4
    <3>2. toClient[i + 1].to = Base(user) + (i + 1)
      BY <3>1, <1>1, <1>i DEF Wire
    <3> QED BY <3>1, <3>2, <1>b
  <2>3. Ended => Ended'
    <3> SUFFICES ASSUME NEW i \in 1..Len(toClient), toClient[i].kind = "refused" PROVE Ended'
      BY <1>s DEF Ended, Shape
    <3>1. i # 1
      BY <1>1, Oldest
    <3>2. i - 1 \in 1..Len(toClient') /\ toClient'[i - 1] = toClient[(i - 1) + 1]
      BY <3>1, <1>2, <1>4
    <3>3. toClient'[i - 1].kind = "refused"
      BY <3>2, <1>2
    <3>4. DOMAIN toClient' = 1..Len(toClient')
      BY <1>4, LenProperties, Zenon
    <3> QED BY <3>2, <3>3, <3>4 DEF Ended
  <2>4. ASSUME ~Ended'
        PROVE  /\ Consecutive(toServer', Base(user)' + Len(toClient'))
               /\ Len(toClient') + Len(toServer') = Len(pipeline')
    <3>1. /\ Consecutive(toServer, Base(user) + Len(toClient))
          /\ Len(toClient) + Len(toServer) = Len(pipeline)
      BY <2>3, <2>4, <1>1, <1>i DEF Wire
    <3>2. /\ Covers(Len(toClient'), toServer, Len(Tail(pipeline)))
          /\ Base(user) + Len(toClient) = (Base(user) + 1) + Len(toClient')
          /\ Base(user) + 1 \in Nat /\ Len(toClient') \in Nat /\ Len(Tail(pipeline)) \in Nat
      <4>1. Len(toClient') = Len(toClient) - 1 /\ Len(Tail(pipeline)) = Len(pipeline) - 1
        BY <1>3, <1>4
      <4>2. Len(toClient) + Len(toServer) = Len(pipeline)
        BY <3>1
      <4> QED BY <4>1, <4>2, <1>2, <1>b DEF Covers
    <3>3. Consecutive(toServer, (Base(user) + 1) + Len(toClient'))
      BY <3>1, <3>2
    <3>4. /\ Consecutive(toServer \o more, (Base(user) + 1) + Len(toClient'))
          /\ Covers(Len(toClient'), toServer \o more, Len(Tail(pipeline)) + Len(more))
      BY <3>2, <3>3, <1>3, <1>b, MoreOnTheWire, Zenon
    <3> QED BY <3>4, <1>1, <1>3 DEF Covers
  <2> QED BY <2>1, <2>2, <2>4, <1>1, <1>2 DEF Wire, Consecutive
<1>10. Answered'
  <2> SUFFICES ASSUME NEW i \in 1..Len(toClient')
               PROVE  /\ toClient'[i].kind = "refused" => i = Len(toClient')
                      /\ toClient'[i].to # Handshake =>
                           IF toClient'[i].kind = "ok"
                           THEN toClient'[i].to \in applied[user] /\ toClient'[i].to <= last[user]
                           ELSE toClient'[i].to \in refused[user]
    BY <1>1 DEF Answered
  <2>1. i + 1 \in 1..Len(toClient) /\ toClient'[i] = toClient[i + 1]
    BY <1>2, <1>4
  <2>2. toClient[i + 1].kind = "refused" => i + 1 = Len(toClient)
    BY <2>1, <1>i DEF Answered
  <2>3. i + 1 = Len(toClient) => i = Len(toClient')
    BY <2>1, <1>2, <1>4
  <2> QED BY <2>1, <2>2, <2>3, <1>i DEF Answered
<1>11. Known'
  <2> SUFFICES ASSUME NEW u \in Users, NEW b \in applied[u] \ refused[u]
               PROVE  b <= made[u] /\ (b <= Base(u)' => b <= last[u])
    BY <1>1 DEF Known
  <2>1. b \in Nat /\ last[u] \in Nat /\ Base(u) \in Nat
    BY <1>i, <1>s DEF TypeOK, WriteId, Shape
  <2>2. b <= made[u] /\ (b <= Base(u) => b <= last[u])
    BY <1>i DEF Known
  <2>3. CASE u = user
    BY <2>1, <2>2, <2>3, <1>2, <1>3
  <2>4. CASE u # user
    BY <2>2, <2>4, <1>3
  <2> QED BY <2>3, <2>4
<1> QED BY <1>3, <1>7, <1>8, <1>9, <1>10, <1>11 DEF Inv

\* A write is refused and dropped, or the handshake is refused.
LEMMA CloseRefusedKeeps ==
  ASSUME Inv, CloseRefused
  PROVE  Inv'
<1>s. Shape
  BY Facts
<1>i. TypeOK /\ Known
  BY DEF Inv
<1>1. /\ toClient # <<>> /\ Head(toClient).kind = "refused"
      /\ Abandon /\ made' = made /\ user' = user
  BY DEF CloseRefused
<1>2. CASE ~shaken
  <2>1. stream' = "Backoff" /\ queue' = queue /\ pipeline' = pipeline
    BY <1>2 DEF CloseRefused
  <2>2. /\ user' \in Users /\ pipeline' \in Seq(WriteId) /\ Len(pipeline') <= MaxPending
        /\ Front'
    BY <1>1, <2>1 DEF Inv, TypeOK, Front, Base
  <2> QED BY <1>1, <2>1, <2>2, EndKeeps
<1>3. CASE shaken
  <2> DEFINE more == NextBatches(queue'[user], Tail(pipeline))
  <2>1. /\ queue' = [queue EXCEPT ![user] = Tail(@)]
        /\ pipeline' = Tail(pipeline) \o more
        /\ stream' = IF pipeline' = <<>> THEN "Initial" ELSE "Starting"
    BY <1>3 DEF CloseRefused
  <2>2. pipeline # <<>> /\ Base(user) + 1 \in refused[user]
    BY <1>1, <1>3, Oldest
  <2>3. /\ pipeline' \in Seq(WriteId) /\ Len(pipeline') <= MaxPending
        /\ queue' \in [Users -> Seq(WriteId)] /\ Numbered' /\ Front'
        /\ \A u \in Users : Base(u)' = IF u = user THEN Base(u) + 1 ELSE Base(u)
    BY <1>1, <2>1, <2>2, MovedUp
  <2> HIDE DEF more
  <2>4. /\ toServer' = <<>> /\ toClient' = <<>> /\ shaken' = FALSE /\ idle' = FALSE
        /\ refused' = refused
        /\ applied' \in [Users -> SUBSET WriteId] /\ last' \in [Users -> Nat]
        /\ \A u \in Users : \A b \in applied'[u] \ refused[u] :
             b <= made[u] /\ (b <= Base(u) => b <= last'[u])
    BY <1>1, AbandonKeeps
  <2>5. TypeOK'
    <3>1. /\ toServer' \in Seq(Nat) /\ toClient' \in Seq(Answer)
          /\ stream' \in {"Initial", "Starting", "Open", "Error", "Backoff"}
      BY <2>1, <2>4
    <3> QED BY <1>1, <1>i, <2>3, <2>4, <3>1 DEF TypeOK
  <2>6. Needed'
    BY <2>1, <2>4 DEF Needed, Started
  <2>7. Known'
    <3> SUFFICES ASSUME NEW u \in Users, NEW b \in applied'[u] \ refused[u]
                 PROVE  b <= made[u] /\ (b <= Base(u)' => b <= last'[u])
      BY <1>1, <2>4 DEF Known
    <3>1. b \in Nat /\ Base(u) \in Nat
      BY <2>4, <1>s DEF WriteId, Shape
    <3>2. CASE u = user
      <4>1. b # Base(u) + 1
        BY <2>2, <3>2
      <4> QED BY <2>3, <2>4, <3>1, <3>2, <4>1
    <3>3. CASE u # user
      BY <2>3, <2>4, <3>3
    <3> QED BY <3>2, <3>3
  <2> QED BY <2>3, <2>4, <2>5, <2>6, <2>7, Quiet DEF Inv
<1> QED BY <1>2, <1>3

\* The stream opens and the handshake is sent.
LEMMA OpenStreamKeeps ==
  ASSUME Inv, OpenStream
  PROVE  Inv'
<1>s. Shape
  BY Facts
<1>i. TypeOK /\ Numbered /\ Front /\ Needed /\ Wire /\ Answered /\ Known
  BY DEF Inv
<1>1. /\ stream = "Starting" /\ stream' = "Open" /\ toServer' = Append(toServer, Handshake)
      /\ idle' = FALSE /\ shaken' = shaken /\ toClient' = toClient
      /\ made' = made /\ queue' = queue /\ user' = user /\ pipeline' = pipeline
      /\ applied' = applied /\ last' = last /\ refused' = refused
  BY DEF OpenStream, serverVars
<1>2. toServer = <<>> /\ toClient = <<>> /\ ~shaken
  BY <1>1, <1>i DEF Wire
<1>3. toServer' = <<Handshake>>
  BY <1>1, <1>2
<1>4. Wire'
  BY <1>1, <1>2, <1>3 DEF Wire
<1>5. TypeOK'
  <2>1. toServer' \in Seq(Nat)
    BY <1>3 DEF Handshake
  <2> QED BY <1>1, <1>i, <2>1 DEF TypeOK
<1>6. Numbered' /\ Front' /\ Known' /\ Answered'
  BY <1>1, <1>i DEF Numbered, Front, Known, Answered, Base
<1>7. Needed'
  BY <1>1 DEF Needed, Started
<1> QED BY <1>4, <1>5, <1>6, <1>7 DEF Inv

\* The handshake is over and the pipeline is sent.
LEMMA HandshakeKeeps ==
  ASSUME Inv, HandshakeComplete
  PROVE  Inv'
<1>s. Shape
  BY Facts
<1>i. TypeOK /\ Numbered /\ Front /\ Needed /\ Wire /\ Answered /\ Known
  BY DEF Inv
<1>1. /\ toClient # <<>> /\ ~shaken /\ toClient' = Tail(toClient) /\ shaken' = TRUE
      /\ toServer' = toServer \o pipeline /\ idle' = (idle /\ pipeline = <<>>)
      /\ made' = made /\ queue' = queue /\ user' = user /\ pipeline' = pipeline
      /\ stream' = stream /\ applied' = applied /\ last' = last /\ refused' = refused
  BY DEF HandshakeComplete, serverVars
<1>2. Len(toClient) \in Nat \ {0}
  BY <1>1, <1>s, EmptySeq DEF Shape
<1>3. /\ Len(toServer) + Len(toClient) <= 1 /\ ~idle /\ stream = "Open"
  BY <1>1, <1>i DEF Wire
<1>4. Len(toServer) = 0 /\ Len(toClient) = 1
  BY <1>2, <1>3, <1>s DEF Shape
<1>5. toServer = <<>>
  BY <1>4, <1>s, EmptySeq DEF Shape
<1>6. toClient' \in Seq(Answer) /\ Len(toClient') = 0
  BY <1>1, <1>4, <1>s, HeadTailProperties DEF Shape
<1>7. toServer' = pipeline
  BY <1>1, <1>5, <1>s, ConcatEmptySeq, Zenon DEF Shape
<1>8. Wire'
  <2>1. Len(toServer') = Len(pipeline) /\ Len(pipeline) \in Nat /\ Base(user) \in Nat
    BY <1>7, <1>s DEF Shape
  <2>2. Consecutive(toServer', Base(user)' + Len(toClient'))
    <3>1. Consecutive(pipeline, Base(user)) /\ Base(user) = Base(user) + 0
      BY <2>1, <1>i DEF Front
    <3> QED BY <3>1, <1>1, <1>6, <1>7 DEF Consecutive, Base
  <2> QED BY <1>1, <1>3, <1>6, <2>1, <2>2 DEF Wire
<1>9. TypeOK'
  <2>1. toServer' \in Seq(Nat) /\ idle' \in BOOLEAN
    BY <1>1, <1>7, <1>s DEF Shape
  <2> QED BY <1>1, <1>i, <1>6, <2>1 DEF TypeOK
<1>10. Numbered' /\ Front' /\ Known'
  BY <1>1, <1>i DEF Numbered, Front, Known, Base
<1>11. Answered'
  BY <1>6 DEF Answered
<1>12. Needed'
  BY <1>1, <1>3 DEF Needed, Started
<1> QED BY <1>8, <1>9, <1>10, <1>11, <1>12 DEF Inv

\* The request the server takes next: the handshake, or the first write of the pipeline
\* that was not answered.
LEMMA NextRequest ==
  ASSUME Inv, toServer # <<>>, ~Ended
  PROVE  /\ Len(toServer) \in Nat \ {0} /\ Head(toServer) = toServer[1] /\ stream = "Open"
         /\ ~shaken => /\ Head(toServer) = Handshake
                       /\ Len(toServer) = 1 /\ Len(toClient) = 0
         /\ shaken => /\ Head(toServer) = Base(user) + Len(toClient) + 1
                      /\ Len(toClient) + Len(toServer) = Len(pipeline)
                      /\ Consecutive(toServer, Base(user) + Len(toClient))
         /\ \A i \in 1..Len(toClient) : toClient[i].kind = "ok"
<1>s. Shape
  BY Facts
<1>i. Wire
  BY DEF Inv
<1>1. Len(toServer) \in Nat \ {0} /\ Head(toServer) = toServer[1]
  BY <1>s, EmptySeq DEF Shape
<1>2. stream = "Open"
  BY <1>i DEF Wire
<1>3. CASE ~shaken
  <2>1. Len(toServer) + Len(toClient) <= 1 /\ toServer[1] = Handshake
    BY <1>1, <1>3, <1>i DEF Wire
  <2> QED BY <1>1, <1>2, <1>3, <2>1, <1>s DEF Shape, Ended, Answer
<1>4. CASE shaken
  <2>1. /\ Len(toClient) + Len(toServer) = Len(pipeline)
        /\ Consecutive(toServer, Base(user) + Len(toClient))
    BY <1>4, <1>i DEF Wire
  <2>2. toServer[1] = Base(user) + Len(toClient) + 1
    BY <1>1, <2>1 DEF Consecutive
  <2> QED BY <1>1, <1>2, <1>4, <2>1, <2>2, <1>s DEF Shape, Ended, Answer
<1> QED BY <1>3, <1>4

\* An answer is added behind the others.
LEMMA AnswerAdded ==
  ASSUME Inv, NEW a \in Answer, toClient' = Append(toClient, a)
  PROVE  /\ toClient' \in Seq(Answer) /\ Len(toClient') = Len(toClient) + 1
         /\ \A i \in 1..Len(toClient) : toClient'[i] = toClient[i]
         /\ toClient'[Len(toClient) + 1] = a
         /\ DOMAIN toClient' = 1..Len(toClient')
<1>1. toClient \in Seq(Answer)
  BY DEF Inv, TypeOK
<1>2. /\ toClient' \in Seq(Answer) /\ Len(toClient') = Len(toClient) + 1
      /\ \A i \in 1..Len(toClient) : toClient'[i] = toClient[i]
      /\ toClient'[Len(toClient) + 1] = a
  BY <1>1, AppendProperties, Zenon
<1> QED BY <1>2, LenProperties, Zenon

\* The server applies a write or accepts the handshake.
LEMMA AcceptKeeps ==
  ASSUME Inv, Accept
  PROVE  Inv'
<1>s. Shape
  BY Facts
<1>i. TypeOK /\ Numbered /\ Front /\ Needed /\ Wire /\ Answered /\ Known
  BY DEF Inv
<1> DEFINE x == Head(toServer)
           a == [kind |-> "ok", to |-> x]
<1>1. /\ toServer # <<>> /\ ~Ended
      /\ toServer' = Tail(toServer) /\ toClient' = Append(toClient, a)
      /\ IF x = Handshake THEN applied' = applied /\ last' = last
         ELSE /\ applied' = [applied EXCEPT ![user] = @ \cup {x}]
              /\ last' = [last EXCEPT ![user] = x]
      /\ made' = made /\ queue' = queue /\ user' = user /\ pipeline' = pipeline
      /\ stream' = stream /\ shaken' = shaken /\ idle' = idle /\ refused' = refused
  BY DEF Accept
<1>2. /\ Len(toServer) \in Nat \ {0} /\ x = toServer[1] /\ stream = "Open"
      /\ ~shaken => x = Handshake /\ Len(toServer) = 1 /\ Len(toClient) = 0
      /\ shaken => /\ x = Base(user) + Len(toClient) + 1
                   /\ Len(toClient) + Len(toServer) = Len(pipeline)
                   /\ Consecutive(toServer, Base(user) + Len(toClient))
      /\ \A i \in 1..Len(toClient) : toClient[i].kind = "ok"
  BY <1>1, NextRequest
<1>b. /\ Base(user) \in Nat /\ Len(toClient) \in Nat /\ Len(pipeline) \in Nat /\ user \in Users
      /\ made[user] = Base(user) + Len(queue[user]) /\ Len(pipeline) <= Len(queue[user])
      /\ Len(queue[user]) \in Nat /\ toServer \in Seq(Nat) /\ x \in Nat
      /\ applied \in [Users -> SUBSET WriteId] /\ last \in [Users -> Nat]
  BY <1>s, <1>i, <1>2 DEF Shape, TypeOK
<1>3. a \in Answer /\ a.kind = "ok" /\ a.to = x
  BY <1>b DEF Answer
<1> HIDE DEF x, a
<1>4. /\ toClient' \in Seq(Answer) /\ Len(toClient') = Len(toClient) + 1
      /\ \A i \in 1..Len(toClient) : toClient'[i] = toClient[i]
      /\ toClient'[Len(toClient) + 1] = a
      /\ DOMAIN toClient' = 1..Len(toClient')
  BY <1>1, <1>3, AnswerAdded
<1>5. toServer' \in Seq(Nat) /\ Len(toServer') = Len(toServer) - 1
  BY <1>1, <1>b, HeadTailProperties, Zenon
<1>6. /\ applied' \in [Users -> SUBSET WriteId] /\ last' \in [Users -> Nat]
      /\ \A u \in Users : applied[u] \subseteq applied'[u]
      /\ x # Handshake => x \in applied'[user] /\ last'[user] = x
  BY <1>1, <1>b DEF WriteId, Handshake
<1>c. \A i \in 1..Len(toClient') : i \in 1..Len(toClient) \/ i = Len(toClient) + 1
  <2>1. Len(toClient') = Len(toClient) + 1
    BY <1>4
  <2> QED BY <2>1, <1>b
<1>7. \A i \in 1..Len(toClient') : toClient'[i].kind = "ok"
  BY <1>2, <1>3, <1>4, <1>c
<1>8. ~Ended'
  BY <1>4, <1>7 DEF Ended
<1>9. TypeOK'
  BY <1>1, <1>4, <1>5, <1>6, <1>i DEF TypeOK
<1>10. Numbered' /\ Front' /\ Needed'
  BY <1>1, <1>i DEF Numbered, Front, Base, Needed, Started
<1>11. Wire'
  <2>1. CASE ~shaken
    <3>1. Len(toServer') = 0 /\ Len(toClient') = 1 /\ toClient'[1].to = Handshake
      BY <2>1, <1>2, <1>3, <1>4, <1>5
    <3> QED BY <2>1, <3>1, <1>1, <1>2, <1>i DEF Wire
  <2>2. CASE shaken
    <3>1. Base(user)' = Base(user)
      BY <1>1 DEF Base
    <3>2. Len(toClient') <= Len(pipeline) /\ Len(toClient') + Len(toServer') = Len(pipeline)
      <4>1. /\ Len(toClient') = Len(toClient) + 1 /\ Len(toServer') = Len(toServer) - 1
            /\ Len(toClient) + Len(toServer) = Len(pipeline) /\ Len(toServer) \in Nat \ {0}
        BY <2>2, <1>2, <1>4, <1>5
      <4> QED BY <4>1, <1>b
    <3>3. \A i \in 1..Len(toClient') : toClient'[i].to = Base(user) + i
      <4>1. \A i \in 1..Len(toClient) : toClient[i].to = Base(user) + i
        BY <2>2, <1>i DEF Wire
      <4>2. toClient'[Len(toClient) + 1].to = Base(user) + (Len(toClient) + 1)
        BY <2>2, <1>2, <1>3, <1>4, <1>b
      <4> QED BY <4>1, <4>2, <1>4, <1>c
    <3>4. Consecutive(toServer', Base(user) + Len(toClient'))
      <4> DEFINE c == Base(user) + Len(toClient)
      <4>1. c \in Nat /\ Consecutive(toServer, c) /\ Base(user) + Len(toClient') = c + 1
        BY <2>2, <1>2, <1>4, <1>b
      <4> HIDE DEF c
      <4>2. Consecutive(Tail(toServer), c + 1)
        BY <4>1, <1>1, <1>b, TailRun, Zenon
      <4> QED BY <4>1, <4>2, <1>1
    <3> QED BY <2>2, <3>1, <3>2, <3>3, <3>4, <1>1, <1>2 DEF Wire, Consecutive
  <2> QED BY <2>1, <2>2
<1>12. Answered'
  <2> SUFFICES ASSUME NEW i \in 1..Len(toClient'), toClient'[i].to # Handshake
               PROVE  toClient'[i].to \in applied'[user] /\ toClient'[i].to <= last'[user]
    BY <1>1, <1>7 DEF Answered
  <2>1. CASE i = Len(toClient) + 1
    BY <2>1, <1>3, <1>4, <1>6, <1>b
  <2>2. CASE i # Len(toClient) + 1
    <3>1. i \in 1..Len(toClient) /\ toClient'[i] = toClient[i]
      BY <2>2, <1>4, <1>b
    <3>2. toClient[i].to \in applied[user] /\ toClient[i].to <= last[user]
      BY <3>1, <1>2, <1>i DEF Answered
    <3>3. CASE x = Handshake
      BY <3>1, <3>2, <3>3, <1>1
    <3>4. CASE x # Handshake
      <4>1. shaken
        BY <3>4, <1>2
      <4>2. toClient[i].to = Base(user) + i
        BY <3>1, <4>1, <1>i DEF Wire
      <4>3. toClient[i].to <= x
        BY <3>1, <4>1, <4>2, <1>2, <1>b
      <4> QED BY <3>1, <3>2, <3>4, <4>3, <1>6, <1>b
    <3> QED BY <3>3, <3>4
  <2> QED BY <2>1, <2>2
<1>13. Known'
  <2>1. CASE x = Handshake
    BY <2>1, <1>1, <1>i DEF Known, Base
  <2>2. CASE x # Handshake
    <3>1. shaken
      BY <2>2, <1>2
    <3>2. x > Base(user) /\ x <= made[user]
      BY <3>1, <1>2, <1>b
    <3> SUFFICES ASSUME NEW u \in Users, NEW b \in applied'[u] \ refused[u]
                 PROVE  b <= made[u] /\ (b <= Base(u) => b <= last'[u])
      BY <1>1 DEF Known, Base
    <3>3. CASE u # user
      BY <3>3, <2>2, <1>1, <1>b, <1>i DEF Known
    <3>4. CASE u = user
      <4>1. last'[u] = x
        BY <3>4, <2>2, <1>6
      <4>2. b \in Nat
        BY <1>6 DEF WriteId
      <4>3. b <= made[u]
        <5>1. b \in applied[u] \/ b = x
          BY <2>2, <1>1, <1>b, <3>4
        <5> QED BY <5>1, <3>2, <3>4, <1>i DEF Known
      <4> QED BY <4>1, <4>2, <4>3, <3>2, <3>4, <1>b
    <3> QED BY <3>3, <3>4
  <2> QED BY <2>1, <2>2
<1> QED BY <1>9, <1>10, <1>11, <1>12, <1>13 DEF Inv

\* The server refuses what comes next, and the stream has ended.
LEMMA RefuseKeeps ==
  ASSUME Inv, Refuse
  PROVE  Inv'
<1>s. Shape
  BY Facts
<1>i. TypeOK /\ Numbered /\ Front /\ Needed /\ Wire /\ Answered /\ Known
  BY DEF Inv
<1> DEFINE x == Head(toServer)
           a == [kind |-> "refused", to |-> x]
<1>1. /\ toServer # <<>> /\ ~Ended
      /\ toServer' = <<>> /\ toClient' = Append(toClient, a)
      /\ refused' = IF x = Handshake THEN refused ELSE [refused EXCEPT ![user] = @ \cup {x}]
      /\ made' = made /\ queue' = queue /\ user' = user /\ pipeline' = pipeline
      /\ stream' = stream /\ shaken' = shaken /\ idle' = idle
      /\ applied' = applied /\ last' = last
  BY DEF Refuse
<1>2. /\ Len(toServer) \in Nat \ {0} /\ x = toServer[1] /\ stream = "Open"
      /\ ~shaken => x = Handshake /\ Len(toServer) = 1 /\ Len(toClient) = 0
      /\ shaken => /\ x = Base(user) + Len(toClient) + 1
                   /\ Len(toClient) + Len(toServer) = Len(pipeline)
      /\ \A i \in 1..Len(toClient) : toClient[i].kind = "ok"
  BY <1>1, NextRequest
<1>b. /\ Base(user) \in Nat /\ Len(toClient) \in Nat /\ Len(pipeline) \in Nat /\ user \in Users
      /\ x \in Nat /\ refused \in [Users -> SUBSET WriteId]
  BY <1>s, <1>i, <1>2 DEF Shape, TypeOK
<1>3. a \in Answer /\ a.kind = "refused" /\ a.to = x
  BY <1>b DEF Answer
<1> HIDE DEF x, a
<1>4. /\ toClient' \in Seq(Answer) /\ Len(toClient') = Len(toClient) + 1
      /\ \A i \in 1..Len(toClient) : toClient'[i] = toClient[i]
      /\ toClient'[Len(toClient) + 1] = a
      /\ DOMAIN toClient' = 1..Len(toClient')
  BY <1>1, <1>3, AnswerAdded
<1>5. /\ refused' \in [Users -> SUBSET WriteId]
      /\ \A u \in Users : refused[u] \subseteq refused'[u]
      /\ x # Handshake => x \in refused'[user]
  BY <1>1, <1>b DEF WriteId, Handshake
<1>6. Ended'
  <2>1. Len(toClient) + 1 \in DOMAIN toClient'
    BY <1>4, <1>b
  <2> QED BY <2>1, <1>3, <1>4 DEF Ended
<1>7. TypeOK'
  <2>1. toServer' \in Seq(Nat)
    BY <1>1
  <2> QED BY <1>1, <1>4, <1>5, <1>i, <2>1 DEF TypeOK
<1>8. Numbered' /\ Front' /\ Needed'
  BY <1>1, <1>i DEF Numbered, Front, Base, Needed, Started
<1>9. Known'
  BY <1>1, <1>5, <1>i DEF Known, Base
<1>10. Wire'
  <2>1. CASE ~shaken
    <3>1. Len(toServer') = 0 /\ Len(toClient') = 1 /\ toClient'[1].to = Handshake
      BY <2>1, <1>1, <1>2, <1>3, <1>4
    <3> QED BY <2>1, <3>1, <1>1, <1>2, <1>i DEF Wire
  <2>2. CASE shaken
    <3>1. Base(user)' = Base(user)
      BY <1>1 DEF Base
    <3>2. Len(toClient') <= Len(pipeline)
      BY <2>2, <1>2, <1>4, <1>b
    <3>3. \A i \in 1..Len(toClient') : toClient'[i].to = Base(user) + i
      <4>1. \A i \in 1..Len(toClient) : toClient[i].to = Base(user) + i
        BY <2>2, <1>i DEF Wire
      <4>2. toClient'[Len(toClient) + 1].to = Base(user) + (Len(toClient) + 1)
        BY <2>2, <1>2, <1>3, <1>4, <1>b
      <4> QED BY <4>1, <4>2, <1>4, <1>b
    <3> QED BY <2>2, <3>1, <3>2, <3>3, <1>6, <1>1, <1>2 DEF Wire
  <2> QED BY <2>1, <2>2
<1>11. Answered'
  <2> SUFFICES ASSUME NEW i \in 1..Len(toClient')
               PROVE  /\ toClient'[i].kind = "refused" => i = Len(toClient')
                      /\ toClient'[i].to # Handshake =>
                           IF toClient'[i].kind = "ok"
                           THEN toClient'[i].to \in applied[user] /\ toClient'[i].to <= last[user]
                           ELSE toClient'[i].to \in refused'[user]
    BY <1>1 DEF Answered
  <2>1. CASE i = Len(toClient) + 1
    BY <2>1, <1>3, <1>4, <1>5
  <2>2. CASE i # Len(toClient) + 1
    <3>1. i \in 1..Len(toClient) /\ toClient'[i] = toClient[i]
      BY <2>2, <1>4, <1>b
    <3> QED BY <3>1, <1>2, <1>i DEF Answered
  <2> QED BY <2>1, <2>2
<1> QED BY <1>7, <1>8, <1>9, <1>10, <1>11 DEF Inv

-----------------------------------------------------------------------------
(***************************************************************************)
(* The invariant, and what it implies.                                     *)
(***************************************************************************)

LEMMA InitInv == Init => Inv
<1> SUFFICES ASSUME Init PROVE Inv
  OBVIOUS
<1>1. TypeOK
  <2>1. /\ <<>> \in Seq(WriteId) /\ <<>> \in Seq(Nat) /\ <<>> \in Seq(Answer)
        /\ Len(<<>>) <= MaxPending /\ {} \in SUBSET WriteId
    BY PipelineAssumption
  <2>2. /\ made \in [Users -> Nat] /\ queue \in [Users -> Seq(WriteId)] /\ user \in Users
        /\ applied \in [Users -> SUBSET WriteId] /\ last \in [Users -> Nat]
        /\ refused \in [Users -> SUBSET WriteId]
    BY <2>1 DEF Init
  <2> QED BY <2>1, <2>2 DEF Init, TypeOK
<1>2. Numbered
  BY DEF Init, Numbered, Base, Consecutive
<1>3. Front
  BY PipelineAssumption DEF Init, Front, Full, Least, Consecutive, Base
<1>4. Needed /\ Wire /\ Answered /\ Known
  BY DEF Init, Needed, Wire, Answered, Known
<1> QED BY <1>1, <1>2, <1>3, <1>4 DEF Inv

\* Every step keeps it.
LEMMA StepInv == Inv /\ [Next]_vars => Inv'
<1> SUFFICES ASSUME Inv, [Next]_vars PROVE Inv'
  OBVIOUS
<1>1. CASE Write
  BY <1>1, WriteKeeps
<1>2. ASSUME NEW u \in Users, RestartNetwork(u) PROVE Inv'
  BY <1>2, RestartKeeps
<1>3. CASE OpenStream
  BY <1>3, OpenStreamKeeps
<1>4. CASE Break \/ IdleTimeout
  BY <1>4, BreakKeeps
<1>5. CASE BackoffElapsed
  <2>1. /\ stream = "Backoff" /\ stream' = "Starting"
        /\ made' = made /\ queue' = queue /\ user' = user /\ pipeline' = pipeline
        /\ shaken' = shaken /\ idle' = idle /\ toServer' = toServer /\ toClient' = toClient
        /\ applied' = applied /\ last' = last /\ refused' = refused
    BY <1>5 DEF BackoffElapsed, serverVars
  <2>2. TypeOK' /\ Numbered' /\ Front' /\ Known' /\ Answered' /\ Needed'
    BY <2>1 DEF Inv, TypeOK, Numbered, Front, Known, Answered, Base, Needed, Started
  <2>3. Wire'
    BY <2>1 DEF Inv, Wire
  <2> QED BY <2>2, <2>3 DEF Inv
<1>6. CASE HandshakeComplete
  BY <1>6, HandshakeKeeps
<1>7. CASE MutationResult
  BY <1>7, MutationResultKeeps
<1>8. CASE CloseRefused
  BY <1>8, CloseRefusedKeeps
<1>9. CASE Accept
  BY <1>9, AcceptKeeps
<1>10. CASE Refuse
  BY <1>10, RefuseKeeps
<1>11. CASE UNCHANGED vars
  BY <1>11 DEF vars, serverVars, Inv, TypeOK, Numbered, Front, Needed, Started, Wire, Ended,
     Answered, Known, Base
<1> QED BY <1>1, <1>2, <1>3, <1>4, <1>5, <1>6, <1>7, <1>8, <1>9, <1>10, <1>11 DEF Next

LEMMA AlwaysInv == Spec => []Inv
  BY InitInv, StepInv, PTL DEF Spec

\* The pipeline is the front of the current account's queue, a stream is at work while it
\* is not empty, and the answers to come are those of the pipeline, in its order
\* (remote_store.cc:370-545).
THEOREM PipelineIsConsistent == Spec => []Consistent
<1>1. Inv => Consistent
  <2> SUFFICES ASSUME Inv PROVE Consistent
    OBVIOUS
  <2>s. Shape
    BY Facts
  <2>1. PipelineIsFront
    <3> DEFINE more == NextBatches(queue[user], <<>>)
    <3>1. <<>> \in Seq(Nat) /\ Consecutive(<<>>, Base(user))
      BY DEF Consecutive
    <3>2. /\ Base(user) \in Nat /\ queue[user] \in Seq(Nat)
          /\ Consecutive(queue[user], Base(user))
          /\ Len(<<>>) <= Len(queue[user]) /\ Len(<<>>) <= MaxPending
      BY <2>s, PipelineAssumption DEF Shape
    <3>3. /\ more \in Seq(Nat) /\ Consecutive(<<>> \o more, Base(user))
          /\ Full(<<>> \o more, queue[user])
      BY <3>1, <3>2, Filled, Zenon
    <3> HIDE DEF more
    <3>4. <<>> \o more = more
      BY <3>3, ConcatEmptySeq, Zenon
    <3>5. Consecutive(more, Base(user)) /\ Len(more) = Len(pipeline)
      BY <3>3, <3>4, <2>s DEF Full, Shape
    <3>6. pipeline = more
      BY <3>2, <3>3, <3>5, <2>s, SameRun DEF Shape
    <3> QED BY <3>6 DEF PipelineIsFront, more
  <2>2. AnswersMatch
    <3> SUFFICES ASSUME NEW i \in 1..Len(toClient)
                 PROVE  IF shaken THEN i \in DOMAIN pipeline /\ toClient[i].to = pipeline[i]
                                  ELSE toClient[i].to = Handshake
      BY <2>s DEF AnswersMatch, Shape
    <3>1. CASE ~shaken
      BY <3>1 DEF Inv, Wire
    <3>2. CASE shaken
      <4>1. Len(toClient) <= Len(pipeline) /\ toClient[i].to = Base(user) + i
        BY <3>2 DEF Inv, Wire
      <4>2. i \in 1..Len(pipeline)
        BY <4>1, <2>s DEF Shape
      <4>3. pipeline[i] = Base(user) + i /\ DOMAIN pipeline = 1..Len(pipeline)
        BY <4>2, <2>s, LenProperties DEF Shape, Consecutive
      <4> QED BY <3>2, <4>1, <4>2, <4>3
    <3> QED BY <3>1, <3>2
  <2> QED BY <2>1, <2>2 DEF Inv, Needed, Consistent
<1> QED BY <1>1, AlwaysInv, PTL

\* Writes sent again do not undo newer ones: of a settled account, the newest write that
\* was applied and not refused is the one applied last (remote_store.cc:440-545).
THEOREM NewestWriteStands == Spec => []NewestStands
<1>1. Inv => NewestStands
  <2> SUFFICES ASSUME Inv, NEW u \in Users, queue[u] = <<>>, NEW b \in applied[u] \ refused[u]
               PROVE  b <= last[u]
    BY DEF NewestStands
  <2>1. Base(u) = made[u]
    BY DEF Inv, TypeOK, Base
  <2> QED BY <2>1 DEF Inv, Known
<1> QED BY <1>1, AlwaysInv, PTL

-----------------------------------------------------------------------------
(***************************************************************************)
(* The refinement of DurableQueue.                                         *)
(***************************************************************************)

\* What the server still gets of an ended stream is an Apply, or nothing.
LEMMA AbandonImplements ==
  ASSUME Inv, Abandon, made' = made, queue' = queue
  PROVE  [Durable!Next]_(Durable!vars)
<1>1. /\ refused' = refused /\ user \in Users
      /\ \/ applied' = applied
         \/ \E n \in 1..Len(queue[user]) :
              applied' = [applied EXCEPT ![user] = @ \cup {queue[user][i] : i \in 1..n}]
  BY AbandonKeeps DEF Inv, TypeOK
<1>2. CASE applied' = applied
  BY <1>1, <1>2 DEF Durable!vars
<1>3. CASE applied' # applied
  BY <1>1, <1>3 DEF Durable!Next, Durable!Apply
<1> QED BY <1>2, <1>3

\* A step of the client, its stream or its server is a step of the queue, or stutters.
LEMMA StepImplements == Inv /\ [Next]_vars => [Durable!Next]_(Durable!vars)
<1> SUFFICES ASSUME Inv, [Next]_vars PROVE [Durable!Next]_(Durable!vars)
  OBVIOUS
<1>s. Shape
  BY Facts
<1>u. user \in Users
  BY <1>s DEF Shape
<1>1. CASE Write
  BY <1>1, <1>u DEF Write, serverVars, Durable!Next, Durable!Make
<1>2. ASSUME NEW u \in Users, RestartNetwork(u) PROVE [Durable!Next]_(Durable!vars)
  BY <1>2, AbandonImplements DEF RestartNetwork
<1>3. CASE Break \/ IdleTimeout
  BY <1>3, AbandonImplements DEF Break, IdleTimeout
<1>4. CASE OpenStream \/ BackoffElapsed \/ HandshakeComplete
  BY <1>4 DEF OpenStream, BackoffElapsed, HandshakeComplete, serverVars, Durable!vars
<1>5. CASE MutationResult
  <2>1. /\ toClient # <<>> /\ shaken /\ Head(toClient).kind = "ok"
        /\ queue' = [queue EXCEPT ![user] = Tail(@)] /\ made' = made
        /\ applied' = applied /\ refused' = refused
    BY <1>5 DEF MutationResult, serverVars
  <2>2. pipeline # <<>> /\ Base(user) + 1 \in applied[user]
    BY <2>1, Oldest
  <2>3. queue[user] # <<>> /\ Head(queue[user]) = Base(user) + 1
    <3>1. queue[user] # <<>>
      BY <2>2, <1>s, EmptySeq DEF Shape
    <3> QED BY <3>1, <1>s, TailRun DEF Shape
  <2> QED BY <2>1, <2>2, <2>3, <1>u DEF Durable!Next, Durable!Settle
<1>6. CASE CloseRefused
  <2>1. /\ toClient # <<>> /\ Head(toClient).kind = "refused" /\ Abandon /\ made' = made
    BY <1>6 DEF CloseRefused
  <2>2. CASE ~shaken
    BY <2>1, <2>2, <1>6, AbandonImplements DEF CloseRefused
  <2>3. CASE shaken
    <3>1. queue' = [queue EXCEPT ![user] = Tail(@)]
      BY <1>6, <2>3 DEF CloseRefused
    <3>2. pipeline # <<>> /\ Base(user) + 1 \in refused[user] /\ Len(toClient) \in Nat \ {0}
          /\ Head(toClient) = toClient[1]
      BY <2>1, <2>3, Oldest
    <3>3. Ended
      <4>1. 1 \in DOMAIN toClient /\ toClient[1].kind = "refused"
        BY <2>1, <3>2, <1>s DEF Shape
      <4> QED BY <4>1 DEF Ended
    <3>4. applied' = applied /\ refused' = refused
      BY <2>1, <3>3, AbandonKeeps
    <3>5. queue[user] # <<>> /\ Head(queue[user]) = Base(user) + 1
      <4>1. queue[user] # <<>>
        BY <3>2, <1>s, EmptySeq DEF Shape
      <4> QED BY <4>1, <1>s, TailRun DEF Shape
    <3> QED BY <2>1, <3>1, <3>2, <3>4, <3>5, <1>u DEF Durable!Next, Durable!Settle
  <2> QED BY <2>2, <2>3
<1>7. ASSUME toServer # <<>>, ~Ended, Head(toServer) # Handshake
      PROVE  LET n == Len(toClient) + 1 IN
             /\ n \in 1..Len(queue[user]) /\ queue[user][n] = Head(toServer)
             /\ \A i \in 1..(n - 1) : queue[user][i] \in applied[user]
  <2>1. /\ shaken /\ Head(toServer) = Base(user) + Len(toClient) + 1
        /\ Len(toServer) \in Nat \ {0} /\ Len(toClient) + Len(toServer) = Len(pipeline)
        /\ \A i \in 1..Len(toClient) : toClient[i].kind = "ok"
    BY <1>7, NextRequest
  <2>2. /\ Len(toClient) \in Nat /\ Len(pipeline) \in Nat /\ Len(queue[user]) \in Nat
        /\ Len(pipeline) <= Len(queue[user]) /\ Base(user) \in Nat
        /\ \A i \in 1..Len(queue[user]) : queue[user][i] = Base(user) + i
    BY <1>s DEF Shape, Consecutive
  <2>3. Len(toClient) + 1 \in 1..Len(queue[user])
    BY <2>1, <2>2
  <2>4. queue[user][Len(toClient) + 1] = Head(toServer)
    BY <2>1, <2>2, <2>3
  <2>5. ASSUME NEW i \in 1..Len(toClient) PROVE queue[user][i] \in applied[user]
    <3>1. queue[user][i] = Base(user) + i
      BY <2>2, <2>3
    <3>2. toClient[i].to = Base(user) + i /\ toClient[i].to # Handshake
      BY <2>1, <2>2 DEF Inv, Wire, Handshake
    <3> QED BY <2>1, <3>1, <3>2 DEF Inv, Answered
  <2> QED BY <2>2, <2>3, <2>4, <2>5
<1>8. CASE Accept
  <2>1. /\ toServer # <<>> /\ ~Ended
        /\ made' = made /\ queue' = queue /\ refused' = refused
        /\ IF Head(toServer) = Handshake THEN applied' = applied
           ELSE applied' = [applied EXCEPT ![user] = @ \cup {Head(toServer)}]
    BY <1>8 DEF Accept
  <2>2. CASE Head(toServer) = Handshake
    BY <2>1, <2>2 DEF Durable!vars
  <2>3. CASE Head(toServer) # Handshake
    <3> DEFINE n == Len(toClient) + 1
    <3>1. /\ n \in 1..Len(queue[user]) /\ queue[user][n] = Head(toServer)
          /\ \A i \in 1..(n - 1) : queue[user][i] \in applied[user]
      BY <2>1, <2>3, <1>7
    <3> HIDE DEF n
    <3>2. n \in Nat \ {0}
      BY <3>1
    <3>3. applied[user] \cup {Head(toServer)} = applied[user] \cup {queue[user][i] : i \in 1..n}
      <4>1. \A i \in 1..n : i = n \/ i \in 1..(n - 1)
        BY <3>2
      <4>2. n \in 1..n
        BY <3>2
      <4> QED BY <3>1, <4>1, <4>2
    <3>4. applied' = [applied EXCEPT ![user] = @ \cup {queue[user][i] : i \in 1..n}]
      BY <2>1, <2>3, <3>3
    <3> QED BY <2>1, <3>1, <3>4, <1>u DEF Durable!Next, Durable!Apply
  <2> QED BY <2>2, <2>3
<1>9. CASE Refuse
  <2>1. /\ toServer # <<>> /\ ~Ended
        /\ made' = made /\ queue' = queue /\ applied' = applied
        /\ refused' = IF Head(toServer) = Handshake THEN refused
                      ELSE [refused EXCEPT ![user] = @ \cup {Head(toServer)}]
    BY <1>9 DEF Refuse
  <2>2. CASE Head(toServer) = Handshake
    BY <2>1, <2>2 DEF Durable!vars
  <2>3. CASE Head(toServer) # Handshake
    <3> DEFINE n == Len(toClient) + 1
    <3>1. /\ n \in 1..Len(queue[user]) /\ queue[user][n] = Head(toServer)
          /\ \A i \in 1..(n - 1) : queue[user][i] \in applied[user]
      BY <2>1, <2>3, <1>7
    <3> HIDE DEF n
    <3> QED BY <2>1, <2>3, <3>1, <1>u DEF Durable!Next, Durable!Refuse
  <2> QED BY <2>2, <2>3
<1>10. CASE UNCHANGED vars
  BY <1>10 DEF vars, serverVars, Durable!vars
<1> QED BY <1>1, <1>2, <1>3, <1>4, <1>5, <1>6, <1>8, <1>9, <1>10 DEF Next

\* The write pipeline keeps the promise of the queue: a write waits until it was applied
\* or refused, writes are settled in order, and none is applied ahead of older ones
\* (remote_store.cc:370-545).
THEOREM PipelineIsDurable == Spec => DurableSpec
<1>1. Init => Durable!Init
  BY DEF Init, Durable!Init
<1> QED BY <1>1, AlwaysInv, StepImplements, PTL DEF Spec, DurableSpec, Durable!Spec

=============================================================================

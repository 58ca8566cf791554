--------------------------- MODULE WritePipeline ---------------------------
(***************************************************************************)
(* How the Firestore client sends the writes of its mutation queue.        *)
(*                                                                         *)
(* The queue of each account is on disk.  The pipeline is the part of the  *)
(* current account's queue that has been handed to the write stream: the   *)
(* stream is opened with a handshake, all of the pipeline is sent on it,   *)
(* and each answer is taken for the oldest write of the pipeline.  A       *)
(* stream may break between any two steps, be stopped when idle, or be     *)
(* restarted because the network or the account changed; the writes in     *)
(* the pipeline are then sent again, applied or not.                       *)
(***************************************************************************)
EXTENDS Naturals, Sequences, Functions

CONSTANTS Users,
          MaxPending,  \* kMaxPendingWrites
          MaxWrites    \* bound on the writes of all accounts

ASSUME PipelineAssumption == MaxPending \in Nat \ {0} /\ MaxWrites \in Nat

VARIABLES
  made,      \* made[u]: the number of writes of u, which are 1, 2, ...
  queue,     \* queue[u]: the mutation queue
  user,      \* the current user
  pipeline,  \* write_pipeline_
  stream,    \* Stream::state_
  shaken,    \* handshake_complete_
  idle,      \* the idleness timer runs
  toServer,  \* requests on the open stream; 0 is the handshake
  toClient,  \* its answers; "refused" is the status that ends the stream
  applied,   \* applied[u]: the writes the server has applied,
  last,      \* last[u]: the one it applied last,
  refused    \* refused[u]: and those it has refused

serverVars == <<applied, last, refused>>
vars == <<made, queue, user, pipeline, stream, shaken, idle, toServer, toClient,
          applied, last, refused>>

Handshake == 0
Answer == [kind: {"ok", "refused"}, to: Nat]
WriteId == Nat \ {0}

TypeOK ==
  /\ made \in [Users -> Nat]
  /\ queue \in [Users -> Seq(WriteId)]
  /\ user \in Users
  /\ pipeline \in Seq(WriteId) /\ Len(pipeline) <= MaxPending
  /\ stream \in {"Initial", "Starting", "Open", "Error", "Backoff"}
  /\ shaken \in BOOLEAN /\ idle \in BOOLEAN
  /\ toServer \in Seq(Nat)
  /\ toClient \in Seq(Answer)
  /\ applied \in [Users -> SUBSET WriteId]
  /\ last \in [Users -> Nat]
  /\ refused \in [Users -> SUBSET WriteId]

Init ==
  /\ made = [u \in Users |-> 0]
  /\ queue = [u \in Users |-> <<>>]
  /\ user \in Users
  /\ pipeline = <<>>
  /\ stream = "Initial" /\ shaken = FALSE /\ idle = FALSE
  /\ toServer = <<>> /\ toClient = <<>>
  /\ applied = [u \in Users |-> {}]
  /\ last = [u \in Users |-> 0]
  /\ refused = [u \in Users |-> {}]

-----------------------------------------------------------------------------
(***************************************************************************)
(* Parts of the handlers.                                                  *)
(***************************************************************************)

Started == stream \in {"Starting", "Backoff", "Open"}

Least(m, n) == IF m < n THEN m ELSE n

\* GetNextMutationBatch: the place in the queue q of the first batch after b.
NextAfter(q, b) == CHOOSE i \in 1..Len(q) + 1 : \A j \in DOMAIN q : j < i <=> q[j] <= b

\* Mutant: batches are read from the newest.
NextBatchesNewest(q, p) ==
  LET first == NextAfter(q, IF p = <<>> THEN 0 ELSE p[Len(p)])
      room == MaxPending - Len(p)
  IN [i \in 1..Least(Len(q) - first + 1, room) |-> q[Len(q) - i + 1]]

\* The batches of q that follow the pipeline p, as many as it has room for.
NextBatches(q, p) ==
  LET first == NextAfter(q, IF p = <<>> THEN 0 ELSE p[Len(p)])
      room == MaxPending - Len(p)
  IN SubSeq(q, first, Least(Len(q), first + room - 1))

\* Mutant: batches are sent although the handshake is not over.
FillUnshaken(p, more) ==
  /\ pipeline' = p \o more
  /\ toServer' = toServer \o more
  /\ idle' = \/ p \o more = <<>>
             \/ idle /\ more = <<>>
  /\ UNCHANGED <<stream, shaken>>

\* FillWritePipeline on an open stream: batches are sent at once if the handshake is
\* over, which cancels the idle timer; with nothing to send the timer is started.
FillOpen(p, more) ==
  /\ pipeline' = p \o more
  /\ toServer' = IF shaken THEN toServer \o more ELSE toServer
  /\ idle' = \/ p \o more = <<>>
             \/ idle /\ ~(shaken /\ more # <<>>)
  /\ UNCHANGED <<stream, shaken>>

\* FillWritePipeline on a stream that is not open: it is started if needed, after
\* an error through the backoff.
FillClosed(p, more, state) ==
  /\ pipeline' = p \o more
  /\ stream' = IF p \o more = <<>> THEN state
               ELSE CASE state = "Initial" -> "Starting"
                      [] state = "Error" -> "Backoff"
                      [] OTHER -> state
  /\ UNCHANGED <<shaken, idle, toServer>>

\* The server has refused a request and takes no more on this stream.
Ended == \E i \in DOMAIN toClient : toClient[i].kind = "refused"

\* The stream ends.  Of the requests under way the server still gets some.
Abandon ==
  /\ \E n \in 0..(IF Ended THEN 0 ELSE Len(toServer)) :
       LET got == {toServer[i] : i \in 1..n} \ {Handshake} IN
         /\ applied' = [applied EXCEPT ![user] = @ \cup got]
         /\ last' = IF got = {} THEN last ELSE [last EXCEPT ![user] = toServer[n]]
  /\ toServer' = <<>> /\ toClient' = <<>>
  /\ shaken' = FALSE /\ idle' = FALSE
  /\ UNCHANGED refused

-----------------------------------------------------------------------------
(***************************************************************************)
(* The application and the environment.                                    *)
(***************************************************************************)

\* SyncEngine::WriteMutations.
Write ==
  /\ SumFunction(made) < MaxWrites
  /\ made' = [made EXCEPT ![user] = @ + 1]
  /\ queue' = [queue EXCEPT ![user] = Append(@, made'[user])]
  /\ LET more == NextBatches(queue'[user], pipeline) IN
       IF stream = "Open" THEN FillOpen(pipeline, more)
                          ELSE FillClosed(pipeline, more, stream)
  /\ UNCHANGED <<user, toClient, serverVars>>

\* Mutant: the pipeline of the previous user is kept.
RestartWithPipeline(u) ==
  LET more == NextBatches(queue[u], pipeline) IN
    /\ pipeline' = pipeline \o more
    /\ stream' = IF pipeline \o more = <<>> THEN "Initial" ELSE "Starting"

\* The streams are stopped and the pipeline is cleared and filled anew.
Restart(u) ==
  LET more == NextBatches(queue[u], <<>>) IN
    /\ pipeline' = more
    /\ stream' = IF more = <<>> THEN "Initial" ELSE "Starting"

\* HandleCredentialChange, for another user or the same one; connectivity has come
\* back; or the process has ended and starts again, which finds the same queue.
RestartNetwork(u) ==
  /\ user' = u
  /\ Restart(u)
  /\ Abandon
  /\ UNCHANGED <<made, queue>>

-----------------------------------------------------------------------------
(***************************************************************************)
(* The stream.                                                             *)
(***************************************************************************)

\* The token has come and the handshake is sent.
OpenStream ==
  /\ stream = "Starting"
  /\ stream' = "Open"
  /\ toServer' = Append(toServer, Handshake)
  /\ idle' = FALSE
  /\ UNCHANGED <<made, queue, user, pipeline, shaken, toClient, serverVars>>

\* Close with an error that says nothing of a write: no token, no network, a
\* handshake refused, ABORTED.  The stream backs off if it is still needed.
Break ==
  /\ stream \in {"Starting", "Open"}
  /\ stream' = IF pipeline = <<>> THEN "Error" ELSE "Backoff"
  /\ Abandon
  /\ UNCHANGED <<made, queue, user, pipeline>>

BackoffElapsed ==
  /\ stream = "Backoff"
  /\ stream' = "Starting"
  /\ UNCHANGED <<made, queue, user, pipeline, shaken, idle, toServer, toClient, serverVars>>

\* The idleness timer stops the stream.
IdleTimeout ==
  /\ stream = "Open" /\ idle
  /\ stream' = "Initial"
  /\ Abandon
  /\ UNCHANGED <<made, queue, user, pipeline>>

\* The first answer is the handshake's: the whole pipeline is sent.
HandshakeComplete ==
  /\ toClient # <<>> /\ ~shaken /\ Head(toClient).kind = "ok"
  /\ toClient' = Tail(toClient)
  /\ shaken' = TRUE
  /\ toServer' = toServer \o pipeline
  /\ idle' = (idle /\ pipeline = <<>>)
  /\ UNCHANGED <<made, queue, user, pipeline, stream, serverVars>>

\* An answer acknowledges the oldest write of the pipeline.
MutationResult ==
  /\ toClient # <<>> /\ shaken /\ Head(toClient).kind = "ok"
  /\ toClient' = Tail(toClient)
  /\ queue' = [queue EXCEPT ![user] = Tail(@)]
  /\ FillOpen(Tail(pipeline), NextBatches(queue'[user], Tail(pipeline)))
  /\ UNCHANGED <<made, user, serverVars>>

\* Mutant: the stream is not started again after a write was refused.
CloseRefusedStops ==
  /\ toClient # <<>> /\ Head(toClient).kind = "refused"
  /\ IF shaken
     THEN /\ queue' = [queue EXCEPT ![user] = Tail(@)]
          /\ pipeline' = Tail(pipeline) \o NextBatches(queue'[user], Tail(pipeline))
          /\ stream' = "Initial"
     ELSE /\ stream' = "Backoff"
          /\ UNCHANGED <<queue, pipeline>>
  /\ Abandon
  /\ UNCHANGED <<made, user>>

\* The stream ends with a permanent error.  After the handshake the oldest write is
\* dropped and the stream restarts at once; before, it only backs off.
CloseRefused ==
  /\ toClient # <<>> /\ Head(toClient).kind = "refused"
  /\ IF shaken
     THEN /\ queue' = [queue EXCEPT ![user] = Tail(@)]
          /\ pipeline' = Tail(pipeline) \o NextBatches(queue'[user], Tail(pipeline))
          /\ stream' = IF pipeline' = <<>> THEN "Initial" ELSE "Starting"
     ELSE /\ stream' = "Backoff"
          /\ UNCHANGED <<queue, pipeline>>
  /\ Abandon
  /\ UNCHANGED <<made, user>>

-----------------------------------------------------------------------------
(***************************************************************************)
(* The server answers requests in order, until it refuses one.             *)
(***************************************************************************)

Accept ==
  /\ toServer # <<>> /\ ~Ended
  /\ toServer' = Tail(toServer)
  /\ toClient' = Append(toClient, [kind |-> "ok", to |-> Head(toServer)])
  /\ IF Head(toServer) = Handshake THEN UNCHANGED <<applied, last>>
     ELSE /\ applied' = [applied EXCEPT ![user] = @ \cup {Head(toServer)}]
          /\ last' = [last EXCEPT ![user] = Head(toServer)]
  /\ UNCHANGED <<made, queue, user, pipeline, stream, shaken, idle, refused>>

Refuse ==
  /\ toServer # <<>> /\ ~Ended
  /\ toServer' = <<>>
  /\ toClient' = Append(toClient, [kind |-> "refused", to |-> Head(toServer)])
  /\ refused' = IF Head(toServer) = Handshake THEN refused
                ELSE [refused EXCEPT ![user] = @ \cup {Head(toServer)}]
  /\ UNCHANGED <<made, queue, user, pipeline, stream, shaken, idle, applied, last>>

-----------------------------------------------------------------------------
Next ==
  \/ Write
  \/ \E u \in Users : RestartNetwork(u)
  \/ OpenStream \/ Break \/ BackoffElapsed \/ IdleTimeout
  \/ HandshakeComplete \/ MutationResult \/ CloseRefused
  \/ Accept \/ Refuse

Spec == Init /\ [][Next]_vars

(***************************************************************************)
(* Streams may break for ever, but one that is tried again and again gets  *)
(* through each step of its life again and again; and timers fire.         *)
(***************************************************************************)
Fairness ==
  /\ WF_vars(BackoffElapsed)
  /\ SF_vars(OpenStream) /\ SF_vars(HandshakeComplete)
  /\ SF_vars(MutationResult) /\ SF_vars(CloseRefused)
  /\ SF_vars(Accept /\ Head(toServer) = Handshake)
  /\ SF_vars(Accept /\ Head(toServer) # Handshake)

FairSpec == Spec /\ Fairness

-----------------------------------------------------------------------------
\* The pipeline is the front of the current user's queue, and as long as it can be:
\* no write waits for a slot that is free, and none of another user is in it.
PipelineIsFront == pipeline = NextBatches(queue[user], <<>>)

\* Answers carry no identifier; each is taken for the oldest write of the pipeline,
\* and is that write's.  Before the handshake is over there is no other answer.
AnswersMatch ==
  \A i \in DOMAIN toClient :
    IF shaken THEN i \in DOMAIN pipeline /\ toClient[i].to = pipeline[i]
              ELSE toClient[i].to = Handshake

\* What RemoteStore relies on between two events: the pipeline is the front of the
\* queue, a stream is open, starting or backing off while it is not empty, a stream
\* that OnWriteStreamClose finds stopped by the idle timer is not needed, and the
\* answers to come are those of the pipeline (remote_store.cc:370-545).
Consistent ==
  /\ TypeOK
  /\ PipelineIsFront
  /\ pipeline # <<>> => Started
  /\ idle => pipeline = <<>>
  /\ AnswersMatch

\* Once all writes of an account are settled, the newest one that the server
\* applied and did not refuse afterwards is the one whose effect stands, although
\* writes were sent again.
NewestStands ==
  \A u \in Users : queue[u] = <<>> => \A b \in applied[u] \ refused[u] : b <= last[u]

\* The queue keeps its promise.
Durable == INSTANCE DurableQueue WITH waiting <- queue
DurableSpec == Durable!Spec

\* An account that stays signed in and makes no more writes (MaxWrites is a bound)
\* has them all settled some day, however often the stream breaks.
WritesSettle == \A u \in Users : user = u ~> user # u \/ queue[u] = <<>>
=============================================================================

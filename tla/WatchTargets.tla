---------------------------- MODULE WatchTargets ----------------------------
(***************************************************************************)
(* How the Firestore client follows its queries on the watch stream.       *)
(*                                                                         *)
(* RemoteStore sends the targets it listens to; WatchChangeAggregator      *)
(* gathers what the server says of them until a global snapshot; LocalStore*)
(* keeps which documents match, with the token from which the server can   *)
(* resume.  Requests and answers cross on the stream: nothing is believed  *)
(* of a target while an answer for it is outstanding.                      *)
(*                                                                         *)
(* The server numbers its states 1, 2, ...; a token and a snapshot version *)
(* are such a number, token 0 is none.  A document is only its membership. *)
(***************************************************************************)
EXTENDS Integers, Sequences, FiniteSets, SequencesExt

CONSTANTS Targets, Docs,
          Documents,   \* the targets that are document queries,
          Key,         \* and the document of each
          MaxVersion,  \* bound: states of the server
          Listened,    \* bound: the targets listened to, for each mode of the server
          MaxListens,  \* bound: calls of Listen, likewise
          MaxBreaks    \* bound: breaks of the stream, restarts and rejections, likewise

\* How the server resumes a target: it tells what was removed, or only a count; or
\* it tells what was removed and may reject a target.
Modes == {"removals", "filters", "rejects"}

ASSUME WatchAssumption ==
  /\ IsFiniteSet(Targets) /\ Targets # {} /\ IsFiniteSet(Docs) /\ Docs # {}
  /\ Documents \subseteq Targets /\ Key \in [Documents -> Docs]
  /\ MaxVersion \in Nat \ {0} /\ Listened \in [Modes -> SUBSET Targets]
  /\ MaxListens \in [Modes -> Nat] /\ MaxBreaks \in [Modes -> Nat]

\* What may match: a document query matches its document, or nothing.
Results == {m \in [Targets -> SUBSET Docs] : \A t \in Documents : m[t] \subseteq {Key[t]}}

No == -1   \* not listened to, not served

VARIABLES
  mode,     \* how the server behaves, as long as it runs
  hist,     \* the server's states: who matches which target
  serving,  \* what the server knows of each target of the stream
  up, down, \* the stream
  open,
  listen,   \* listen_targets_: their tokens, or No
  agg,      \* target_states_: the answers awaited, whether current, and what
            \* changed for each document since the last snapshot
  resets,   \* pending_target_resets_
  data,     \* target_data_by_target_: the tokens in memory
  saved,    \* the tokens on disk
  keys,     \* the remote keys of each target, on disk
  last,     \* the last remote snapshot version, on disk
  synced,   \* the version at which the view was told it is current, or 0
  doubt,    \* history: what the code has lost track of, see below
  listens, breaks

server == <<mode, hist, serving>>
disk == <<data, saved, keys, last>>
bounds == <<listens, breaks>>
vars == <<server, up, down, open, listen, agg, resets, disk, synced, doubt, bounds>>

(***************************************************************************)
(* No step depends on doubt.  A target is "mismatch" from the snapshot that*)
(* takes its documents away, and writes a token, until a later token of it *)
(* is on disk; it is "lost" once it is listened to in between, or while a  *)
(* mismatch waits for that snapshot, and once a rejection of an earlier    *)
(* listen erases the answers awaited of a later one.                       *)
(***************************************************************************)

NewState == [outstanding |-> 0, current |-> FALSE, docs |-> [d \in Docs |-> "none"]]
Unserved == [at |-> No, fresh |-> FALSE]

Init ==
  /\ mode \in Modes
  /\ hist \in {<<m>> : m \in Results}
  /\ serving = [t \in Targets |-> Unserved]
  /\ up = <<>> /\ down = <<>> /\ open = FALSE
  /\ listen = [t \in Targets |-> No]
  /\ agg = [t \in Targets |-> NewState]
  /\ resets = {}
  /\ data = [t \in Targets |-> 0] /\ saved = [t \in Targets |-> 0]
  /\ keys = [t \in Targets |-> {}]
  /\ last = 0 /\ synced = [t \in Targets |-> 0]
  /\ doubt = [t \in Targets |-> "none"]
  /\ listens = 0 /\ breaks = 0

Now == Len(hist)
Matching(v, t) == IF v = 0 THEN {} ELSE hist[v][t]

\* Mutant: a target is active while answers are outstanding.
ActiveAnyway(t) == listen[t] # No

\* TargetDataForActiveTarget
Active(t) == agg[t].outstanding = 0 /\ listen[t] # No

Watch(t, token) == [op |-> "watch", t |-> t, token |-> token]
Unwatch(t) == [op |-> "unwatch", t |-> t, token |-> 0]

\* SendWatchRequest, SendUnwatchRequest, if the stream is open.
Send(r) ==
  IF open
  THEN /\ up' = Append(up, r)
       /\ agg' = [agg EXCEPT ![r.t].outstanding = @ + 1]
  ELSE UNCHANGED <<up, agg>>

Listen(t) ==
  /\ listen[t] = No
  /\ t \in Listened[mode] /\ listens < MaxListens[mode]
  /\ listens' = listens + 1
  /\ listen' = [listen EXCEPT ![t] = saved[t]]
  /\ data' = [data EXCEPT ![t] = saved[t]]
  /\ Send(Watch(t, saved[t]))
  /\ doubt' = [doubt EXCEPT ![t] = IF @ = "mismatch" \/ t \in resets THEN "lost" ELSE @]
  /\ UNCHANGED <<server, down, open, resets, saved, keys, last, synced, breaks>>

\* The target is released with the token it has in memory.
Release(t) ==
  /\ saved' = [saved EXCEPT ![t] = data[t]]
  /\ listen' = [listen EXCEPT ![t] = No]
  /\ synced' = [synced EXCEPT ![t] = 0]

StopListening(t) ==
  /\ listen[t] # No
  /\ Release(t)
  /\ doubt' = [doubt EXCEPT ![t] = IF @ = "mismatch" /\ listen[t] # 0 THEN "none" ELSE @]
  /\ Send(Unwatch(t))
  /\ UNCHANGED <<server, down, open, resets, data, keys, last, bounds>>

\* StartWatchStream, OnWatchStreamOpen: a new aggregator, and every target anew.
Open ==
  /\ ~open
  /\ \E t \in Targets : listen[t] # No
  /\ open' = TRUE
  /\ LET listened == {t \in Targets : listen[t] # No}
     IN  /\ up' = SetToSeq({Watch(t, listen[t]) : t \in listened})
         /\ agg' = [t \in Targets |-> IF t \in listened
                                      THEN [NewState EXCEPT !.outstanding = 1]
                                      ELSE NewState]
  /\ UNCHANGED <<server, down, listen, resets, disk, synced, doubt, bounds>>

\* What a closed stream leaves of both ends.
Cut ==
  /\ open' = FALSE /\ up' = <<>> /\ down' = <<>>
  /\ agg' = [t \in Targets |-> NewState] /\ resets' = {}
  /\ serving' = [t \in Targets |-> Unserved]

\* OnWatchStreamClose
Break ==
  /\ open /\ breaks < MaxBreaks[mode]
  /\ breaks' = breaks + 1
  /\ Cut
  /\ UNCHANGED <<mode, hist, listen, disk, synced, doubt, listens>>

\* The process ends; what is on disk stays.
Restart ==
  /\ breaks < MaxBreaks[mode]
  /\ breaks' = breaks + 1
  /\ Cut
  /\ listen' = [t \in Targets |-> No]
  /\ synced' = [t \in Targets |-> 0]
  /\ UNCHANGED <<mode, hist, data, saved, keys, last, doubt, listens>>

-----------------------------------------------------------------------------
\* The handlers of OnWatchStreamChange; ms is the rest of the stream.
Handle(t, state, ms) ==
  /\ agg' = [agg EXCEPT ![t] = state]
  /\ down' = ms
  /\ UNCHANGED <<server, up, open, listen, resets, disk, synced, doubt, bounds>>

\* Mutant: an answer is not counted.
AddedUncounted(t, ms) == Handle(t, agg[t], ms)

\* HandleTargetChange, Added: what came before the last answer is forgotten.
Added(t, ms) ==
  LET n == agg[t].outstanding - 1
  IN  Handle(t, IF n = 0
                THEN [agg[t] EXCEPT !.outstanding = 0, !.docs = NewState.docs]
                ELSE [agg[t] EXCEPT !.outstanding = n], ms)

\* HandleTargetChange, Removed: the last answer removes the target.
Removed(t, ms) ==
  LET n == agg[t].outstanding - 1
  IN  Handle(t, IF n = 0 THEN NewState ELSE [agg[t] EXCEPT !.outstanding = n], ms)

Current(t, ms) ==
  Handle(t, IF Active(t) THEN [agg[t] EXCEPT !.current = TRUE] ELSE agg[t], ms)

\* AddDocumentToTarget, RemoveDocumentFromTarget
Document(t, d, in, ms) ==
  LET change == IF in THEN (IF d \in keys[t] THEN "modified" ELSE "added")
                      ELSE (IF d \in keys[t] THEN "removed" ELSE "none")
  IN  Handle(t, IF Active(t)
                THEN [agg[t] EXCEPT !.docs[d] = change]
                ELSE agg[t], ms)

OfKind(t, change) == {d \in Docs : agg[t].docs[d] = change}

\* GetCurrentDocumentCountForTarget
Count(t) == Cardinality(keys[t]) + Cardinality(OfKind(t, "added"))
              - Cardinality(OfKind(t, "removed"))

\* A wrong count resets the target and all it matched.
Mismatch(t, ms) ==
  /\ agg' = [agg EXCEPT ![t] =
               [NewState EXCEPT !.docs = [d \in Docs |-> IF d \in keys[t] THEN "removed" ELSE "none"]]]
  /\ resets' = resets \cup {t}
  /\ down' = ms
  /\ UNCHANGED <<server, up, open, listen, disk, synced, doubt, bounds>>

\* HandleExistenceFilter: of a document query, the count 0 removes its document.
Filter(t, n, ms) ==
  \/ t \in Documents /\ n = 0 /\ Document(t, Key[t], FALSE, ms)
  \/ t \in Documents /\ n # 0 /\ Handle(t, agg[t], ms)
  \/ t \notin Documents /\ Active(t) /\ Count(t) # n /\ Mismatch(t, ms)
  \/ t \notin Documents /\ ~(Active(t) /\ Count(t) # n) /\ Handle(t, agg[t], ms)

\* ProcessTargetError, HandleRejectedListen
Rejected(t, ms) ==
  IF listen[t] # No
  THEN /\ Release(t)
       /\ agg' = [agg EXCEPT ![t] = NewState]
       /\ doubt' = [doubt EXCEPT ![t] = IF agg[t].outstanding = 0 THEN @ ELSE "lost"]
       /\ down' = ms
       /\ UNCHANGED <<server, up, open, resets, data, keys, last, bounds>>
  ELSE Handle(t, agg[t], ms)

\* Mutant: the snapshot's token is taken for every target.
ChangedAll == {t \in Targets : listen[t] # No}

\* The targets that have a change in the event of a snapshot.  A current document
\* query that was sent nothing of its document is here told that there is none, which
\* changes the cache of documents but not what matches.
Changed == {t \in Targets : Active(t)}

\* Each target of ts is stopped and asked for again, without a token.
Rewatch(ts) ==
  [i \in 1..(2 * Len(ts)) |-> IF i % 2 = 1 THEN Unwatch(ts[(i + 1) \div 2])
                                          ELSE Watch(ts[i \div 2], 0)]

\* CreateRemoteEvent, RaiseWatchSnapshot, ApplyRemoteEvent.  The snapshot's token
\* is that of every active target, so each of them has a change.  A token is put
\* on disk at once if documents changed or there was none.
Raised(v) ==
  LET changed == Changed
      again == {t \in resets : listen[t] # No}
  IN  /\ keys' = [t \in Targets |-> IF t \in changed
                   THEN (keys[t] \cup OfKind(t, "added")) \ OfKind(t, "removed")
                   ELSE keys[t]]
      /\ data' = [t \in Targets |-> IF t \in changed THEN v ELSE data[t]]
      /\ \E held \in SUBSET {t \in changed : data[t] # 0 /\ OfKind(t, "none") = Docs} :
           /\ saved' = [t \in Targets |-> IF t \in changed \ held THEN v ELSE saved[t]]
           /\ doubt' = [t \in Targets |->
                          IF doubt[t] = "lost" THEN "lost"
                          ELSE IF t \in again THEN "mismatch"
                          ELSE IF t \in changed \ held THEN "none" ELSE doubt[t]]
      /\ listen' = [t \in Targets |-> IF t \in again THEN 0
                     ELSE IF t \in changed THEN v ELSE listen[t]]
      /\ synced' = [t \in Targets |-> IF t \in changed
                     THEN (IF agg[t].current THEN v ELSE 0) ELSE synced[t]]
      /\ agg' = [t \in Targets |->
                   LET s == IF t \in changed
                            THEN [agg[t] EXCEPT !.docs = NewState.docs]
                            ELSE agg[t]
                   IN  IF t \in again THEN [s EXCEPT !.outstanding = @ + 2] ELSE s]
      /\ up' = up \o Rewatch(SetToSeq(again))
      /\ resets' = {}
      /\ last' = v

\* A target change without targets: a token for all active targets, and a version
\* that raises a snapshot unless it is older than the last.
Snapshot(v, ms) ==
  /\ down' = ms
  /\ IF v >= last THEN Raised(v)
                  ELSE UNCHANGED <<agg, up, listen, resets, disk, synced, doubt>>
  /\ UNCHANGED <<server, open, bounds>>

Receive ==
  /\ down # <<>>
  /\ LET m == Head(down)
         ms == Tail(down)
     IN  \/ m.kind = "added" /\ Added(m.t, ms)
         \/ m.kind = "removed" /\ Removed(m.t, ms)
         \/ m.kind = "current" /\ Current(m.t, ms)
         \/ m.kind \in {"in", "out"} /\ Document(m.t, m.d, m.kind = "in", ms)
         \/ m.kind = "filter" /\ Filter(m.t, m.n, ms)
         \/ m.kind = "snapshot" /\ Snapshot(m.n, ms)
         \/ m.kind = "rejected" /\ Rejected(m.t, ms)

-----------------------------------------------------------------------------
\* The server.  It takes the requests in order and answers each.
Msg(kind, t, d, n) == [kind |-> kind, t |-> t, d |-> d, n |-> n]
AnyDoc == CHOOSE d \in Docs : TRUE
AnyTarget == CHOOSE t \in Targets : TRUE

ServerChange ==
  /\ Now < MaxVersion
  /\ \E m \in Results : m # hist[Now] /\ hist' = Append(hist, m)
  /\ UNCHANGED <<mode, serving, up, down, open, listen, agg, resets, disk, synced, doubt, bounds>>

ServerTakes ==
  /\ up # <<>>
  /\ LET r == Head(up)
     IN  /\ up' = Tail(up)
         /\ serving' = [serving EXCEPT ![r.t] =
                          IF r.op = "watch" THEN [at |-> r.token, fresh |-> TRUE] ELSE Unserved]
         /\ down' = Append(down, Msg(IF r.op = "watch" THEN "added" ELSE "removed", r.t, AnyDoc, 0))
  /\ UNCHANGED <<mode, hist, open, listen, agg, resets, disk, synced, doubt, bounds>>

\* A count stands for what was removed.
Counted(t) == serving[t].fresh /\ serving[t].at > 0 /\ mode = "filters"

\* What brings target t from what the client was told to now.
News(t) ==
  LET told == Matching(serving[t].at, t)
      now == Matching(Now, t)
  IN  {Msg("in", t, d, 0) : d \in now \ told} \cup
        {Msg("out", t, d, 0) : d \in IF Counted(t) THEN {} ELSE told \ now}

\* All targets are brought to now, then there is a global snapshot.
ServerPushes ==
  LET served == {t \in Targets : serving[t].at # No}
      fresh == {t \in served : serving[t].fresh}
      counted == {t \in served : Counted(t)}
  IN  /\ \E t \in served : serving[t].fresh \/ serving[t].at < Now
      /\ down' = down
           \o SetToSeq(UNION {News(t) : t \in served})
           \o SetToSeq({Msg("current", t, AnyDoc, Now) : t \in fresh})
           \o SetToSeq({Msg("filter", t, AnyDoc, Cardinality(Matching(Now, t))) : t \in counted})
           \o <<Msg("snapshot", AnyTarget, AnyDoc, Now)>>
      /\ serving' = [t \in Targets |-> IF t \in served
                       THEN [at |-> Now, fresh |-> FALSE] ELSE serving[t]]
      /\ UNCHANGED <<mode, hist, up, open, listen, agg, resets, disk, synced, doubt, bounds>>

ServerRejects(t) ==
  /\ mode = "rejects" /\ breaks < MaxBreaks[mode]
  /\ breaks' = breaks + 1
  /\ serving[t].at # No
  /\ serving' = [serving EXCEPT ![t] = Unserved]
  /\ down' = Append(down, Msg("rejected", t, AnyDoc, 0))
  /\ UNCHANGED <<mode, hist, up, open, listen, agg, resets, disk, synced, doubt, listens>>

Next ==
  \/ \E t \in Targets : Listen(t) \/ StopListening(t) \/ ServerRejects(t)
  \/ Open \/ Break \/ Restart
  \/ Receive
  \/ ServerChange \/ ServerTakes \/ ServerPushes

Spec == Init /\ [][Next]_vars

\* The client opens the stream and reads it, the server takes requests and serves.
FairSpec == Spec /\ WF_vars(Open \/ Receive) /\ WF_vars(ServerTakes \/ ServerPushes)

-----------------------------------------------------------------------------
\* A view that was told it is current at a version has exactly the documents that
\* matched at that version, through mismatches, breaks, restarts and listens again
\* (remote_event.cc:127-186, 208-243; remote_store.cc:272-352); but for a target
\* that was listened to again before a mismatch was repaired, or rejected for what an
\* earlier listen had asked.
SyncedIsExact ==
  \A t \in Targets :
    doubt[t] # "lost" /\ synced[t] # 0 => keys[t] = Matching(synced[t], t)

\* The token a target is resumed from tells what is on disk, with the same exception:
\* the server need only send what changed since (local_store.cc:280-298, 330-360).
HonestToken ==
  \A t \in Targets :
    doubt[t] # "lost" /\ listen[t] \notin {No, 0} => keys[t] = Matching(listen[t], t)

\* A target that is listened to becomes current, once the stream stays up, unless a
\* rejection of an earlier listen reached it (remote_store.cc:354-372).
Syncs ==
  \A t \in Targets :
    listen[t] # No ~> \/ synced[t] # 0 \/ listen[t] = No
                      \/ mode = "rejects" /\ doubt[t] = "lost"
=============================================================================

------------------------- MODULE TransactionRunner -------------------------
(***************************************************************************)
(* Transactions of the Firestore client.                                   *)
(*                                                                         *)
(* The update function reads documents and queues writes.  What it read    *)
(* goes with the writes as preconditions, and the server applies all of    *)
(* them or none.  A failed attempt that may succeed later is run again,    *)
(* from the start, MaxAttempts times in all.  An answer can be lost, and a *)
(* commit given up can still arrive.                                       *)
(*                                                                         *)
(* A document is its version, 0 when there is none.                        *)
(***************************************************************************)
EXTENDS Integers, Sequences, FiniteSets, SequencesExt, Functions

CONSTANTS Txns, Keys,
          MaxAttempts,   \* kMaxAttemptsCount, 5 in the code
          MaxWrites,     \* bound: writes queued by one attempt
          MaxAbandoned   \* bound: commits given up that are still under way

ASSUME TransactionAssumption ==
  /\ IsFiniteSet(Txns) /\ IsFiniteSet(Keys)
  /\ MaxAttempts \in Nat \ {0} /\ MaxWrites \in Nat /\ MaxAbandoned \in Nat

Unread == -1

VARIABLES
  db,         \* the server's documents
  clock,      \* the server's last version
  phase,      \* of each transaction
  left,       \* attempts_remaining_
  reads,      \* read_versions_ of the attempt
  muts,       \* mutations_ of the attempt
  refused,    \* last_write_error_ is set
  abandoned,  \* commits given up that may still arrive
  applied     \* the transactions some attempt of which was applied (observed)

vars == <<db, clock, phase, left, reads, muts, refused, abandoned, applied>>

\* Preconditions: none, the document exists, it has this version.
NoPre == [kind |-> "none", version |-> 0]
Exists == [kind |-> "exists", version |-> 0]
UpdateTime(v) == [kind |-> "time", version |-> v]

MaxClock == 1 + MaxAttempts * Cardinality(Txns)
Version == 0..MaxClock
Pre == [kind: {"none", "exists", "time"}, version: Version]
Mutation == [key: Keys, op: {"set", "update", "delete", "verify"}, pre: Pre]

TypeOK ==
  /\ db \in [Keys -> Version] /\ clock \in Version
  /\ phase \in [Txns -> {"running", "committing", "ok", "failed"}]
  /\ left \in [Txns -> 0..MaxAttempts - 1]
  /\ reads \in [Txns -> [Keys -> Version \cup {Unread}]]
  /\ muts \in [Txns -> Seq(Mutation)]
  /\ \A t \in Txns : Len(muts[t]) <= MaxWrites + Cardinality(Keys)
  /\ refused \in [Txns -> BOOLEAN]
  /\ applied \subseteq Txns
  /\ \A a \in abandoned : /\ a.by \in Txns /\ a.muts \in Seq(Mutation)
                            /\ a.reads \in [Keys -> Version \cup {Unread}]

Init ==
  /\ db \in [Keys -> {0, 1}] /\ clock = 1
  /\ phase = [t \in Txns |-> "running"]
  /\ left = [t \in Txns |-> MaxAttempts - 1]
  /\ reads = [t \in Txns |-> [k \in Keys |-> Unread]]
  /\ muts = [t \in Txns |-> <<>>]
  /\ refused = [t \in Txns |-> FALSE]
  /\ abandoned = {} /\ applied = {}

-----------------------------------------------------------------------------
\* The attempt's transaction is gone; the next has one of its own.
Drop(t) ==
  /\ reads' = [reads EXCEPT ![t] = [k \in Keys |-> Unread]]
  /\ muts' = [muts EXCEPT ![t] = <<>>]
  /\ refused' = [refused EXCEPT ![t] = FALSE]

\* Run: one attempt less.  The backoff is part of the attempt's running.
Run(t) ==
  /\ left' = [left EXCEPT ![t] = @ - 1]
  /\ phase' = [phase EXCEPT ![t] = "running"]

\* Mutant: attempts left or a retryable error suffice to go on.
HandleEveryError(t, retryable) ==
  /\ Drop(t)
  /\ IF left[t] > 0 \/ retryable
     THEN Run(t)
     ELSE phase' = [phase EXCEPT ![t] = "failed"] /\ UNCHANGED left

HandleTransactionError(t, retryable) ==
  /\ Drop(t)
  /\ IF left[t] > 0 /\ retryable
     THEN Run(t)
     ELSE phase' = [phase EXCEPT ![t] = "failed"] /\ UNCHANGED left

\* A read after a write is an invalid argument; a read that finds another
\* version than an earlier one aborts the attempt.
Lookup(t, k) ==
  /\ phase[t] = "running"
  /\ CASE muts[t] # <<>> ->
            HandleTransactionError(t, FALSE)
       [] muts[t] = <<>> /\ reads[t][k] \notin {Unread, db[k]} ->
            HandleTransactionError(t, TRUE)
       [] OTHER ->
            /\ reads' = [reads EXCEPT ![t][k] = db[k]]
            /\ UNCHANGED <<left, phase, muts, refused>>
  /\ UNCHANGED <<db, clock, abandoned, applied>>

\* The update function or a lookup fails.
UpdateFails(t, retryable) ==
  /\ phase[t] = "running"
  /\ HandleTransactionError(t, retryable)
  /\ UNCHANGED <<db, clock, abandoned, applied>>

Written(t) == {muts[t][i].key : i \in DOMAIN muts[t]}
FirstWrite(t, k) == k \notin Written(t) /\ reads[t][k] # Unread

CreatePrecondition(t, k) ==
  IF FirstWrite(t, k) THEN UpdateTime(reads[t][k]) ELSE NoPre

Write(t, k, op, pre) ==
  /\ Len(muts[t]) < MaxWrites
  /\ muts' = [muts EXCEPT ![t] = Append(@, [key |-> k, op |-> op, pre |-> pre])]
  /\ UNCHANGED <<db, clock, phase, left, reads, abandoned, applied>>

SetOrDelete(t, k, op) ==
  /\ phase[t] = "running"
  /\ Write(t, k, op, CreatePrecondition(t, k))
  /\ UNCHANGED refused

\* An update of a document that was read as absent is refused at once.
Update(t, k) ==
  /\ phase[t] = "running"
  /\ IF FirstWrite(t, k) /\ reads[t][k] = 0
     THEN /\ refused' = [refused EXCEPT ![t] = TRUE]
          /\ UNCHANGED <<db, clock, phase, left, reads, muts, abandoned, applied>>
     ELSE /\ Write(t, k, "update", IF FirstWrite(t, k) THEN UpdateTime(reads[t][k]) ELSE Exists)
          /\ UNCHANGED refused

\* Mutant: what was only read is not verified.
CommitWrites(t) ==
  /\ phase[t] = "running"
  /\ IF refused[t]
     THEN HandleTransactionError(t, FALSE)
     ELSE phase' = [phase EXCEPT ![t] = "committing"] /\ UNCHANGED <<left, reads, muts, refused>>
  /\ UNCHANGED <<db, clock, abandoned, applied>>

\* What was read and not written is verified.
Unwritten(t) == {k \in Keys : reads[t][k] # Unread} \ Written(t)
Verify(t) ==
  {[key |-> k, op |-> "verify", pre |-> UpdateTime(reads[t][k])] : k \in Unwritten(t)}

Commit(t) ==
  /\ phase[t] = "running"
  /\ IF refused[t]
     THEN HandleTransactionError(t, FALSE)
     ELSE /\ phase' = [phase EXCEPT ![t] = "committing"]
          /\ muts' = [muts EXCEPT ![t] = @ \o SetToSeq(Verify(t))]
          /\ UNCHANGED <<left, reads, refused>>
  /\ UNCHANGED <<db, clock, abandoned, applied>>

-----------------------------------------------------------------------------
\* The server.  The version of document k after the first n mutations of ms, whose
\* writes get version v.
After(ms, v, n, k) ==
  LET writes == {i \in 1..n : ms[i].key = k /\ ms[i].op # "verify"}
  IN  IF writes = {} THEN db[k]
      ELSE IF ms[Max(writes)].op = "delete" THEN 0 ELSE v

Holds(pre, version) ==
  CASE pre.kind = "none" -> TRUE
    [] pre.kind = "exists" -> version # 0
    [] pre.kind = "time" -> version = pre.version

\* The mutations whose preconditions do not hold when their turn comes.
Broken(ms) ==
  {i \in DOMAIN ms : ~Holds(ms[i].pre, After(ms, clock + 1, i - 1, ms[i].key))}

Apply(t, ms) ==
  /\ Broken(ms) = {}
  /\ clock < MaxClock
  /\ db' = [k \in Keys |-> After(ms, clock + 1, Len(ms), k)]
  /\ clock' = clock + 1
  /\ applied' = applied \cup {t}

\* A commit is applied and answered.
Committed(t) ==
  /\ phase[t] = "committing"
  /\ Apply(t, muts[t])
  /\ phase' = [phase EXCEPT ![t] = "ok"]
  /\ Drop(t)
  /\ UNCHANGED <<left, abandoned>>

\* A commit is refused: a version that changed may be read again, a document
\* that is not there to be updated is a permanent error.
Refused(t) ==
  /\ phase[t] = "committing"
  /\ Broken(muts[t]) # {}
  /\ HandleTransactionError(t, \E i \in Broken(muts[t]) : muts[t][i].pre.kind = "time")
  /\ UNCHANGED <<db, clock, abandoned, applied>>

\* Mutant: the end of the call is taken for its success.
UnavailableIsDone(t) ==
  /\ phase[t] = "committing"
  /\ Cardinality(abandoned) < MaxAbandoned
  /\ Drop(t)
  /\ phase' = [phase EXCEPT ![t] = "ok"]
  /\ abandoned' = abandoned \cup {[by |-> t, reads |-> reads[t], muts |-> muts[t]]}
  /\ UNCHANGED <<db, clock, left, applied>>

\* There is no answer: the commit may still arrive, or not.
Unavailable(t) ==
  /\ phase[t] = "committing"
  /\ Cardinality(abandoned) < MaxAbandoned
  /\ HandleTransactionError(t, TRUE)
  /\ abandoned' = abandoned \cup {[by |-> t, reads |-> reads[t], muts |-> muts[t]]}
  /\ UNCHANGED <<db, clock, applied>>

ArrivesLate(a) ==
  /\ abandoned' = abandoned \ {a}
  /\ IF Broken(a.muts) = {}
     THEN Apply(a.by, a.muts)
     ELSE UNCHANGED <<db, clock, applied>>
  /\ UNCHANGED <<phase, left, reads, muts, refused>>

Answer(t) == Committed(t) \/ Refused(t)

Next ==
  \/ \E t \in Txns :
       \/ Commit(t) \/ Answer(t) \/ Unavailable(t)
       \/ \E retryable \in BOOLEAN : UpdateFails(t, retryable)
       \/ \E k \in Keys : \/ Lookup(t, k) \/ Update(t, k)
                          \/ \E op \in {"set", "delete"} : SetOrDelete(t, k, op)
  \/ \E a \in abandoned : ArrivesLate(a)

Spec == Init /\ [][Next]_vars

-----------------------------------------------------------------------------
\* Every commit that changes the server finds all the documents it read as it
\* read them, those it wrote and those it did not, also when it arrives late:
\* the transactions are serial (transaction.cc:54-79, 123-160, 184-210).
Serial ==
  [][clock' # clock =>
       \A k \in Keys :
         /\ \A t \in Txns : Committed(t) /\ reads[t][k] # Unread => db[k] = reads[t][k]
         /\ \A a \in abandoned :
              ArrivesLate(a) /\ a.reads[k] # Unread => db[k] = a.reads[k]]_vars

\* A transaction that is reported as done was applied
\* (transaction_runner.cc:77-106).
OkIsApplied == \A t \in Txns : phase[t] = "ok" => t \in applied
=============================================================================

------------------------- MODULE TransactionProofs -------------------------
(***************************************************************************)
(* Proofs about TransactionRunner, for any finite sets of transactions and *)
(* documents and any number of attempts.                                   *)
(***************************************************************************)
EXTENDS TransactionRunner, FiniteSetTheorems, SequenceTheorems, TLAPS

\* The mutations ms of an attempt that read k as rd[k] begin with a precondition on k that
\* says so: what comes before changes k not.
Guard(ms, rd, k) ==
  \E i \in 1..Len(ms) :
    /\ ms[i].key = k /\ ms[i].pre = UpdateTime(rd[k])
    /\ \A j \in 1..(i - 1) : ms[j].key = k => ms[j].op = "verify"

GuardedIn(t) ==
  \A k \in Keys : reads[t][k] # Unread =>
    /\ phase[t] = "running" /\ k \in Written(t) => Guard(muts[t], reads[t], k)
    /\ phase[t] = "committing" => Guard(muts[t], reads[t], k)

\* What was read is guarded: at the first write, at the commit at the latest, and for ever
\* in a commit that was given up.
Guarded ==
  /\ \A t \in Txns : GuardedIn(t)
  /\ \A a \in abandoned, k \in Keys : a.reads[k] # Unread => Guard(a.muts, a.reads, k)

\* An attempt that runs has room for what it has to verify.
Queued == \A t \in Txns : phase[t] = "running" => Len(muts[t]) <= MaxWrites

Inv == TypeOK /\ Queued /\ Guarded /\ OkIsApplied

-----------------------------------------------------------------------------
(***************************************************************************)
(* Sets, sequences and numbers.                                            *)
(***************************************************************************)

\* SetToSeq lists a finite set: all of it, and each element once.
LEMMA SetToSeqLists ==
  ASSUME NEW S, IsFiniteSet(S)
  PROVE  /\ SetToSeq(S) \in Seq(S) /\ Len(SetToSeq(S)) = Cardinality(S)
         /\ \A x \in S : \E i \in 1..Len(SetToSeq(S)) : SetToSeq(S)[i] = x
<1> DEFINE n == Cardinality(S)
           f == SetToSeq(S)
<1>1. n \in Nat /\ ExistsBijection(1..n, S)
  BY FS_CardinalityType
<1>2. PICK g : g \in Bijection(1..n, S)
  BY <1>1 DEF ExistsBijection
<1>3. g \in [1..n -> S] /\ IsInjective(g)
  BY <1>2 DEF Bijection, Injection
<1>4. f \in [1..n -> S] /\ IsInjective(f)
  BY <1>3 DEF SetToSeq
<1> HIDE DEF f, n
<1>5. f \in Seq(S) /\ Len(f) = n
  <2>1. f \in Seq(S)
    BY <1>1, <1>4, SeqDef
  <2>2. DOMAIN f = 1..n /\ DOMAIN f = 1..Len(f) /\ Len(f) \in Nat
    BY <1>4, <2>1, LenProperties
  <2> QED BY <1>1, <2>1, <2>2
<1>6. Cardinality(1..n) = n /\ IsFiniteSet(1..n)
  BY <1>1, FS_Interval
<1>7. f \in Injection(1..n, S)
  BY <1>4 DEF Injection
<1>8. f \in Surjection(1..n, S)
  BY <1>6, <1>7, FS_Injection DEF n
<1>9. \A x \in S : \E i \in 1..n : f[i] = x
  BY <1>8 DEF Surjection
<1> QED BY <1>5, <1>9 DEF f, n

\* Versions are numbers, and so is the last one.
LEMMA Numbers ==
  /\ MaxClock \in Nat \ {0} /\ Cardinality(Keys) \in Nat
  /\ MaxAttempts \in Nat \ {0} /\ MaxWrites \in Nat /\ Version \subseteq Nat
<1>1. Cardinality(Txns) \in Nat /\ Cardinality(Keys) \in Nat
  BY TransactionAssumption, FS_CardinalityType
<1>2. MaxAttempts * Cardinality(Txns) \in Nat
  BY <1>1, TransactionAssumption
<1>3. MaxClock \in Nat \ {0}
  BY <1>2 DEF MaxClock
<1> QED BY <1>1, <1>3, TransactionAssumption DEF Version

\* A precondition that was first stays first when mutations are added.
LEMMA GuardStays ==
  ASSUME NEW k, NEW rd, NEW ms \in Seq(Mutation), NEW more \in Seq(Mutation), Guard(ms, rd, k)
  PROVE  Guard(ms \o more, rd, k)
<1>1. PICK i \in 1..Len(ms) :
        /\ ms[i].key = k /\ ms[i].pre = UpdateTime(rd[k])
        /\ \A j \in 1..(i - 1) : ms[j].key = k => ms[j].op = "verify"
  BY DEF Guard
<1>2. Len(ms) \in Nat /\ Len(more) \in Nat
  OBVIOUS
<1>3. /\ Len(ms \o more) = Len(ms) + Len(more)
      /\ \A j \in 1..Len(ms) + Len(more) :
           (ms \o more)[j] = IF j <= Len(ms) THEN ms[j] ELSE more[j - Len(ms)]
  BY ConcatProperties, Zenon
<1>4. i \in 1..Len(ms \o more) /\ \A j \in 1..i : (ms \o more)[j] = ms[j]
  BY <1>2, <1>3
<1> QED BY <1>1, <1>4 DEF Guard

\* One mutation more.
LEMMA GuardAppend ==
  ASSUME NEW k, NEW rd, NEW ms \in Seq(Mutation), NEW m \in Mutation, Guard(ms, rd, k)
  PROVE  Guard(Append(ms, m), rd, k)
<1>1. PICK i \in 1..Len(ms) :
        /\ ms[i].key = k /\ ms[i].pre = UpdateTime(rd[k])
        /\ \A j \in 1..(i - 1) : ms[j].key = k => ms[j].op = "verify"
  BY DEF Guard
<1>2. /\ Len(Append(ms, m)) = Len(ms) + 1
      /\ \A j \in 1..Len(ms) : Append(ms, m)[j] = ms[j]
  BY AppendProperties
<1>3. i \in 1..Len(Append(ms, m)) /\ \A j \in 1..i : Append(ms, m)[j] = ms[j]
  BY <1>2
<1> QED BY <1>1, <1>3 DEF Guard

\* A guarded document is found as it was read when nothing is broken.
LEMMA GuardHolds ==
  ASSUME NEW k \in Keys, NEW rd, NEW ms \in Seq(Mutation), Guard(ms, rd, k), Broken(ms) = {}
  PROVE  db[k] = rd[k]
<1>1. PICK i \in 1..Len(ms) :
        /\ ms[i].key = k /\ ms[i].pre = UpdateTime(rd[k])
        /\ \A j \in 1..(i - 1) : ms[j].key = k => ms[j].op = "verify"
  BY DEF Guard
<1>2. i \in DOMAIN ms
  BY LenProperties
<1>3. Holds(ms[i].pre, After(ms, clock + 1, i - 1, k))
  BY <1>1, <1>2 DEF Broken
<1>4. {j \in 1..(i - 1) : ms[j].key = k /\ ms[j].op # "verify"} = {}
  BY <1>1
<1>5. After(ms, clock + 1, i - 1, k) = db[k]
  BY <1>4 DEF After
<1> QED BY <1>1, <1>3, <1>5 DEF Holds, UpdateTime

\* What a commit leaves in a document is a version.
LEMMA AfterIsVersion ==
  ASSUME db \in [Keys -> Version], clock \in Version, clock < MaxClock,
         NEW ms, NEW n, NEW k \in Keys
  PROVE  After(ms, clock + 1, n, k) \in Version
<1>1. db[k] \in Version /\ 0 \in Version /\ clock + 1 \in Version
  BY Numbers DEF Version
<1> QED BY <1>1 DEF After

\* What Commit adds: a precondition for each document that was read and not written.
LEMMA VerifyList ==
  ASSUME TypeOK, NEW t \in Txns
  PROVE  LET s == SetToSeq(Verify(t)) IN
           /\ s \in Seq(Mutation) /\ Len(s) <= Cardinality(Keys)
           /\ \A i \in 1..Len(s) : s[i].op = "verify"
           /\ \A k \in Unwritten(t) : \E i \in 1..Len(s) :
                s[i].key = k /\ s[i].pre = UpdateTime(reads[t][k])
<1> DEFINE V(k) == [key |-> k, op |-> "verify", pre |-> UpdateTime(reads[t][k])]
           s == SetToSeq(Verify(t))
<1>1. Unwritten(t) \subseteq Keys /\ \A k \in Unwritten(t) : reads[t][k] \in Version
  BY DEF Unwritten, TypeOK
<1>2. \A m \in Verify(t) : m \in Mutation /\ m.op = "verify"
  BY <1>1 DEF Verify, Mutation, Pre, UpdateTime
<1>3. IsFiniteSet(Unwritten(t)) /\ Cardinality(Unwritten(t)) <= Cardinality(Keys)
  BY <1>1, FS_Subset, TransactionAssumption
<1>4. [k \in Unwritten(t) |-> V(k)] \in Surjection(Unwritten(t), Verify(t))
  BY DEF Surjection, Verify
<1>5. IsFiniteSet(Verify(t)) /\ Cardinality(Verify(t)) <= Cardinality(Unwritten(t))
  BY <1>3, <1>4, FS_Surjection
<1>6. /\ s \in Seq(Verify(t)) /\ Len(s) = Cardinality(Verify(t))
      /\ \A m \in Verify(t) : \E i \in 1..Len(s) : s[i] = m
  BY <1>5, SetToSeqLists
<1>7. Cardinality(Verify(t)) \in Nat /\ Cardinality(Unwritten(t)) \in Nat
  BY <1>3, <1>5, FS_CardinalityType
<1>8. \A k \in Unwritten(t) : V(k) \in Verify(t)
  BY DEF Verify
<1> HIDE DEF s
<1>9. \A i \in 1..Len(s) : s[i] \in Verify(t)
  BY <1>6
<1>10. s \in Seq(Mutation)
  BY <1>2, <1>6, <1>9
<1>11. \A k \in Unwritten(t) : \E i \in 1..Len(s) :
         s[i].key = k /\ s[i].pre = UpdateTime(reads[t][k])
  <2> SUFFICES ASSUME NEW k \in Unwritten(t)
               PROVE  \E i \in 1..Len(s) : s[i].key = k /\ s[i].pre = UpdateTime(reads[t][k])
    OBVIOUS
  <2>1. PICK i \in 1..Len(s) : s[i] = V(k)
    BY <1>6, <1>8
  <2> QED BY <2>1
<1>12. Len(s) <= Cardinality(Keys)
  BY <1>3, <1>5, <1>6, <1>7, Numbers
<1> QED BY <1>2, <1>9, <1>10, <1>11, <1>12 DEF s

\* The mutations of a commit guard all that its attempt read.
LEMMA CommitGuards ==
  ASSUME TypeOK, NEW t \in Txns, phase[t] = "running", GuardedIn(t),
         NEW k \in Keys, reads[t][k] # Unread
  PROVE  Guard(muts[t] \o SetToSeq(Verify(t)), reads[t], k)
<1> DEFINE ms == muts[t]
           s == SetToSeq(Verify(t))
<1>1. ms \in Seq(Mutation)
  BY DEF TypeOK
<1>2. /\ s \in Seq(Mutation) /\ \A i \in 1..Len(s) : s[i].op = "verify"
      /\ \A l \in Unwritten(t) : \E i \in 1..Len(s) :
           s[i].key = l /\ s[i].pre = UpdateTime(reads[t][l])
  BY VerifyList
<1> HIDE DEF s
<1>3. CASE k \in Written(t)
  <2>1. Guard(ms, reads[t], k)
    BY <1>3 DEF GuardedIn
  <2> QED BY <1>1, <1>2, <2>1, GuardStays DEF s
<1>4. CASE k \notin Written(t)
  <2>1. PICK i \in 1..Len(s) : s[i].key = k /\ s[i].pre = UpdateTime(reads[t][k])
    BY <1>2, <1>4 DEF Unwritten
  <2>2. DOMAIN ms = 1..Len(ms) /\ Len(ms) \in Nat /\ Len(s) \in Nat
    BY <1>1, <1>2, LenProperties
  <2>3. \A j \in 1..Len(ms) : ms[j].key # k
    BY <1>4, <2>2 DEF Written
  <2>0. ms \in Seq(Mutation) /\ s \in Seq(Mutation)
    BY <1>1, <1>2
  <2> HIDE DEF ms
  <2>4. /\ Len(ms \o s) = Len(ms) + Len(s)
        /\ \A j \in 1..Len(ms) + Len(s) :
             (ms \o s)[j] = IF j <= Len(ms) THEN ms[j] ELSE s[j - Len(ms)]
    BY <2>0, ConcatProperties, Zenon
  <2>5. Len(ms) + i \in 1..Len(ms \o s) /\ (ms \o s)[Len(ms) + i] = s[i]
    BY <2>2, <2>4
  <2>6. ASSUME NEW j \in 1..(Len(ms) + i - 1), (ms \o s)[j].key = k
        PROVE  (ms \o s)[j].op = "verify"
    <3>1. j \in 1..Len(ms) + Len(s)
      BY <2>2
    <3>2. CASE j <= Len(ms)
      BY <2>2, <2>3, <2>4, <2>6, <3>1, <3>2
    <3>3. CASE j > Len(ms)
      <4>1. j - Len(ms) \in 1..Len(s) /\ (ms \o s)[j] = s[j - Len(ms)]
        BY <2>2, <2>4, <3>1, <3>3
      <4> QED BY <1>2, <4>1
    <3> QED BY <2>2, <3>2, <3>3
  <2>7. Guard(ms \o s, reads[t], k)
    BY <2>1, <2>5, <2>6 DEF Guard
  <2> QED BY <2>7 DEF ms, s
<1> QED BY <1>3, <1>4

-----------------------------------------------------------------------------
(***************************************************************************)
(* The invariant in three parts: the attempts, the server and the commits  *)
(* under way.                                                              *)
(***************************************************************************)

Attempts ==
  /\ phase \in [Txns -> {"running", "committing", "ok", "failed"}]
  /\ left \in [Txns -> 0..MaxAttempts - 1]
  /\ reads \in [Txns -> [Keys -> Version \cup {Unread}]]
  /\ muts \in [Txns -> Seq(Mutation)]
  /\ \A t \in Txns : Len(muts[t]) <= MaxWrites + Cardinality(Keys)
  /\ refused \in [Txns -> BOOLEAN]
  /\ Queued
  /\ \A t \in Txns : GuardedIn(t)

Server == db \in [Keys -> Version] /\ clock \in Version /\ applied \subseteq Txns

Late ==
  \A a \in abandoned : /\ a.by \in Txns /\ a.muts \in Seq(Mutation)
                       /\ a.reads \in [Keys -> Version \cup {Unread}]
                       /\ \A k \in Keys : a.reads[k] # Unread => Guard(a.muts, a.reads, k)

LEMMA Parts == Inv <=> Attempts /\ Server /\ Late /\ OkIsApplied
BY DEF Inv, TypeOK, Guarded, Attempts, Server, Late

\* A transaction whose attempt is left alone.
LEMMA GuardedElsewhere ==
  ASSUME NEW u \in Txns, GuardedIn(u),
         phase'[u] = phase[u], reads'[u] = reads[u], muts'[u] = muts[u]
  PROVE  GuardedIn(u)'
BY DEF GuardedIn, Written, Guard

\* The attempt is dropped, and what it read with it.
LEMMA DropStep ==
  ASSUME Attempts, NEW t \in Txns, Drop(t), NEW x \in {"running", "ok", "failed"},
         phase' = [phase EXCEPT ![t] = x], left' \in [Txns -> 0..MaxAttempts - 1]
  PROVE  Attempts'
<1>1. /\ phase' \in [Txns -> {"running", "committing", "ok", "failed"}]
      /\ reads' \in [Txns -> [Keys -> Version \cup {Unread}]]
      /\ muts' \in [Txns -> Seq(Mutation)]
      /\ refused' \in [Txns -> BOOLEAN]
  BY DEF Attempts, Drop
<1>2. muts'[t] = <<>> /\ \A k \in Keys : reads'[t][k] = Unread
  BY DEF Attempts, Drop
<1>3. \A u \in Txns \ {t} : phase'[u] = phase[u] /\ reads'[u] = reads[u] /\ muts'[u] = muts[u]
  BY DEF Attempts, Drop
<1>4. \A u \in Txns : Len(muts'[u]) <= MaxWrites + Cardinality(Keys)
                    /\ (phase'[u] = "running" => Len(muts'[u]) <= MaxWrites)
  <2>1. Len(muts'[t]) = 0
    BY <1>2
  <2> QED BY <1>3, <2>1, Numbers DEF Attempts, Queued
<1>5. \A u \in Txns : GuardedIn(u)'
  <2>1. GuardedIn(t)'
    BY <1>2 DEF GuardedIn
  <2>2. \A u \in Txns \ {t} : GuardedIn(u)'
    BY <1>3, GuardedElsewhere DEF Attempts
  <2> QED BY <2>1, <2>2
<1> QED BY <1>1, <1>4, <1>5 DEF Attempts, Queued

\* An error makes a new attempt of it, or an end.
LEMMA ErrorStep ==
  ASSUME Attempts, NEW t \in Txns, NEW retryable, HandleTransactionError(t, retryable)
  PROVE  Attempts' /\ \A u \in Txns : phase'[u] = "ok" => phase[u] = "ok"
<1>1. Drop(t)
  BY DEF HandleTransactionError
<1>2. left[t] \in 0..MaxAttempts - 1 /\ left \in [Txns -> 0..MaxAttempts - 1]
      /\ MaxAttempts \in Nat
  BY Numbers DEF Attempts
<1>3. CASE left[t] > 0 /\ retryable
  <2>1. phase' = [phase EXCEPT ![t] = "running"] /\ left' = [left EXCEPT ![t] = @ - 1]
    BY <1>3 DEF HandleTransactionError, Run
  <2>2. left[t] - 1 \in 0..MaxAttempts - 1
    BY <1>2, <1>3
  <2>3. left' \in [Txns -> 0..MaxAttempts - 1]
    BY <1>2, <2>1, <2>2
  <2>4. Attempts'
    BY <1>1, <2>1, <2>3, DropStep
  <2>5. \A u \in Txns : phase'[u] = "ok" => phase[u] = "ok"
    BY <2>1 DEF Attempts
  <2> QED BY <2>4, <2>5
<1>4. CASE ~(left[t] > 0 /\ retryable)
  <2>1. phase' = [phase EXCEPT ![t] = "failed"] /\ left' = left
    BY <1>4 DEF HandleTransactionError
  <2>2. Attempts'
    BY <1>1, <1>2, <2>1, DropStep
  <2>3. \A u \in Txns : phase'[u] = "ok" => phase[u] = "ok"
    BY <2>1 DEF Attempts
  <2> QED BY <2>2, <2>3
<1> QED BY <1>3, <1>4

\* A write is queued; the first one to a document that was read guards it.
LEMMA WriteStep ==
  ASSUME Attempts, NEW t \in Txns, NEW k \in Keys, phase[t] = "running",
         NEW op \in {"set", "update", "delete"}, NEW pre \in Pre,
         FirstWrite(t, k) => pre = UpdateTime(reads[t][k]),
         Write(t, k, op, pre), refused' = refused
  PROVE  Attempts'
<1> DEFINE m == [key |-> k, op |-> op, pre |-> pre]
           ms == muts[t]
<1>1. ms \in Seq(Mutation) /\ m \in Mutation /\ Len(ms) \in Nat /\ Len(ms) < MaxWrites
  <2>1. m \in Mutation
    BY DEF Mutation
  <2>2. ms \in Seq(Mutation) /\ Len(ms) < MaxWrites
    BY DEF Attempts, Write
  <2> QED BY <2>1, <2>2, LenProperties
<1>2. muts' = [muts EXCEPT ![t] = Append(@, m)] /\ phase' = phase /\ left' = left
      /\ reads' = reads
  BY DEF Write
<1>3. muts'[t] = Append(ms, m) /\ \A u \in Txns \ {t} : muts'[u] = muts[u]
  BY <1>2 DEF Attempts
<1> HIDE DEF m
<1>4. /\ Append(ms, m) \in Seq(Mutation) /\ Len(Append(ms, m)) = Len(ms) + 1
      /\ \A j \in 1..Len(ms) : Append(ms, m)[j] = ms[j]
      /\ Append(ms, m)[Len(ms) + 1] = m
  BY <1>1, AppendProperties
<1>5. muts' \in [Txns -> Seq(Mutation)]
  BY <1>2, <1>3, <1>4 DEF Attempts
<1>6. \A u \in Txns : Len(muts'[u]) <= MaxWrites + Cardinality(Keys)
                    /\ (phase'[u] = "running" => Len(muts'[u]) <= MaxWrites)
  <2>1. Len(muts'[t]) <= MaxWrites
    BY <1>1, <1>3, <1>4, Numbers
  <2>2. Len(muts'[t]) \in Nat
    BY <1>1, <1>3, <1>4
  <2> QED BY <1>2, <1>3, <2>1, <2>2, Numbers DEF Attempts, Queued
<1>7. ASSUME NEW l \in Keys, reads[t][l] # Unread, l \in Written(t)'
      PROVE  Guard(Append(ms, m), reads[t], l)
  <2>1. CASE l \in Written(t)
    <3>1. Guard(ms, reads[t], l)
      BY <1>7, <2>1 DEF Attempts, GuardedIn
    <3> QED BY <1>1, <3>1, GuardAppend
  <2>2. CASE l \notin Written(t)
    <3>1. DOMAIN ms = 1..Len(ms) /\ DOMAIN Append(ms, m) = 1..Len(ms) + 1
      BY <1>1, <1>4, LenProperties
    <3>2. \A j \in 1..Len(ms) : ms[j].key # l
      BY <2>2, <3>1 DEF Written
    <3>3. PICK j \in 1..Len(ms) + 1 : Append(ms, m)[j].key = l
      BY <1>3, <1>7, <3>1 DEF Written
    <3>4. j = Len(ms) + 1 /\ m.key = l
      BY <1>1, <1>4, <3>2, <3>3
    <3>5. l = k /\ FirstWrite(t, k)
      BY <1>7, <2>2, <3>4 DEF m, FirstWrite
    <3>6. m.pre = UpdateTime(reads[t][l])
      BY <3>5 DEF m
    <3>7. \A i \in 1..(Len(ms) + 1 - 1) : Append(ms, m)[i].key # l
      BY <1>1, <1>4, <3>2
    <3>8. Len(ms) + 1 \in 1..Len(Append(ms, m))
      BY <1>1, <1>4
    <3> QED BY <1>4, <3>4, <3>6, <3>7, <3>8 DEF Guard
  <2> QED BY <2>1, <2>2
<1>8. GuardedIn(t)'
  BY <1>2, <1>3, <1>7 DEF GuardedIn
<1>9. \A u \in Txns \ {t} : GuardedIn(u)'
  BY <1>2, <1>3, GuardedElsewhere DEF Attempts
<1> QED BY <1>2, <1>5, <1>6, <1>8, <1>9 DEF Attempts, Queued

\* The server applies a commit.
LEMMA ApplyStep ==
  ASSUME Server, NEW t \in Txns, NEW ms, Apply(t, ms)
  PROVE  Server' /\ t \in applied' /\ applied \subseteq applied'
<1>1. \A k \in Keys : After(ms, clock + 1, Len(ms), k) \in Version
  BY AfterIsVersion DEF Server, Apply
<1>2. clock + 1 \in Version
  BY Numbers DEF Server, Apply, Version
<1> QED BY <1>1, <1>2 DEF Server, Apply

-----------------------------------------------------------------------------
(***************************************************************************)
(* The steps.                                                              *)
(***************************************************************************)

LEMMA InitIsInv == Init => Inv
<1> SUFFICES ASSUME Init PROVE Inv
  OBVIOUS
<1>1. 0 \in Version /\ 1 \in Version /\ MaxAttempts - 1 \in 0..MaxAttempts - 1
  BY Numbers DEF Version
<1>2. Server /\ Late /\ OkIsApplied
  BY <1>1 DEF Init, Server, Late, OkIsApplied
<1>3. \A t \in Txns : phase[t] = "running" /\ muts[t] = <<>> /\ \A k \in Keys : reads[t][k] = Unread
  BY DEF Init
<1>4. Attempts
  <2>1. \A t \in Txns : Len(muts[t]) = 0 /\ GuardedIn(t)
    BY <1>3 DEF GuardedIn
  <2>2. \A t \in Txns : Len(muts[t]) <= MaxWrites + Cardinality(Keys)
    BY <2>1, Numbers
  <2>3. Queued
    BY <2>1, Numbers DEF Queued
  <2> QED BY <1>1, <2>1, <2>2, <2>3 DEF Init, Attempts
<1> QED BY <1>2, <1>4, Parts

\* What the client does by itself leaves the server and the commits under way alone.
LEMMA ClientStep ==
  ASSUME Inv, Attempts', UNCHANGED <<db, clock, abandoned, applied>>,
         \A u \in Txns : phase'[u] = "ok" => phase[u] = "ok"
  PROVE  Inv'
<1>1. Server' /\ OkIsApplied' /\ Late'
  BY Parts DEF Server, OkIsApplied, Late, Guard
<1> QED BY <1>1, Parts, PTL

LEMMA LookupStep ==
  ASSUME Inv, NEW t \in Txns, NEW k \in Keys, Lookup(t, k)
  PROVE  Inv'
<1> USE Parts
<1>1. CASE \E r \in BOOLEAN : HandleTransactionError(t, r)
  <2>1. Attempts' /\ \A u \in Txns : phase'[u] = "ok" => phase[u] = "ok"
    BY <1>1, ErrorStep
  <2> QED BY <2>1, ClientStep DEF Lookup
<1>2. CASE /\ muts[t] = <<>>
           /\ reads' = [reads EXCEPT ![t][k] = db[k]]
           /\ UNCHANGED <<left, phase, muts, refused>>
  <2>1. reads' \in [Txns -> [Keys -> Version \cup {Unread}]]
    BY <1>2 DEF Attempts, Server
  <2>2. GuardedIn(t)'
    <3>1. Written(t)' = {}
      BY <1>2 DEF Written
    <3> QED BY <1>2, <3>1 DEF GuardedIn, Lookup
  <2>3. \A u \in Txns \ {t} : GuardedIn(u)'
    BY <1>2, GuardedElsewhere DEF Attempts
  <2>4. Attempts'
    BY <1>2, <2>1, <2>2, <2>3 DEF Attempts, Queued
  <2> QED BY <1>2, <2>4, ClientStep DEF Lookup
<1> QED BY <1>1, <1>2 DEF Lookup

LEMMA WritesStep ==
  ASSUME Inv, NEW t \in Txns, NEW k \in Keys,
         Update(t, k) \/ \E op \in {"set", "delete"} : SetOrDelete(t, k, op)
  PROVE  Inv'
<1> USE Parts
<1>1. reads[t][k] # Unread => UpdateTime(reads[t][k]) \in Pre
  BY DEF Attempts, UpdateTime, Pre
<1>2. NoPre \in Pre /\ Exists \in Pre
  BY Numbers DEF NoPre, Exists, Pre, Version
<1>3. ASSUME NEW op \in {"set", "update", "delete"}, NEW pre \in Pre, phase[t] = "running",
             FirstWrite(t, k) => pre = UpdateTime(reads[t][k]),
             Write(t, k, op, pre), refused' = refused
      PROVE  Inv'
  <2>1. Attempts'
    BY <1>3, WriteStep
  <2> QED BY <1>3, <2>1, ClientStep DEF Write
<1>4. CASE \E op \in {"set", "delete"} : SetOrDelete(t, k, op)
  <2>1. CreatePrecondition(t, k) \in Pre
    BY <1>1, <1>2 DEF CreatePrecondition, FirstWrite
  <2> QED BY <1>3, <1>4, <2>1 DEF SetOrDelete, CreatePrecondition
<1>5. CASE Update(t, k)
  <2>1. CASE FirstWrite(t, k) /\ reads[t][k] = 0
    <3>1. refused' = [refused EXCEPT ![t] = TRUE]
          /\ UNCHANGED <<db, clock, phase, left, reads, muts, abandoned, applied>>
      BY <1>5, <2>1 DEF Update
    <3>2. refused' \in [Txns -> BOOLEAN]
      BY <3>1 DEF Attempts
    <3>3. \A u \in Txns : GuardedIn(u)'
      BY <3>1, GuardedElsewhere DEF Attempts
    <3>4. Attempts'
      BY <3>1, <3>2, <3>3 DEF Attempts, Queued
    <3> QED BY <3>1, <3>4, ClientStep
  <2>2. CASE ~(FirstWrite(t, k) /\ reads[t][k] = 0)
    <3> DEFINE pre == IF FirstWrite(t, k) THEN UpdateTime(reads[t][k]) ELSE Exists
    <3>1. pre \in Pre
      BY <1>1, <1>2 DEF FirstWrite
    <3>2. Write(t, k, "update", pre) /\ refused' = refused /\ phase[t] = "running"
      BY <1>5, <2>2 DEF Update
    <3> QED BY <1>3, <3>1, <3>2
  <2> QED BY <2>1, <2>2
<1> QED BY <1>4, <1>5

LEMMA CommitStep ==
  ASSUME Inv, NEW t \in Txns, Commit(t)
  PROVE  Inv'
<1> USE Parts
<1>1. CASE refused[t]
  <2>1. HandleTransactionError(t, FALSE)
    BY <1>1 DEF Commit
  <2>2. Attempts' /\ \A u \in Txns : phase'[u] = "ok" => phase[u] = "ok"
    BY <2>1, ErrorStep
  <2> QED BY <2>2, ClientStep DEF Commit
<1>2. CASE ~refused[t]
  <2> DEFINE s == SetToSeq(Verify(t))
  <2>1. /\ phase[t] = "running" /\ phase' = [phase EXCEPT ![t] = "committing"]
        /\ muts' = [muts EXCEPT ![t] = @ \o s] /\ UNCHANGED <<left, reads, refused>>
    BY <1>2 DEF Commit
  <2>2. s \in Seq(Mutation) /\ Len(s) <= Cardinality(Keys)
    BY VerifyList DEF Inv
  <2>3. \A k \in Keys : reads[t][k] # Unread => Guard(muts[t] \o s, reads[t], k)
    BY <2>1, CommitGuards DEF Attempts, Inv
  <2> HIDE DEF s
  <2>4. /\ phase'[t] = "committing" /\ muts'[t] = muts[t] \o s
        /\ \A u \in Txns \ {t} : phase'[u] = phase[u] /\ muts'[u] = muts[u]
    BY <2>1 DEF Attempts
  <2>5. muts[t] \in Seq(Mutation) /\ Len(muts[t]) \in Nat /\ Len(s) \in Nat
        /\ Len(muts[t]) <= MaxWrites
    BY <2>1, <2>2, LenProperties DEF Attempts, Queued
  <2>6. muts[t] \o s \in Seq(Mutation) /\ Len(muts[t] \o s) = Len(muts[t]) + Len(s)
    BY <2>2, <2>5, ConcatProperties
  <2>7. Len(muts'[t]) <= MaxWrites + Cardinality(Keys)
    BY <2>2, <2>4, <2>5, <2>6, Numbers
  <2>8. GuardedIn(t)'
    BY <2>1, <2>3, <2>4 DEF GuardedIn
  <2>9. \A u \in Txns \ {t} : GuardedIn(u)'
    BY <2>1, <2>4, GuardedElsewhere DEF Attempts
  <2>10. muts' \in [Txns -> Seq(Mutation)]
         /\ phase' \in [Txns -> {"running", "committing", "ok", "failed"}]
    BY <2>1, <2>6 DEF Attempts
  <2>11. \A u \in Txns : Len(muts'[u]) <= MaxWrites + Cardinality(Keys)
                      /\ (phase'[u] = "running" => Len(muts'[u]) <= MaxWrites)
    BY <2>4, <2>7 DEF Attempts, Queued
  <2>12. Attempts'
    BY <2>1, <2>8, <2>9, <2>10, <2>11 DEF Attempts, Queued
  <2> QED BY <2>1, <2>4, <2>12, ClientStep DEF Commit
<1> QED BY <1>1, <1>2

LEMMA CommittedStep ==
  ASSUME Inv, NEW t \in Txns, Committed(t)
  PROVE  Inv'
<1> USE Parts
<1>1. phase' = [phase EXCEPT ![t] = "ok"] /\ Drop(t) /\ Apply(t, muts[t])
      /\ UNCHANGED <<left, abandoned>>
  BY DEF Committed
<1>2. Attempts'
  BY <1>1, DropStep DEF Attempts
<1>3. Server' /\ t \in applied' /\ applied \subseteq applied'
  BY <1>1, ApplyStep
<1>4. OkIsApplied'
  BY <1>1, <1>3 DEF OkIsApplied, Attempts
<1>5. Late'
  BY <1>1 DEF Late, Guard
<1> QED BY <1>2, <1>3, <1>4, <1>5, PTL

LEMMA ErrorsStep ==
  ASSUME Inv, NEW t \in Txns, Refused(t) \/ \E r \in BOOLEAN : UpdateFails(t, r)
  PROVE  Inv'
<1>1. /\ \E r : HandleTransactionError(t, r)
      /\ UNCHANGED <<db, clock, abandoned, applied>>
  BY DEF Refused, UpdateFails
<1>2. Attempts' /\ \A u \in Txns : phase'[u] = "ok" => phase[u] = "ok"
  BY <1>1, ErrorStep, Parts
<1> QED BY <1>1, <1>2, ClientStep

LEMMA UnavailableStep ==
  ASSUME Inv, NEW t \in Txns, Unavailable(t)
  PROVE  Inv'
<1> USE Parts
<1> DEFINE a == [by |-> t, reads |-> reads[t], muts |-> muts[t]]
<1>1. phase[t] = "committing" /\ HandleTransactionError(t, TRUE)
      /\ abandoned' = abandoned \cup {a} /\ UNCHANGED <<db, clock, applied>>
  BY DEF Unavailable
<1>2. Attempts' /\ \A u \in Txns : phase'[u] = "ok" => phase[u] = "ok"
  BY <1>1, ErrorStep
<1>3. Server' /\ OkIsApplied'
  BY <1>1, <1>2 DEF Server, OkIsApplied
<1>4. /\ a.by \in Txns /\ a.muts \in Seq(Mutation)
      /\ a.reads \in [Keys -> Version \cup {Unread}]
      /\ \A k \in Keys : a.reads[k] # Unread => Guard(a.muts, a.reads, k)
  BY <1>1 DEF Attempts, GuardedIn
<1> HIDE DEF a
<1>5. Late'
  BY <1>1, <1>4 DEF Late, Guard
<1> QED BY <1>2, <1>3, <1>5, PTL

LEMMA ArrivesLateStep ==
  ASSUME Inv, NEW a \in abandoned, ArrivesLate(a)
  PROVE  Inv'
<1> USE Parts
<1>1. abandoned' = abandoned \ {a} /\ UNCHANGED <<phase, left, reads, muts, refused>>
  BY DEF ArrivesLate
<1>2. Late'
  BY <1>1 DEF Late, Guard
<1>3. Attempts'
  <2>1. \A u \in Txns : GuardedIn(u)'
    BY <1>1, GuardedElsewhere DEF Attempts
  <2> QED BY <1>1, <2>1 DEF Attempts, Queued
<1>4. Server' /\ applied \subseteq applied'
  <2>1. CASE Apply(a.by, a.muts)
    BY <2>1, ApplyStep DEF Late
  <2>2. CASE UNCHANGED <<db, clock, applied>>
    BY <2>2 DEF Server
  <2> QED BY <2>1, <2>2 DEF ArrivesLate
<1>5. OkIsApplied'
  BY <1>1, <1>4 DEF OkIsApplied
<1> QED BY <1>2, <1>3, <1>4, <1>5, PTL

LEMMA NextKeepsInv == Inv /\ [Next]_vars => Inv'
<1> SUFFICES ASSUME Inv, [Next]_vars PROVE Inv'
  OBVIOUS
<1>1. CASE UNCHANGED vars
  BY <1>1 DEF vars, Inv, TypeOK, Queued, Guarded, GuardedIn, Written, Guard, OkIsApplied
<1>2. ASSUME NEW t \in Txns, Commit(t) PROVE Inv'
  BY <1>2, CommitStep
<1>3. ASSUME NEW t \in Txns, Answer(t) PROVE Inv'
  BY <1>3, CommittedStep, ErrorsStep DEF Answer
<1>4. ASSUME NEW t \in Txns, Unavailable(t) PROVE Inv'
  BY <1>4, UnavailableStep
<1>5. ASSUME NEW t \in Txns, NEW r \in BOOLEAN, UpdateFails(t, r) PROVE Inv'
  BY <1>5, ErrorsStep
<1>6. ASSUME NEW t \in Txns, NEW k \in Keys, Lookup(t, k) PROVE Inv'
  BY <1>6, LookupStep
<1>7. ASSUME NEW t \in Txns, NEW k \in Keys,
             Update(t, k) \/ \E op \in {"set", "delete"} : SetOrDelete(t, k, op)
      PROVE  Inv'
  BY <1>7, WritesStep
<1>8. ASSUME NEW a \in abandoned, ArrivesLate(a) PROVE Inv'
  BY <1>8, ArrivesLateStep
<1> QED BY <1>1, <1>2, <1>3, <1>4, <1>5, <1>6, <1>7, <1>8 DEF Next

\* A commit that changes the server found what it had read.
LEMMA StepIsSerial ==
  ASSUME Inv, clock' # clock, NEW k \in Keys
  PROVE  /\ \A t \in Txns : Committed(t) /\ reads[t][k] # Unread => db[k] = reads[t][k]
         /\ \A a \in abandoned :
              ArrivesLate(a) /\ a.reads[k] # Unread => db[k] = a.reads[k]
<1> USE Parts
<1>1. ASSUME NEW t \in Txns, Committed(t), reads[t][k] # Unread
      PROVE  db[k] = reads[t][k]
  <2>1. Guard(muts[t], reads[t], k) /\ muts[t] \in Seq(Mutation)
    BY <1>1 DEF Attempts, GuardedIn, Committed
  <2>2. Broken(muts[t]) = {}
    BY <1>1 DEF Committed, Apply
  <2> QED BY <2>1, <2>2, GuardHolds
<1>2. ASSUME NEW a \in abandoned, ArrivesLate(a), a.reads[k] # Unread
      PROVE  db[k] = a.reads[k]
  <2>1. Guard(a.muts, a.reads, k) /\ a.muts \in Seq(Mutation)
    BY <1>2 DEF Late
  <2>2. Broken(a.muts) = {}
    BY <1>2 DEF ArrivesLate
  <2> QED BY <2>1, <2>2, GuardHolds
<1> QED BY <1>1, <1>2

-----------------------------------------------------------------------------
\* The state stays well formed and no queue outgrows the writes of an attempt and the
\* documents it verifies (transaction.cc:123-160, 184-210).
THEOREM TransactionTypes == Spec => []TypeOK
<1>1. Inv => TypeOK
  BY DEF Inv
<1> QED BY <1>1, InitIsInv, NextKeepsInv, PTL DEF Spec

\* A transaction reported as done was applied (transaction_runner.cc:77-106).
THEOREM ReportedIsApplied == Spec => []OkIsApplied
<1>1. Inv => OkIsApplied
  BY DEF Inv
<1> QED BY <1>1, InitIsInv, NextKeepsInv, PTL DEF Spec

\* Transactions are serial: what is applied, on time or late, was computed from documents
\* that are still as they were read (transaction.cc:54-79, 123-160, 184-210).
THEOREM TransactionsAreSerial == Spec => Serial
<1> DEFINE Step == clock' # clock =>
             \A k \in Keys :
               /\ \A t \in Txns : Committed(t) /\ reads[t][k] # Unread => db[k] = reads[t][k]
               /\ \A a \in abandoned :
                    ArrivesLate(a) /\ a.reads[k] # Unread => db[k] = a.reads[k]
<1>1. Inv /\ [Next]_vars => [Step]_vars
  BY StepIsSerial
<1>2. Spec => [][Step]_vars
  BY <1>1, InitIsInv, NextKeepsInv, PTL DEF Spec
<1> QED BY <1>2 DEF Serial
=============================================================================

---------------------------- MODULE WatchProofs ----------------------------
(***************************************************************************)
(* Proofs about WatchTargets, for any finite targets and documents, in all *)
(* three modes of the server.                                              *)
(*                                                                         *)
(* Nothing is believed of a target while answers are awaited, and those    *)
(* are counted: a target awaits as many as there are requests for it on    *)
(* the way up and answers on the way down.  A target that is listened to   *)
(* is asked for, with its token and nothing behind it; or followed: from   *)
(* its last answer on, the stream tells of each document what matched at   *)
(* each snapshot's version; or a mismatch was found and the next snapshot  *)
(* asks for it anew.  A target that is followed may be told of by a count, *)
(* which is right once the stream told of all that is counted, or be       *)
(* rejected, and is then told of up to there.                              *)
(*                                                                         *)
(* The invariant says this of the targets that doubt does not call lost    *)
(* (Kept): of the others it is not true of the code.  A lost target does   *)
(* not disturb the others, so no assumption is made of any step.           *)
(***************************************************************************)
EXTENDS WatchTargets, FiniteSetTheorems, SequenceTheorems, TLAPS

\* The states that were (0: none), and what the variables hold.
Versions == 0..Now
Request == [op : {"watch", "unwatch"}, t : Targets, token : Nat]
Message == [kind : {"added", "removed", "current", "in", "out", "filter", "rejected", "snapshot"},
            t : Targets, d : Docs, n : Nat]
Change == {"none", "added", "modified", "removed"}
Target == [outstanding : Int, current : BOOLEAN, docs : [Docs -> Change]]
Service == [at : Versions \cup {No}, fresh : BOOLEAN]

\* Versions are states that were: a token's, a snapshot's, what a view was told.
Types ==
  /\ mode \in Modes /\ hist \in Seq(Results) /\ Now # 0
  /\ serving \in [Targets -> Service]
  /\ up \in Seq(Request) /\ down \in Seq(Message) /\ open \in BOOLEAN
  /\ listen \in [Targets -> Versions \cup {No}]
  /\ agg \in [Targets -> Target]
  /\ resets \in SUBSET Targets
  /\ data \in [Targets -> Versions] /\ saved \in [Targets -> Versions]
  /\ keys \in [Targets -> SUBSET Docs]
  /\ last \in Versions
  /\ synced \in [Targets -> Versions]
  /\ doubt \in [Targets -> {"none", "mismatch", "lost"}]
  /\ \A i \in 1..Len(up) : up[i].token \in Versions

\* What the server says in this mode; its snapshots are of states that were, and rise.
Says ==
  /\ \A i \in 1..Len(down) :
       /\ down[i].kind = "filter" => mode = "filters"
       /\ down[i].kind = "rejected" => mode = "rejects"
       /\ down[i].kind = "snapshot" => down[i].n \in Versions \ {0} /\ last <= down[i].n
  /\ \A i, j \in 1..Len(down) :
       i < j /\ down[i].kind = "snapshot" /\ down[j].kind = "snapshot" => down[i].n <= down[j].n

\* Without a stream neither end remembers one.
Quiet ==
  ~open => /\ up = <<>> /\ down = <<>> /\ agg = [t \in Targets |-> NewState]
           /\ serving = [t \in Targets |-> Unserved] /\ resets = {}

\* Changes are gathered against what is on disk; only a count can mismatch, of a query
\* that is not of a document, and only a count or a rejection leaves a doubt.
Noted ==
  /\ \A t \in Targets, d \in Docs :
       /\ agg[t].docs[d] = "added" => d \notin keys[t]
       /\ agg[t].docs[d] = "removed" => d \in keys[t]
  /\ mode # "filters" => resets = {} /\ \A t \in Targets : doubt[t] # "mismatch"
  /\ mode = "removals" => \A t \in Targets : doubt[t] = "none"
  /\ mode = "filters" => \A t \in Documents : t \notin resets /\ doubt[t] = "none"

\* A document query is told of its document only.
Keyed ==
  \A t \in Documents :
    /\ keys[t] \subseteq {Key[t]}
    /\ \A d \in Docs : agg[t].docs[d] # "none" => d = Key[t]
    /\ \A i \in 1..Len(down) : down[i].t = t /\ down[i].kind \in {"in", "out"} => down[i].d = Key[t]

\* The code has not lost track of t.
Kept(t) == doubt[t] # "lost"

\* What is on disk is what matched at the token that is sent and at the version the
\* view was told; and at the token on disk, which the one in memory replaces, unless a
\* mismatch left another there.
Exact ==
  \A t \in Targets : Kept(t) =>
    /\ doubt[t] = "none" => keys[t] = Matching(saved[t], t)
    /\ listen[t] # No => /\ keys[t] = Matching(listen[t], t)
                         /\ data[t] = listen[t] \/ (listen[t] = 0 /\ doubt[t] = "mismatch")
    /\ synced[t] # 0 => synced[t] = listen[t]

\* Where q has an element of S, and how often.
Hits(q, S) == {i \in 1..Len(q) : q[i] \in S}
Number(q, S) == Cardinality(Hits(q, S))
Requests(t) == [op : {"watch", "unwatch"}, t : {t}, token : Nat]
Answers(t) == [kind : {"added", "removed"}, t : {t}, d : Docs, n : Nat]

\* The answers awaited are on their way, or their requests are.
Awaited ==
  \A t \in Targets : Kept(t) =>
    agg[t].outstanding = Number(up, Requests(t)) + Number(down, Answers(t))

Rejects(m, t) == m.kind = "rejected" /\ m.t = t
Counts(m, t) == m.kind = "filter" /\ m.t = t

\* No request for t is on its way.
Unasked(t) == \A i \in 1..Len(up) : up[i].t # t

\* r is the last request for its target.
LastAsked(r) ==
  \E i \in 1..Len(up) : up[i] = r /\ \A j \in 1..Len(up) : j > i => up[j].t # r.t

\* The last request for t is the one for its token.
Asked(t) == LastAsked(Watch(t, listen[t]))

\* What matched t in the state v of h.
At(h, v, t) == IF v = 0 THEN {} ELSE h[v][t]

\* m says that d matches t, or no longer does.
Tells(m, t, d, b) == m.t = t /\ m.d = d /\ m.kind = IF b THEN "in" ELSE "out"

\* Who reads q from after p up to before i, having held base, holds b of d.
Told(q, p, i, t, d, base, b) ==
  \/ \E j \in 1..Len(q) : 
       /\ p < j /\ j < i /\ Tells(q[j], t, d, b)
       /\ \A k \in 1..Len(q) : j < k /\ k < i => ~Tells(q[k], t, d, ~b)
  \/ /\ base <=> b
     /\ \A k \in 1..Len(q) : p < k /\ k < i => ~Tells(q[k], t, d, ~b)

\* Who holds S after p holds at each snapshot before e what matched at its version.
ToldUpTo(h, q, p, e, t, S) ==
  \A i \in 1..Len(q), d \in Docs :
    p < i /\ i < e /\ q[i].kind = "snapshot" =>
      Told(q, p, i, t, d, d \in S, d \in At(h, q[i].n, t))

\* And at the end what matches where the server, which serves by sv, has the target.
ToldAll(h, sv, q, p, t, S) ==
  /\ ToldUpTo(h, q, p, Len(q) + 1, t, S)
  /\ sv.at # No
  /\ \A d \in Docs : Told(q, p, Len(q) + 1, t, d, d \in S, d \in At(h, sv.at, t))

\* Nothing is said of t between f and the next snapshot, which is at s.
Silent(q, f, s, t) ==
  /\ f < s /\ q[s].kind = "snapshot"
  /\ \A k \in 1..Len(q) : f < k /\ k < s => q[k].t # t /\ q[k].kind # "snapshot"

\* The count at f is that of the snapshot at s, and all that it counts was told: if
\* nothing else is held, the rest is told too.
ToldCount(h, sv, q, p, f, s, t, S) ==
  LET counted == At(h, q[s].n, t)
  IN  /\ ~sv.fresh /\ p < f /\ Silent(q, f, s, t)
      /\ Counts(q[f], t) /\ q[f].n = Cardinality(counted)
      /\ \A k \in 1..Len(q) : p < k /\ Counts(q[k], t) => k = f
      /\ ToldUpTo(h, q, p, f, t, S)
      /\ \A d \in counted : Told(q, p, f, t, d, d \in S, TRUE)
      /\ ToldAll(h, sv, q, f, t, counted)

\* The target is rejected at r, and was told of up to there.
ToldReject(h, sv, q, p, r, t, S) ==
  /\ p < r /\ Rejects(q[r], t) /\ sv.at = No
  /\ ToldUpTo(h, q, p, r, t, S)

\* The last answer for t is at p (0: it is read); who holds S there is then told all,
\* or by a count, or that the target is rejected.
Follows(h, sv, q, p, t, S) ==
  /\ p # 0 => q[p] \in Answers(t)
  /\ \A k \in 1..Len(q) : p < k => q[k] \notin Answers(t)
  /\ \/ /\ ToldAll(h, sv, q, p, t, S)
        /\ \A k \in 1..Len(q) : p < k => ~Counts(q[k], t) /\ ~Rejects(q[k], t)
     \/ \E f, s \in 1..Len(q) : ToldCount(h, sv, q, p, f, s, t, S)
     \/ \E r \in 1..Len(q) : ToldReject(h, sv, q, p, r, t, S)

\* What the client holds when it reads on after p: what is on disk, and with no
\* answer to come (p = 0), what it gathered since the last snapshot.
Held(p, t) ==
  IF p # 0 THEN keys[t] ELSE (keys[t] \cup OfKind(t, "added")) \ OfKind(t, "removed")

\* All of t's requests are taken, and the client follows what comes behind.
FollowedFrom(t, p) == Unasked(t) /\ Follows(hist, serving[t], down, p, t, Held(p, t))
Followed(t) == \E p \in 0..Len(down) : FollowedFrom(t, p)

\* A mismatch was found: all is removed, and the next snapshot asks again.
Pending(t) ==
  /\ Unasked(t) /\ \A k \in 1..Len(down) : down[k] \notin Answers(t)
  /\ ~agg[t].current
  /\ \A d \in Docs : agg[t].docs[d] = IF d \in keys[t] THEN "removed" ELSE "none"
  /\ \E s \in 1..Len(down) : Silent(down, 0, s, t)

\* A target that is listened to is asked for, followed or about to be asked for again.
Covered ==
  \A t \in Targets : Kept(t) /\ open /\ listen[t] # No =>
    IF t \in resets THEN Pending(t) ELSE Asked(t) \/ Followed(t)

Inv == Types /\ Says /\ Quiet /\ Noted /\ Keyed /\ Exact /\ Awaited /\ Covered
-----------------------------------------------------------------------------
(***************************************************************************)
(* Sets, sequences and numbers.                                            *)
(***************************************************************************)

\* SetToSeq lists a finite set: all of it, and each element once.
LEMMA SetToSeqLists ==
  ASSUME NEW S, IsFiniteSet(S)
  PROVE  /\ SetToSeq(S) \in Seq(S)
         /\ \A x \in S : \E i \in 1..Len(SetToSeq(S)) : SetToSeq(S)[i] = x
         /\ \A i, j \in 1..Len(SetToSeq(S)) : SetToSeq(S)[i] = SetToSeq(S)[j] => i = j
         /\ S = {} => SetToSeq(S) = <<>>
<1> DEFINE n == Cardinality(S)
           f == SetToSeq(S)
<1>1. n \in Nat /\ ExistsBijection(1..n, S) /\ (S = {} => n = 0)
  BY FS_CardinalityType, FS_EmptySet
<1>2. PICK g : g \in Bijection(1..n, S)
  BY <1>1 DEF ExistsBijection
<1>3. g \in [1..n -> S] /\ IsInjective(g)
  BY <1>2 DEF Bijection, Injection
<1>4. f \in [1..n -> S] /\ IsInjective(f)
  BY <1>3 DEF SetToSeq
<1> HIDE DEF f, n
<1>5. f \in Seq(S) /\ Len(f) = n
  <2>1. f \in Seq(S)
    BY <1>1, <1>4, SeqDef
  <2>2. DOMAIN f = 1..n /\ DOMAIN f = 1..Len(f) /\ Len(f) \in Nat
    BY <1>4, <2>1, LenProperties
  <2> QED BY <1>1, <2>1, <2>2
<1>6. Cardinality(1..n) = n /\ IsFiniteSet(1..n)
  BY <1>1, FS_Interval
<1>7. f \in Injection(1..n, S)
  BY <1>4 DEF Injection
<1>8. f \in Surjection(1..n, S)
  BY <1>6, <1>7, FS_Injection DEF n
<1>9. \A x \in S : \E i \in 1..n : f[i] = x
  BY <1>8 DEF Surjection
<1>10. \A i, j \in 1..n : f[i] = f[j] => i = j
  BY <1>4 DEF IsInjective
<1>11. S = {} => f = <<>>
  BY <1>1, <1>5, EmptySeq
<1> QED BY <1>5, <1>9, <1>10, <1>11 DEF f, n

\* Hits are finite, and none means none.
LEMMA NumberType ==
  ASSUME NEW M, NEW q \in Seq(M), NEW S
  PROVE  /\ IsFiniteSet(Hits(q, S)) /\ Number(q, S) \in Nat
         /\ Number(q, S) = 0 <=> \A i \in 1..Len(q) : q[i] \notin S
<1>1. Len(q) \in Nat /\ IsFiniteSet(1..Len(q))
  BY FS_Interval, LenProperties
<1>2. IsFiniteSet(Hits(q, S))
  BY <1>1, FS_Subset DEF Hits
<1>3. Number(q, S) \in Nat /\ (Number(q, S) = 0 <=> Hits(q, S) = {})
  BY <1>2, FS_CardinalityType, FS_EmptySet DEF Number
<1> QED BY <1>2, <1>3 DEF Hits

\* The empty sequence has none.
LEMMA NumberEmpty ==
  ASSUME NEW S
  PROVE  Number(<<>>, S) = 0
<1>1. Hits(<<>>, S) = {}
  BY EmptySeq DEF Hits
<1> QED BY <1>1, FS_EmptySet DEF Number

\* One place, one hit.
LEMMA NumberOne ==
  ASSUME NEW M, NEW q \in Seq(M), NEW S, NEW i \in 1..Len(q), q[i] \in S,
         \A j \in 1..Len(q) : q[j] \in S => j = i
  PROVE  Number(q, S) = 1
<1>1. Hits(q, S) = {i}
  BY DEF Hits
<1> QED BY <1>1, FS_Singleton DEF Number

\* Append adds one, if it is of the set.
LEMMA NumberAppend ==
  ASSUME NEW M, NEW q \in Seq(M), NEW e \in M, NEW S
  PROVE  Number(Append(q, e), S) = Number(q, S) + (IF e \in S THEN 1 ELSE 0)
<1> DEFINE H == Hits(q, S)
           n == Len(q) + 1
<1>1. IsFiniteSet(H) /\ Cardinality(H) \in Nat
  BY NumberType DEF Number
<1>2. n \notin H
  BY LenProperties DEF Hits
<1>3. Hits(Append(q, e), S) = IF e \in S THEN H \cup {n} ELSE H
  <2>1. /\ Len(q) \in Nat /\ Len(Append(q, e)) = n /\ Append(q, e)[n] = e
        /\ \A i \in 1..Len(q) : Append(q, e)[i] = q[i]
    BY LenProperties, AppendProperties
  <2> QED BY <2>1 DEF Hits
<1>4. Cardinality(H \cup {n}) = Cardinality(H) + 1
  BY <1>1, <1>2, FS_AddElement
<1> HIDE DEF n
<1> QED BY <1>3, <1>4, <1>1 DEF Number

\* Tail takes the head's away.
LEMMA NumberTail ==
  ASSUME NEW M, NEW q \in Seq(M), q # <<>>, NEW S
  PROVE  Number(q, S) = Number(Tail(q), S) + (IF Head(q) \in S THEN 1 ELSE 0)
<1> DEFINE r == Tail(q)
           f == [i \in Hits(r, S) |-> i + 1]
           T == Hits(q, S) \ {1}
<1>1. /\ Len(q) \in Nat \ {0} /\ r \in Seq(M) /\ Len(r) = Len(q) - 1
      /\ \A i \in 1..Len(r) : r[i] = q[i + 1]
  BY EmptySeq, HeadTailProperties
<1>2. Head(q) = q[1]
  OBVIOUS
<1>3. f \in Bijection(Hits(r, S), T)
  <2> HIDE DEF r
  <2>1. f \in [Hits(r, S) -> T]
    BY <1>1 DEF Hits
  <2>2. \A i, j \in Hits(r, S) : f[i] = f[j] => i = j
    BY DEF Hits
  <2>3. \A k \in T : \E i \in Hits(r, S) : f[i] = k
    <3> SUFFICES ASSUME NEW k \in T PROVE \E i \in Hits(r, S) : f[i] = k
      OBVIOUS
    <3>1. k - 1 \in Hits(r, S) /\ f[k - 1] = k
      BY <1>1 DEF Hits
    <3> QED BY <3>1
  <2> QED BY <2>1, <2>2, <2>3 DEF Bijection, Injection, Surjection, IsInjective
<1>4. Cardinality(T) = Cardinality(Hits(r, S))
  <2>1. IsFiniteSet(Hits(r, S))
    BY <1>1, NumberType
  <2>2. ExistsBijection(Hits(r, S), T)
    BY <1>3 DEF ExistsBijection
  <2> HIDE DEF r, T
  <2> QED BY <2>1, <2>2, FS_Bijection
<1>5. IsFiniteSet(Hits(q, S)) /\ Cardinality(Hits(q, S)) \in Nat
  BY NumberType DEF Number
<1>6. Cardinality(T) = IF 1 \in Hits(q, S) THEN Cardinality(Hits(q, S)) - 1 ELSE Cardinality(Hits(q, S))
  BY <1>5, FS_RemoveElement
<1>7. 1 \in Hits(q, S) <=> Head(q) \in S
  BY <1>1, <1>2 DEF Hits
<1> QED BY <1>4, <1>5, <1>6, <1>7 DEF Number

\* A sequence without any behind adds none.
\* A concatenation has those of both.
LEMMA NumberConcat ==
  ASSUME NEW M, NEW q \in Seq(M), NEW r \in Seq(M), NEW S
  PROVE  Number(q \o r, S) = Number(q, S) + Number(r, S)
<1> DEFINE A == Hits(q, S)
           B == Hits(q \o r, S) \ A
           f == [i \in Hits(r, S) |-> i + Len(q)]
<1>1. /\ Len(q \o r) = Len(q) + Len(r) /\ Len(q) \in Nat /\ Len(r) \in Nat
      /\ q \o r \in Seq(M)
      /\ \A i \in 1..(Len(q) + Len(r)) : (q \o r)[i] = IF i <= Len(q) THEN q[i] ELSE r[i - Len(q)]
  BY ConcatProperties, LenProperties
<1>2. A \subseteq Hits(q \o r, S)
  BY <1>1 DEF Hits
<1>3. f \in Bijection(Hits(r, S), B)
  <2>1. \A i \in Hits(r, S) : i + Len(q) \in B
    BY <1>1 DEF Hits
  <2>2. \A k \in B : k - Len(q) \in Hits(r, S) /\ (k - Len(q)) + Len(q) = k
    BY <1>1 DEF Hits
  <2>3. \A i, j \in Hits(r, S) : i + Len(q) = j + Len(q) => i = j
    BY <1>1 DEF Hits
  <2> HIDE DEF B
  <2> QED BY <2>1, <2>2, <2>3 DEF Bijection, Injection, Surjection, IsInjective
<1>4. IsFiniteSet(A) /\ IsFiniteSet(Hits(r, S)) /\ IsFiniteSet(Hits(q \o r, S))
  BY <1>1, NumberType
<1>5. Cardinality(B) = Cardinality(Hits(r, S))
  <2>1. ExistsBijection(Hits(r, S), B)
    BY <1>3 DEF ExistsBijection
  <2> HIDE DEF B
  <2> QED BY <1>4, <2>1, FS_Bijection
<1>6. Cardinality(B) = Cardinality(Hits(q \o r, S)) - Cardinality(A)
  <2>1. Cardinality(Hits(q \o r, S) \ A) = Cardinality(Hits(q \o r, S)) - Cardinality(Hits(q \o r, S) \cap A)
    BY <1>4, FS_Difference
  <2>2. Hits(q \o r, S) \cap A = A
    BY <1>2
  <2> QED BY <2>1, <2>2
<1>7. Cardinality(A) \in Nat /\ Cardinality(Hits(q \o r, S)) \in Nat /\ Cardinality(Hits(r, S)) \in Nat
  BY <1>4, FS_CardinalityType
<1> HIDE DEF B
<1> QED BY <1>5, <1>6, <1>7 DEF Number, A

\* Places of Rewatch: two for each target.
LEMMA Halves ==
  ASSUME NEW n \in Nat
  PROVE  /\ \A i \in 1..(2 * n) :
              \/ i % 2 = 1 /\ (i + 1) \div 2 \in 1..n /\ i = 2 * ((i + 1) \div 2) - 1
              \/ i % 2 = 0 /\ i \div 2 \in 1..n /\ i = 2 * (i \div 2)
         /\ \A k \in 1..n :
              /\ 2 * k - 1 \in 1..(2 * n) /\ (2 * k - 1) % 2 = 1 /\ ((2 * k - 1) + 1) \div 2 = k
              /\ 2 * k \in 1..(2 * n) /\ (2 * k) % 2 = 0 /\ (2 * k) \div 2 = k
<1>1. ASSUME NEW i \in 1..(2 * n)
      PROVE  \/ i % 2 = 1 /\ (i + 1) \div 2 \in 1..n /\ i = 2 * ((i + 1) \div 2) - 1
             \/ i % 2 = 0 /\ i \div 2 \in 1..n /\ i = 2 * (i \div 2)
  OBVIOUS
<1>2. ASSUME NEW k \in 1..n
      PROVE  /\ 2 * k - 1 \in 1..(2 * n) /\ (2 * k - 1) % 2 = 1 /\ ((2 * k - 1) + 1) \div 2 = k
             /\ 2 * k \in 1..(2 * n) /\ (2 * k) % 2 = 0 /\ (2 * k) \div 2 = k
  OBVIOUS
<1> QED BY <1>1, <1>2

\* Rewatch asks twice for each of its targets, the second time without a token, and
\* for no other.
LEMMA RewatchAsks ==
  ASSUME NEW S, IsFiniteSet(S), S \subseteq Targets
  PROVE  LET w == Rewatch(SetToSeq(S))
         IN  /\ w \in Seq(Request)
             /\ \A i \in 1..Len(w) : w[i].token = 0 /\ w[i].t \in S
             /\ S = {} => w = <<>>
             /\ \A t \in S :
                  /\ Number(w, Requests(t)) = 2
                  /\ \E i \in 1..Len(w) : /\ w[i] = Watch(t, 0)
                                          /\ \A j \in 1..Len(w) : j > i => w[j].t # t
<1> DEFINE s == SetToSeq(S)
           n == Len(s)
           w == Rewatch(s)
<1>1. /\ s \in Seq(S)
      /\ \A x \in S : \E i \in 1..n : s[i] = x
      /\ \A i, j \in 1..n : s[i] = s[j] => i = j
      /\ S = {} => s = <<>>
  BY SetToSeqLists
<1>2. n \in Nat /\ \A i \in 1..n : s[i] \in S
  BY <1>1, LenProperties, ElementOfSeq
<1>3. w = [i \in 1..(2 * n) |-> IF i % 2 = 1 THEN Unwatch(s[(i + 1) \div 2]) ELSE Watch(s[i \div 2], 0)]
  BY DEF Rewatch
<1> HIDE DEF w, n, s
<1>4. \A k \in 1..n : /\ 2 * k - 1 \in 1..(2 * n) /\ w[2 * k - 1] = Unwatch(s[k])
                      /\ 2 * k \in 1..(2 * n) /\ w[2 * k] = Watch(s[k], 0)
  BY <1>2, <1>3, Halves
<1>5. \A i \in 1..(2 * n) : \E k \in 1..n : i = 2 * k - 1 \/ i = 2 * k
  BY <1>2, Halves
<1>6. \A i \in 1..(2 * n) : w[i] \in Request /\ w[i].token = 0 /\ w[i].t \in S
  <2> SUFFICES ASSUME NEW i \in 1..(2 * n) PROVE w[i] \in Request /\ w[i].token = 0 /\ w[i].t \in S
    OBVIOUS
  <2>1. PICK k \in 1..n : i = 2 * k - 1 \/ i = 2 * k
    BY <1>5
  <2>2. s[k] \in S /\ s[k] \in Targets
    BY <1>2
  <2>3. w[i] = Unwatch(s[k]) \/ w[i] = Watch(s[k], 0)
    BY <1>4, <2>1
  <2> QED BY <2>2, <2>3 DEF Unwatch, Watch, Request
<1>7. w \in Seq(Request) /\ Len(w) = 2 * n
  <2>1. 2 * n \in Nat
    BY <1>2
  <2>2. w \in [1..(2 * n) -> Request]
    BY <1>3, <1>6
  <2>3. w \in Seq(Request)
    BY <2>1, <2>2, SeqDef
  <2>4. DOMAIN w = 1..(2 * n) /\ DOMAIN w = 1..Len(w) /\ Len(w) \in Nat
    BY <2>2, <2>3, LenProperties
  <2> QED BY <2>1, <2>3, <2>4
<1>8. S = {} => w = <<>>
  <2>1. S = {} => 2 * n = 0
    BY <1>1, EmptySeq DEF n
  <2> QED BY <1>7, <2>1, EmptySeq
<1>9. ASSUME NEW t \in S
      PROVE  /\ Number(w, Requests(t)) = 2
             /\ \E i \in 1..Len(w) : /\ w[i] = Watch(t, 0)
                                     /\ \A j \in 1..Len(w) : j > i => w[j].t # t
  <2>1. PICK k \in 1..n : s[k] = t
    BY <1>1 DEF n
  <2>2. \A i \in 1..Len(w) : w[i].t = t <=> i \in {2 * k - 1, 2 * k}
    <3> SUFFICES ASSUME NEW i \in 1..(2 * n) PROVE w[i].t = t <=> i \in {2 * k - 1, 2 * k}
      BY <1>7
    <3>1. PICK l \in 1..n : i = 2 * l - 1 \/ i = 2 * l
      BY <1>5
    <3>2. w[i] = Unwatch(s[l]) \/ w[i] = Watch(s[l], 0)
      BY <1>4, <3>1
    <3>3. w[i].t = s[l]
      BY <3>2 DEF Unwatch, Watch
    <3>4. s[l] = t <=> l = k
      BY <1>1, <2>1 DEF n
    <3> QED BY <1>2, <3>1, <3>3, <3>4
  <2>3. Hits(w, Requests(t)) = {2 * k - 1, 2 * k}
    <3>1. \A i \in 1..Len(w) : w[i] \in Requests(t) <=> w[i].t = t
      BY <1>6, <1>7 DEF Request, Requests
    <3> QED BY <1>4, <1>7, <2>2, <3>1 DEF Hits
  <2>4. Cardinality({2 * k - 1, 2 * k}) = 2
    <3> DEFINE a == 2 * k - 1
               b == 2 * k
    <3>1. a # b
      BY <1>2
    <3> HIDE DEF a, b
    <3>2. IsFiniteSet({a}) /\ Cardinality({a}) = 1
      BY FS_Singleton
    <3>3. Cardinality({a} \cup {b}) = 2
      <4>1. b \notin {a}
        BY <3>1
      <4>2. Cardinality({a} \cup {b}) = Cardinality({a}) + 1
        BY ONLY <3>2, <4>1, FS_AddElement
      <4> QED BY <3>2, <4>2
    <3>4. {a, b} = {a} \cup {b}
      OBVIOUS
    <3> QED BY <3>3, <3>4 DEF a, b
  <2>5. /\ 2 * k \in 1..Len(w) /\ w[2 * k] = Watch(t, 0)
        /\ \A j \in 1..Len(w) : j > 2 * k => w[j].t # t
    BY <1>2, <1>4, <1>7, <2>1, <2>2
  <2> QED BY <2>3, <2>4, <2>5 DEF Number
<1> QED BY <1>6, <1>7, <1>8, <1>9 DEF w, s

-----------------------------------------------------------------------------
(***************************************************************************)
(* What a reader of the stream is told.                                    *)
(***************************************************************************)

\* What is held of d after message m.
Heard(m, t, d, base) == Tells(m, t, d, TRUE) \/ (base /\ ~Tells(m, t, d, FALSE))

\* The head is behind the reader: places move by one.
LEMMA ToldTail ==
  ASSUME NEW M, NEW q \in Seq(M), q # <<>>, NEW p \in 1..Len(q), NEW i \in Nat, i > 1,
         NEW t, NEW d, NEW base \in BOOLEAN, NEW b \in BOOLEAN,
         Told(q, p, i, t, d, base, b)
  PROVE  Told(Tail(q), p - 1, i - 1, t, d, base, b)
<1> DEFINE r == Tail(q)
<1>1. /\ Len(q) \in Nat \ {0} /\ Len(r) = Len(q) - 1
      /\ \A k \in 1..Len(r) : r[k] = q[k + 1]
  BY EmptySeq, HeadTailProperties
<1> HIDE DEF r
<1>2. CASE /\ base <=> b
           /\ \A k \in 1..Len(q) : p < k /\ k < i => ~Tells(q[k], t, d, ~b)
  <2>1. \A k \in 1..Len(r) : p - 1 < k /\ k < i - 1 => ~Tells(r[k], t, d, ~b)
    BY <1>1, <1>2
  <2> QED BY <1>2, <2>1 DEF Told, r
<1>3. ASSUME NEW j \in 1..Len(q), p < j, j < i, Tells(q[j], t, d, b),
             \A k \in 1..Len(q) : j < k /\ k < i => ~Tells(q[k], t, d, ~b)
      PROVE  Told(r, p - 1, i - 1, t, d, base, b)
  <2>1. /\ j - 1 \in 1..Len(r) /\ p - 1 < j - 1 /\ j - 1 < i - 1 /\ Tells(r[j - 1], t, d, b)
        /\ \A k \in 1..Len(r) : j - 1 < k /\ k < i - 1 => ~Tells(r[k], t, d, ~b)
    BY <1>1, <1>3
  <2> QED BY <2>1 DEF Told
<1> QED BY <1>2, <1>3 DEF Told, r

\* The reader takes the head: what it says is held.
LEMMA ToldHead ==
  ASSUME NEW M, NEW q \in Seq(M), q # <<>>, NEW i \in Nat, i > 1,
         NEW t, NEW d, NEW base \in BOOLEAN, NEW b \in BOOLEAN,
         Told(q, 0, i, t, d, base, b)
  PROVE  Told(Tail(q), 0, i - 1, t, d, Heard(Head(q), t, d, base), b)
<1> DEFINE r == Tail(q)
           held == Heard(q[1], t, d, base)
<1>1. /\ Len(q) \in Nat \ {0} /\ Len(r) = Len(q) - 1
      /\ \A k \in 1..Len(r) : r[k] = q[k + 1]
  BY EmptySeq, HeadTailProperties
<1>2. Head(q) = q[1]
  OBVIOUS
<1> HIDE DEF r
<1>3. ASSUME \A k \in 1..Len(q) : 1 < k /\ k < i => ~Tells(q[k], t, d, ~b),
             held <=> b
      PROVE  Told(r, 0, i - 1, t, d, held, b)
  <2>1. \A k \in 1..Len(r) : 0 < k /\ k < i - 1 => ~Tells(r[k], t, d, ~b)
    BY <1>1, <1>3
  <2> QED BY <1>3, <2>1 DEF Told
<1>4. ASSUME base <=> b,
             \A k \in 1..Len(q) : 0 < k /\ k < i => ~Tells(q[k], t, d, ~b)
      PROVE  Told(r, 0, i - 1, t, d, held, b)
  <2>1. ~Tells(q[1], t, d, ~b)
    BY <1>1, <1>4
  <2>2. held <=> b
    BY <1>4, <2>1 DEF Heard, Tells
  <2>3. \A k \in 1..Len(q) : 1 < k /\ k < i => ~Tells(q[k], t, d, ~b)
    BY <1>1, <1>4
  <2> HIDE DEF held
  <2> QED BY <1>3, <2>2, <2>3
<1>5. ASSUME NEW j \in 1..Len(q), 0 < j, j < i, Tells(q[j], t, d, b),
             \A k \in 1..Len(q) : j < k /\ k < i => ~Tells(q[k], t, d, ~b)
      PROVE  Told(r, 0, i - 1, t, d, held, b)
  <2>1. CASE j = 1
    <3>1. held <=> b
      BY <1>5, <2>1 DEF Heard, Tells
    <3> HIDE DEF held
    <3> QED BY <1>3, <1>5, <2>1, <3>1
  <2>2. CASE j # 1
    <3> HIDE DEF held
    <3>1. j - 1 \in 1..Len(r) /\ 0 < j - 1 /\ j - 1 < i - 1 /\ r[j - 1] = q[j]
      BY <1>1, <1>5, <2>2
    <3>2. ASSUME NEW k \in 1..Len(r), j - 1 < k, k < i - 1 PROVE ~Tells(r[k], t, d, ~b)
      <4>1. k + 1 \in 1..Len(q) /\ j < k + 1 /\ k + 1 < i /\ r[k] = q[k + 1]
        BY <1>1, <1>5, <3>2
      <4> QED BY <1>5, <4>1
    <3> QED BY <1>5, <3>1, <3>2 DEF Told
  <2> QED BY <2>1, <2>2
<1> QED BY <1>2, <1>4, <1>5 DEF Told, r

\* What comes behind changes nothing before it.
LEMMA ToldBefore ==
  ASSUME NEW M, NEW q \in Seq(M), NEW w \in Seq(M), NEW p \in Nat, NEW i \in 1..(Len(q) + 1),
         NEW t, NEW d, NEW base \in BOOLEAN, NEW b \in BOOLEAN,
         Told(q, p, i, t, d, base, b)
  PROVE  Told(q \o w, p, i, t, d, base, b)
<1> DEFINE r == q \o w
<1>1. /\ Len(r) = Len(q) + Len(w) /\ Len(q) \in Nat /\ Len(w) \in Nat
      /\ \A k \in 1..Len(q) : r[k] = q[k]
  BY ConcatProperties, LenProperties
<1> HIDE DEF r
<1>2. \A k \in 1..Len(r) : k < i => k \in 1..Len(q)
  BY <1>1
<1>3. \A k \in 1..Len(q) : k \in 1..Len(r)
  BY <1>1
<1> QED BY <1>1, <1>2, <1>3 DEF Told, r

\* Nothing to the contrary is said behind.
LEMMA ToldOn ==
  ASSUME NEW M, NEW q \in Seq(M), NEW w \in Seq(M), NEW p \in 0..Len(q), NEW i \in Nat,
         i > Len(q),
         NEW t, NEW d, NEW base \in BOOLEAN, NEW b \in BOOLEAN,
         \/ Told(q, p, Len(q) + 1, t, d, base, b)
         \/ \E j \in 1..Len(w) : Len(q) + j < i /\ Tells(w[j], t, d, b),
         \A j \in 1..Len(w) : ~Tells(w[j], t, d, ~b)
  PROVE  Told(q \o w, p, i, t, d, base, b)
<1> DEFINE r == q \o w
<1>1. /\ Len(r) = Len(q) + Len(w) /\ Len(q) \in Nat /\ Len(w) \in Nat
      /\ \A k \in 1..(Len(q) + Len(w)) : r[k] = IF k <= Len(q) THEN q[k] ELSE w[k - Len(q)]
  BY ConcatProperties, LenProperties
<1> HIDE DEF r
<1>2. \A k \in 1..Len(r) : k > Len(q) => ~Tells(r[k], t, d, ~b)
  <2> SUFFICES ASSUME NEW k \in 1..Len(r), k > Len(q) PROVE ~Tells(r[k], t, d, ~b)
    OBVIOUS
  <2>1. k - Len(q) \in 1..Len(w) /\ r[k] = w[k - Len(q)]
    BY <1>1
  <2> QED BY <2>1
<1>3. ASSUME NEW j \in 1..Len(w), Len(q) + j < i, Tells(w[j], t, d, b)
      PROVE  Told(r, p, i, t, d, base, b)
  <2>1. /\ Len(q) + j \in 1..Len(r) /\ p < Len(q) + j /\ Tells(r[Len(q) + j], t, d, b)
        /\ \A k \in 1..Len(r) : Len(q) + j < k => k > Len(q)
    BY <1>1, <1>3
  <2> QED BY <1>2, <1>3, <2>1 DEF Told
<1>4. ASSUME Told(q, p, Len(q) + 1, t, d, base, b)
      PROVE  Told(r, p, i, t, d, base, b)
  <2>1. \A k \in 1..Len(r) : k <= Len(q) => k \in 1..Len(q) /\ r[k] = q[k] /\ k < Len(q) + 1
    BY <1>1
  <2>2. ASSUME base <=> b,
               \A k \in 1..Len(q) : p < k /\ k < Len(q) + 1 => ~Tells(q[k], t, d, ~b)
        PROVE  Told(r, p, i, t, d, base, b)
    <3>1. \A k \in 1..Len(r) : p < k => ~Tells(r[k], t, d, ~b)
      BY <1>1, <1>2, <2>1, <2>2
    <3> QED BY <2>2, <3>1 DEF Told
  <2>3. ASSUME NEW j \in 1..Len(q), p < j, Tells(q[j], t, d, b),
               \A k \in 1..Len(q) : j < k /\ k < Len(q) + 1 => ~Tells(q[k], t, d, ~b)
        PROVE  Told(r, p, i, t, d, base, b)
    <3>1. j \in 1..Len(r) /\ j < i /\ Tells(r[j], t, d, b)
      BY <1>1, <2>3
    <3>2. \A k \in 1..Len(r) : j < k => ~Tells(r[k], t, d, ~b)
      BY <1>1, <1>2, <2>1, <2>3
    <3> QED BY <2>3, <3>1, <3>2 DEF Told
  <2> QED BY <1>4, <2>2, <2>3 DEF Told
<1>5. Told(r, p, i, t, d, base, b)
  BY <1>3, <1>4
<1> QED BY <1>5 DEF r

\* What who holds S holds after message m.
Hear(m, t, S) ==
  (S \cup {d \in {m.d} : Tells(m, t, d, TRUE)}) \ {d \in {m.d} : Tells(m, t, d, FALSE)}

\* The first message of q is handled: where the reader is, and what it holds.
After(p) == IF p = 0 THEN 0 ELSE p - 1
Holds(q, p, t, S) == IF p = 0 THEN Hear(Head(q), t, S) ELSE S

\* The first message is handled: what is told behind stays told.
LEMMA ToldNext ==
  ASSUME NEW M, NEW q \in Seq(M), q # <<>>, NEW p \in 0..Len(q), NEW i \in Nat, i > 1,
         NEW t, NEW d, NEW S, NEW b \in BOOLEAN,
         Told(q, p, i, t, d, d \in S, b)
  PROVE  Told(Tail(q), After(p), i - 1, t, d, d \in Holds(q, p, t, S), b)
<1> DEFINE base == d \in S
<1>1. base \in BOOLEAN
  OBVIOUS
<1>2. CASE p = 0
  <2>1. Told(q, 0, i, t, d, base, b)
    BY <1>2
  <2> HIDE DEF base
  <2>2. Told(Tail(q), 0, i - 1, t, d, Heard(Head(q), t, d, base), b)
    BY <1>1, <2>1, ToldHead
  <2> USE DEF base
  <2>3. Heard(Head(q), t, d, base) <=> d \in Holds(q, p, t, S)
    BY <1>2 DEF Heard, Holds, Hear, Tells
  <2>4. After(p) = 0
    BY <1>2 DEF After
  <2> HIDE DEF base
  <2> QED BY <2>2, <2>3, <2>4 DEF Told
<1>3. CASE p # 0
  <2>1. p \in 1..Len(q) /\ After(p) = p - 1 /\ Holds(q, p, t, S) = S
    BY <1>3 DEF After, Holds
  <2>2. Told(q, p, i, t, d, base, b)
    OBVIOUS
  <2> HIDE DEF base
  <2>3. Told(Tail(q), p - 1, i - 1, t, d, base, b)
    BY <1>1, <2>1, <2>2, ToldTail
  <2> QED BY <2>1, <2>3 DEF base
<1> QED BY <1>2, <1>3

\* So do the snapshots.
LEMMA UpToNext ==
  ASSUME NEW M, NEW q \in Seq(M), q # <<>>, NEW p \in 0..Len(q), NEW e \in Nat,
         NEW h, NEW t, NEW S, ToldUpTo(h, q, p, e, t, S)
  PROVE  ToldUpTo(h, Tail(q), After(p), e - 1, t, Holds(q, p, t, S))
<1> DEFINE r == Tail(q)
           n == After(p)
           U == Holds(q, p, t, S)
<1>1. /\ Len(q) \in Nat \ {0} /\ Len(r) = Len(q) - 1
      /\ \A k \in 1..Len(r) : r[k] = q[k + 1]
  BY EmptySeq, HeadTailProperties
<1> SUFFICES ASSUME NEW i \in 1..Len(r), NEW d \in Docs, n < i, i < e - 1, r[i].kind = "snapshot"
    PROVE Told(r, n, i, t, d, d \in U, d \in At(h, r[i].n, t))
  BY DEF ToldUpTo
<1>2. /\ i + 1 \in 1..Len(q) /\ p < i + 1 /\ i + 1 < e /\ r[i] = q[i + 1] /\ i + 1 \in Nat
      /\ i + 1 > 1 /\ (i + 1) - 1 = i
  BY <1>1 DEF After
<1> DEFINE b == d \in At(h, q[i + 1].n, t)
<1>3. b \in BOOLEAN /\ Told(q, p, i + 1, t, d, d \in S, b)
  BY <1>2 DEF ToldUpTo
<1> HIDE DEF r, n, U, b
<1>4. Told(Tail(q), After(p), (i + 1) - 1, t, d, d \in Holds(q, p, t, S), b)
  BY <1>2, <1>3, ToldNext
<1> QED BY <1>2, <1>4 DEF r, n, U, b

\* And the end.
LEMMA AllNext ==
  ASSUME NEW M, NEW q \in Seq(M), q # <<>>, NEW p \in 0..Len(q),
         NEW h, NEW sv, NEW t, NEW S, ToldAll(h, sv, q, p, t, S)
  PROVE  ToldAll(h, sv, Tail(q), After(p), t, Holds(q, p, t, S))
<1> DEFINE e == Len(q) + 1
<1>1. Len(q) \in Nat \ {0} /\ e \in Nat /\ e > 1 /\ Len(Tail(q)) + 1 = e - 1
  BY EmptySeq, HeadTailProperties
<1> HIDE DEF e
<1>2. ToldUpTo(h, Tail(q), After(p), e - 1, t, Holds(q, p, t, S))
  BY <1>1, UpToNext DEF ToldAll, e
<1>3. ASSUME NEW d \in Docs
      PROVE  Told(Tail(q), After(p), e - 1, t, d, d \in Holds(q, p, t, S), d \in At(h, sv.at, t))
  <2> DEFINE b == d \in At(h, sv.at, t)
  <2>1. b \in BOOLEAN /\ Told(q, p, e, t, d, d \in S, b)
    BY DEF ToldAll, e
  <2> HIDE DEF b
  <2>2. Told(Tail(q), After(p), e - 1, t, d, d \in Holds(q, p, t, S), b)
    BY <1>1, <2>1, ToldNext
  <2> QED BY <2>2 DEF b
<1> QED BY <1>1, <1>2, <1>3 DEF ToldAll

\* A reader that follows still does once the first message is handled, unless that
\* is its count or its rejection.
LEMMA FollowsNext ==
  ASSUME NEW M, NEW q \in Seq(M), q # <<>>, NEW p \in 0..Len(q),
         NEW h, NEW sv, NEW t, NEW S, Follows(h, sv, q, p, t, S),
         p = 0 => ~Counts(Head(q), t) /\ ~Rejects(Head(q), t)
  PROVE  /\ After(p) \in 0..Len(Tail(q))
         /\ Follows(h, sv, Tail(q), After(p), t, Holds(q, p, t, S))
<1> DEFINE r == Tail(q)
           n == After(p)
           U == Holds(q, p, t, S)
<1>1. /\ Len(q) \in Nat \ {0} /\ Len(r) = Len(q) - 1 /\ Head(q) = q[1]
      /\ \A k \in 1..Len(r) : r[k] = q[k + 1] /\ k + 1 \in 1..Len(q)
      /\ \A k \in 1..Len(q) : k # 1 => k - 1 \in 1..Len(r) /\ r[k - 1] = q[k]
  BY EmptySeq, HeadTailProperties
<1>2. /\ n \in 0..Len(r) /\ (n # 0 => p = n + 1) /\ (p # 0 => p = n + 1)
      /\ \A k \in 1..Len(r) : n < k <=> p < k + 1
  BY <1>1 DEF After
<1> HIDE DEF r, n, U
<1>3. /\ n # 0 => r[n] \in Answers(t)
      /\ \A k \in 1..Len(r) : n < k => r[k] \notin Answers(t)
  <2>1. n # 0 => r[n] \in Answers(t)
    BY <1>1, <1>2 DEF Follows
  <2>2. \A k \in 1..Len(r) : n < k => r[k] \notin Answers(t)
    BY <1>1, <1>2 DEF Follows
  <2> QED BY <2>1, <2>2
<1>4. CASE /\ ToldAll(h, sv, q, p, t, S)
           /\ \A k \in 1..Len(q) : p < k => ~Counts(q[k], t) /\ ~Rejects(q[k], t)
  <2>1. ToldAll(h, sv, r, n, t, U)
    BY <1>4, AllNext DEF r, n, U
  <2>2. \A k \in 1..Len(r) : n < k => ~Counts(r[k], t) /\ ~Rejects(r[k], t)
    BY <1>1, <1>2, <1>4
  <2> QED BY <1>2, <1>3, <2>1, <2>2 DEF Follows, r, n, U
<1>5. ASSUME NEW f \in 1..Len(q), NEW s \in 1..Len(q), ToldCount(h, sv, q, p, f, s, t, S)
      PROVE  ToldCount(h, sv, r, n, f - 1, s - 1, t, U) /\ f - 1 \in 1..Len(r) /\ s - 1 \in 1..Len(r)
  <2> DEFINE counted == At(h, q[s].n, t)
  <2>1. /\ ~sv.fresh /\ p < f /\ Silent(q, f, s, t)
        /\ Counts(q[f], t) /\ q[f].n = Cardinality(counted)
        /\ \A k \in 1..Len(q) : p < k /\ Counts(q[k], t) => k = f
        /\ ToldUpTo(h, q, p, f, t, S)
        /\ \A d \in counted : Told(q, p, f, t, d, d \in S, TRUE)
        /\ ToldAll(h, sv, q, f, t, counted)
    BY <1>5 DEF ToldCount
  <2>2. f # 1
    <3>1. p = 0 => f # 1
      BY <1>1, <2>1
    <3>2. p # 0 => f # 1
      BY <2>1
    <3> QED BY <3>1, <3>2
  <2>3. f < s
    BY <2>1 DEF Silent
  <2>4. /\ f - 1 \in 1..Len(r) /\ s - 1 \in 1..Len(r) /\ r[f - 1] = q[f] /\ r[s - 1] = q[s]
        /\ f > 1 /\ f \in Nat /\ After(f) = f - 1 /\ Holds(q, f, t, counted) = counted
        /\ n < f - 1 /\ f - 1 < s - 1
    BY <1>1, <1>2, <2>1, <2>2, <2>3 DEF After, Holds
  <2> HIDE DEF counted
  <2>5. Silent(r, f - 1, s - 1, t)
    <3>1. r[s - 1].kind = "snapshot"
      BY <2>1, <2>4 DEF Silent
    <3>2. ASSUME NEW k \in 1..Len(r), f - 1 < k, k < s - 1 PROVE r[k].t # t /\ r[k].kind # "snapshot"
      <4>1. k + 1 \in 1..Len(q) /\ r[k] = q[k + 1] /\ f < k + 1 /\ k + 1 < s
        BY <1>1, <2>4, <3>2
      <4> QED BY <2>1, <4>1 DEF Silent
    <3> QED BY <2>4, <3>1, <3>2 DEF Silent
  <2>6. \A k \in 1..Len(r) : n < k /\ Counts(r[k], t) => k = f - 1
    BY <1>1, <1>2, <2>1
  <2>7. ToldUpTo(h, r, n, f - 1, t, U)
    BY <2>1, <2>4, UpToNext DEF r, n, U
  <2>8. \A d \in counted : Told(r, n, f - 1, t, d, d \in U, TRUE)
    BY <2>1, <2>4, ToldNext DEF r, n, U
  <2>9. ToldAll(h, sv, Tail(q), After(f), t, Holds(q, f, t, counted))
    BY <2>1, AllNext
  <2>10. ToldAll(h, sv, r, f - 1, t, counted)
    BY <2>4, <2>9 DEF r
  <2> QED BY <2>1, <2>4, <2>5, <2>6, <2>7, <2>8, <2>10 DEF ToldCount, counted
<1>6. ASSUME NEW x \in 1..Len(q), ToldReject(h, sv, q, p, x, t, S)
      PROVE  ToldReject(h, sv, r, n, x - 1, t, U) /\ x - 1 \in 1..Len(r)
  <2>1. p < x /\ Rejects(q[x], t) /\ sv.at = No /\ ToldUpTo(h, q, p, x, t, S)
    BY <1>6 DEF ToldReject
  <2>2. x # 1
    <3>1. p = 0 => x # 1
      BY <1>1, <2>1
    <3>2. p # 0 => x # 1
      BY <2>1
    <3> QED BY <3>1, <3>2
  <2>3. x - 1 \in 1..Len(r) /\ r[x - 1] = q[x] /\ n < x - 1 /\ x \in Nat
    BY <1>1, <1>2, <2>1, <2>2
  <2>4. ToldUpTo(h, r, n, x - 1, t, U)
    BY <2>1, <2>3, UpToNext DEF r, n, U
  <2> QED BY <2>1, <2>3, <2>4 DEF ToldReject
<1>7. Follows(h, sv, r, n, t, U)
  <2>1. CASE \E f, s \in 1..Len(q) : ToldCount(h, sv, q, p, f, s, t, S)
    BY <1>3, <1>5, <2>1 DEF Follows
  <2>2. CASE \E x \in 1..Len(q) : ToldReject(h, sv, q, p, x, t, S)
    BY <1>3, <1>6, <2>2 DEF Follows
  <2> QED BY <1>4, <2>1, <2>2 DEF Follows, r, n, U
<1> QED BY <1>2, <1>7 DEF r, n, U

\* w brings t from where sv has it to where sv2 has it, before its snapshot at the end.
Brings(h, sv, sv2, w, t) ==
  /\ sv2.at # No
  /\ \A j \in 1..Len(w) : w[j].kind = "snapshot" => w[j].n = sv2.at /\ j = Len(w)
  /\ \A d \in Docs, j \in 1..Len(w) : ~Tells(w[j], t, d, d \notin At(h, sv2.at, t))
  /\ \A d \in Docs : \/ d \in At(h, sv2.at, t) <=> d \in At(h, sv.at, t)
                     \/ \E j \in 1..(Len(w) - 1) : Tells(w[j], t, d, d \in At(h, sv2.at, t))

\* w tells all that its snapshot at s counts, and counts at f.
BringsCount(h, sv, sv2, w, f, s, t) ==
  LET counted == At(h, sv2.at, t)
  IN  /\ sv.fresh /\ ~sv2.fresh /\ sv.at # No /\ sv2.at # No /\ counted \subseteq Docs
      /\ Silent(w, f, s, t) /\ s = Len(w) /\ w[s].n = sv2.at
      /\ Counts(w[f], t) /\ w[f].n = Cardinality(counted)
      /\ \A k \in 1..Len(w) : Counts(w[k], t) => k = f
      /\ \A k \in 1..Len(w) : w[k].kind = "snapshot" => k = s
      /\ \A d \in Docs, k \in 1..Len(w) : ~Tells(w[k], t, d, FALSE)
      /\ \A d \in counted : \/ d \in At(h, sv.at, t)
                            \/ \E j \in 1..Len(w) : j < f /\ Tells(w[j], t, d, TRUE)

\* What comes behind changes no snapshot before it.
LEMMA UpToBefore ==
  ASSUME NEW M, NEW q \in Seq(M), NEW w \in Seq(M), NEW p \in 0..Len(q),
         NEW e \in 1..(Len(q) + 1), NEW h, NEW t, NEW S, ToldUpTo(h, q, p, e, t, S)
  PROVE  ToldUpTo(h, q \o w, p, e, t, S)
<1> DEFINE r == q \o w
<1>1. /\ Len(r) = Len(q) + Len(w) /\ Len(q) \in Nat /\ Len(w) \in Nat
      /\ \A k \in 1..Len(q) : r[k] = q[k]
  BY ConcatProperties, LenProperties
<1> SUFFICES ASSUME NEW i \in 1..Len(r), NEW d \in Docs, p < i, i < e, r[i].kind = "snapshot"
    PROVE Told(r, p, i, t, d, d \in S, d \in At(h, r[i].n, t))
  BY DEF ToldUpTo
<1> HIDE DEF r
<1>2. i \in 1..Len(q) /\ i \in 1..(Len(q) + 1) /\ r[i] = q[i] /\ p \in Nat
  BY <1>1
<1> DEFINE b == d \in At(h, q[i].n, t)
           base == d \in S
<1>3. b \in BOOLEAN /\ base \in BOOLEAN /\ Told(q, p, i, t, d, base, b)
  BY <1>2 DEF ToldUpTo
<1> HIDE DEF b, base
<1>4. Told(q \o w, p, i, t, d, base, b)
  BY <1>2, <1>3, ToldBefore
<1> QED BY <1>2, <1>4 DEF r, b, base

\* All is told, and brought on.
LEMMA AllBrought ==
  ASSUME NEW M, NEW q \in Seq(M), NEW w \in Seq(M), NEW p \in 0..Len(q),
         NEW h, NEW sv, NEW sv2, NEW t, NEW S, ToldAll(h, sv, q, p, t, S), Brings(h, sv, sv2, w, t)
  PROVE  ToldAll(h, sv2, q \o w, p, t, S)
<1> DEFINE r == q \o w
<1>1. /\ Len(r) = Len(q) + Len(w) /\ Len(q) \in Nat /\ Len(w) \in Nat
      /\ \A k \in 1..(Len(q) + Len(w)) : r[k] = IF k <= Len(q) THEN q[k] ELSE w[k - Len(q)]
  BY ConcatProperties, LenProperties
<1>2. ToldUpTo(h, r, p, Len(q) + 1, t, S)
  <2>1. Len(q) + 1 \in 1..(Len(q) + 1)
    BY <1>1
  <2> QED BY <2>1, UpToBefore DEF ToldAll
<1>3. ASSUME NEW d \in Docs, NEW i \in Nat, i > Len(q), i >= Len(r)
      PROVE  Told(r, p, i, t, d, d \in S, d \in At(h, sv2.at, t))
  <2> DEFINE b == d \in At(h, sv2.at, t)
             base == d \in S
  <2>1. b \in BOOLEAN /\ base \in BOOLEAN /\ \A j \in 1..Len(w) : ~Tells(w[j], t, d, ~b)
    BY DEF Brings
  <2>2. \/ Told(q, p, Len(q) + 1, t, d, base, b)
        \/ \E j \in 1..(Len(w) - 1) : Tells(w[j], t, d, b)
    <3>1. Told(q, p, Len(q) + 1, t, d, base, d \in At(h, sv.at, t))
      BY DEF ToldAll
    <3>2. \/ d \in At(h, sv2.at, t) <=> d \in At(h, sv.at, t)
          \/ \E j \in 1..(Len(w) - 1) : Tells(w[j], t, d, d \in At(h, sv2.at, t))
      BY DEF Brings
    <3> HIDE DEF base
    <3> QED BY <3>1, <3>2 DEF Told
  <2> HIDE DEF b, base, r
  <2>3. \/ Told(q, p, Len(q) + 1, t, d, base, b)
        \/ \E j \in 1..Len(w) : Len(q) + j < i /\ Tells(w[j], t, d, b)
    BY <1>1, <1>3, <2>2
  <2>4. Told(q \o w, p, i, t, d, base, b)
    BY <1>3, <2>1, <2>3, ToldOn
  <2> QED BY <2>4 DEF b, base, r
<1> HIDE DEF r
<1>4. ASSUME NEW i \in 1..Len(r), NEW d \in Docs, p < i, i < Len(r) + 1, r[i].kind = "snapshot"
      PROVE  Told(r, p, i, t, d, d \in S, d \in At(h, r[i].n, t))
  <2>1. CASE i < Len(q) + 1
    BY <1>2, <1>4, <2>1 DEF ToldUpTo
  <2>2. CASE i > Len(q)
    <3>1. i - Len(q) \in 1..Len(w) /\ r[i] = w[i - Len(q)]
      BY <1>1, <2>2
    <3>2. r[i].n = sv2.at /\ i = Len(r)
      BY <1>1, <1>4, <3>1 DEF Brings
    <3>3. i \in Nat /\ i >= Len(r)
      BY <3>2
    <3> QED BY <1>3, <2>2, <3>2, <3>3
  <2> QED BY <1>1, <2>1, <2>2
<1>5. ToldUpTo(h, r, p, Len(r) + 1, t, S)
  BY <1>4 DEF ToldUpTo
<1>6. \A d \in Docs : Told(r, p, Len(r) + 1, t, d, d \in S, d \in At(h, sv2.at, t))
  BY <1>1, <1>3
<1> QED BY <1>5, <1>6 DEF ToldAll, r, Brings

\* The reader's place and its answers are as before, if w has none.
LEMMA FollowsPlace ==
  ASSUME NEW M, NEW q \in Seq(M), NEW w \in Seq(M), NEW p \in 0..Len(q),
         NEW h, NEW sv, NEW t, NEW S, Follows(h, sv, q, p, t, S),
         \A j \in 1..Len(w) : w[j] \notin Answers(t)
  PROVE  /\ Len(q \o w) = Len(q) + Len(w) /\ Len(q) \in Nat /\ Len(w) \in Nat
         /\ \A k \in 1..Len(q) : (q \o w)[k] = q[k] /\ k \in 1..Len(q \o w)
         /\ \A k \in 1..Len(w) : (q \o w)[Len(q) + k] = w[k] /\ Len(q) + k \in 1..Len(q \o w)
         /\ \A k \in 1..Len(q \o w) : k > Len(q) => k - Len(q) \in 1..Len(w) /\ (q \o w)[k] = w[k - Len(q)]
         /\ p # 0 => (q \o w)[p] \in Answers(t)
         /\ \A k \in 1..Len(q \o w) : p < k => (q \o w)[k] \notin Answers(t)
<1> DEFINE r == q \o w
<1>1. /\ Len(r) = Len(q) + Len(w) /\ Len(q) \in Nat /\ Len(w) \in Nat
      /\ \A k \in 1..(Len(q) + Len(w)) : r[k] = IF k <= Len(q) THEN q[k] ELSE w[k - Len(q)]
  BY ConcatProperties, LenProperties
<1> HIDE DEF r
<1>2. /\ \A k \in 1..Len(q) : r[k] = q[k] /\ k \in 1..Len(r)
      /\ \A k \in 1..Len(w) : r[Len(q) + k] = w[k] /\ Len(q) + k \in 1..Len(r)
      /\ \A k \in 1..Len(r) : k > Len(q) => k - Len(q) \in 1..Len(w) /\ r[k] = w[k - Len(q)]
  BY <1>1
<1>3. p # 0 => r[p] \in Answers(t)
  BY <1>1 DEF Follows
<1>4. \A k \in 1..Len(r) : p < k => r[k] \notin Answers(t)
  <2> SUFFICES ASSUME NEW k \in 1..Len(r), p < k PROVE r[k] \notin Answers(t)
    OBVIOUS
  <2>1. CASE k > Len(q)
    BY <1>2, <2>1
  <2>2. CASE ~(k > Len(q))
    <3>1. k \in 1..Len(q) /\ r[k] = q[k]
      BY <1>1, <2>2
    <3> QED BY <3>1 DEF Follows
  <2> QED BY <2>1, <2>2
<1> QED BY <1>1, <1>2, <1>3, <1>4 DEF r

\* A reader that follows still does when the server goes on with w and does not count
\* for t: it brings t on, or does not serve it.
LEMMA FollowsConcat ==
  ASSUME NEW M, NEW q \in Seq(M), NEW w \in Seq(M), NEW p \in 0..Len(q),
         NEW h, NEW sv, NEW sv2, NEW t, NEW S, Follows(h, sv, q, p, t, S),
         \A j \in 1..Len(w) : w[j] \notin Answers(t) /\ ~Counts(w[j], t) /\ ~Rejects(w[j], t),
         sv.at # No => Brings(h, sv, sv2, w, t) /\ (sv2.fresh => sv.fresh),
         sv.at = No => sv2.at = No
  PROVE  Follows(h, sv2, q \o w, p, t, S)
<1> DEFINE r == q \o w
<1>1. /\ Len(r) = Len(q) + Len(w) /\ Len(q) \in Nat /\ Len(w) \in Nat
      /\ \A k \in 1..Len(q) : r[k] = q[k] /\ k \in 1..Len(r)
      /\ \A k \in 1..Len(r) : k > Len(q) => k - Len(q) \in 1..Len(w) /\ r[k] = w[k - Len(q)]
      /\ p # 0 => r[p] \in Answers(t)
      /\ \A k \in 1..Len(r) : p < k => r[k] \notin Answers(t)
  BY FollowsPlace
<1>2. \A k \in 1..Len(r) : k \notin 1..Len(q) => ~Counts(r[k], t) /\ ~Rejects(r[k], t)
  BY <1>1
<1> HIDE DEF r
<1>3. CASE /\ ToldAll(h, sv, q, p, t, S)
           /\ \A k \in 1..Len(q) : p < k => ~Counts(q[k], t) /\ ~Rejects(q[k], t)
  <2>1. Brings(h, sv, sv2, w, t)
    BY <1>3 DEF ToldAll
  <2>2. ToldAll(h, sv2, r, p, t, S)
    BY <1>3, <2>1, AllBrought DEF r
  <2>3. \A k \in 1..Len(r) : p < k => ~Counts(r[k], t) /\ ~Rejects(r[k], t)
    BY <1>1, <1>2, <1>3
  <2> QED BY <1>1, <2>2, <2>3 DEF Follows, r
<1>4. ASSUME NEW f \in 1..Len(q), NEW s \in 1..Len(q), ToldCount(h, sv, q, p, f, s, t, S)
      PROVE  ToldCount(h, sv2, r, p, f, s, t, S) /\ f \in 1..Len(r) /\ s \in 1..Len(r)
  <2> DEFINE counted == At(h, q[s].n, t)
  <2>1. /\ ~sv.fresh /\ p < f /\ Silent(q, f, s, t)
        /\ Counts(q[f], t) /\ q[f].n = Cardinality(counted)
        /\ \A k \in 1..Len(q) : p < k /\ Counts(q[k], t) => k = f
        /\ ToldUpTo(h, q, p, f, t, S)
        /\ \A d \in counted : Told(q, p, f, t, d, d \in S, TRUE)
        /\ ToldAll(h, sv, q, f, t, counted)
    BY <1>4 DEF ToldCount
  <2>2. Brings(h, sv, sv2, w, t) /\ ~sv2.fresh
    BY <2>1 DEF ToldAll
  <2>3. r[f] = q[f] /\ r[s] = q[s] /\ f \in 1..Len(r) /\ s \in 1..Len(r) /\ f \in 0..Len(q)
        /\ f \in 1..(Len(q) + 1) /\ p \in Nat
    BY <1>1
  <2> HIDE DEF counted
  <2>4. Silent(r, f, s, t)
    <3>1. \A k \in 1..Len(r) : k < s => k \in 1..Len(q)
      BY <1>1
    <3> QED BY <1>1, <2>1, <2>3, <3>1 DEF Silent
  <2>5. \A k \in 1..Len(r) : p < k /\ Counts(r[k], t) => k = f
    BY <1>1, <1>2, <2>1
  <2>6. ToldUpTo(h, r, p, f, t, S)
    BY <2>1, <2>3, UpToBefore DEF r
  <2>7. \A d \in counted : Told(r, p, f, t, d, d \in S, TRUE)
    <3> SUFFICES ASSUME NEW d \in counted PROVE Told(r, p, f, t, d, d \in S, TRUE)
      OBVIOUS
    <3> DEFINE base == d \in S
    <3>1. Told(q, p, f, t, d, base, TRUE)
      BY <2>1
    <3>2. base \in BOOLEAN
      OBVIOUS
    <3> HIDE DEF base
    <3>3. Told(q \o w, p, f, t, d, base, TRUE)
      BY <2>3, <3>1, <3>2, ToldBefore
    <3> QED BY <3>3 DEF r, base
  <2>8. ToldAll(h, sv2, r, f, t, counted)
    BY <2>1, <2>2, <2>3, AllBrought DEF r
  <2> QED BY <2>1, <2>2, <2>3, <2>4, <2>5, <2>6, <2>7, <2>8 DEF ToldCount, counted
<1>5. ASSUME NEW x \in 1..Len(q), ToldReject(h, sv, q, p, x, t, S)
      PROVE  ToldReject(h, sv2, r, p, x, t, S) /\ x \in 1..Len(r)
  <2>1. p < x /\ Rejects(q[x], t) /\ sv.at = No /\ ToldUpTo(h, q, p, x, t, S)
    BY <1>5 DEF ToldReject
  <2>2. r[x] = q[x] /\ x \in 1..Len(r) /\ x \in 1..(Len(q) + 1)
    BY <1>1
  <2>3. ToldUpTo(h, r, p, x, t, S)
    BY <2>1, <2>2, UpToBefore DEF r
  <2> QED BY <2>1, <2>2, <2>3 DEF ToldReject
<1>6. CASE \E f, s \in 1..Len(q) : ToldCount(h, sv, q, p, f, s, t, S)
  BY <1>1, <1>4, <1>6 DEF Follows, r
<1>7. CASE \E x \in 1..Len(q) : ToldReject(h, sv, q, p, x, t, S)
  BY <1>1, <1>5, <1>7 DEF Follows, r
<1> QED BY <1>3, <1>6, <1>7 DEF Follows

\* A reader that follows still does when the server counts.
LEMMA FollowsCounted ==
  ASSUME NEW M, NEW q \in Seq(M), NEW w \in Seq(M), NEW p \in 0..Len(q),
         NEW h, NEW sv, NEW sv2, NEW t, NEW S, Follows(h, sv, q, p, t, S),
         \A j \in 1..Len(w) : w[j] \notin Answers(t),
         NEW f \in 1..Len(w), NEW s \in 1..Len(w), BringsCount(h, sv, sv2, w, f, s, t)
  PROVE  Follows(h, sv2, q \o w, p, t, S)
<1> DEFINE r == q \o w
           g == Len(q) + f
           e == Len(q) + s
           counted == At(h, sv2.at, t)
<1>1. /\ Len(r) = Len(q) + Len(w) /\ Len(q) \in Nat /\ Len(w) \in Nat
      /\ \A k \in 1..Len(q) : r[k] = q[k] /\ k \in 1..Len(r)
      /\ \A k \in 1..Len(w) : r[Len(q) + k] = w[k] /\ Len(q) + k \in 1..Len(r)
      /\ \A k \in 1..Len(r) : k > Len(q) => k - Len(q) \in 1..Len(w) /\ r[k] = w[k - Len(q)]
      /\ p # 0 => r[p] \in Answers(t)
      /\ \A k \in 1..Len(r) : p < k => r[k] \notin Answers(t)
  BY FollowsPlace
<1> HIDE DEF r
<1>2. /\ ToldAll(h, sv, q, p, t, S)
      /\ \A k \in 1..Len(q) : p < k => ~Counts(q[k], t)
  BY DEF Follows, ToldCount, ToldReject, BringsCount
<1>3. /\ Silent(w, f, s, t) /\ s = Len(w) /\ w[s].n = sv2.at /\ ~sv2.fresh /\ sv2.at # No
      /\ Counts(w[f], t) /\ w[f].n = Cardinality(counted)
      /\ \A k \in 1..Len(w) : Counts(w[k], t) => k = f
      /\ \A k \in 1..Len(w) : w[k].kind = "snapshot" => k = s
      /\ \A d \in Docs, k \in 1..Len(w) : ~Tells(w[k], t, d, FALSE)
      /\ counted \subseteq Docs
      /\ \A d \in counted : \/ d \in At(h, sv.at, t)
                            \/ \E j \in 1..Len(w) : j < f /\ Tells(w[j], t, d, TRUE)
  BY DEF BringsCount
<1>4. /\ g \in 1..Len(r) /\ e \in 1..Len(r) /\ r[g] = w[f] /\ r[e] = w[s] /\ e = Len(r)
      /\ p < g /\ g < e
  BY <1>1, <1>3 DEF Silent
<1> HIDE DEF counted
<1>5. Silent(r, g, e, t)
  <2> SUFFICES ASSUME NEW k \in 1..Len(r), g < k, k < e PROVE r[k].t # t /\ r[k].kind # "snapshot"
    BY <1>3, <1>4 DEF Silent
  <2>1. k - Len(q) \in 1..Len(w) /\ r[k] = w[k - Len(q)] /\ f < k - Len(q) /\ k - Len(q) < s
    <3>1. k > Len(q)
      BY <1>1
    <3>2. f < k - Len(q) /\ k - Len(q) < s
      BY <1>1
    <3> QED BY <1>1, <3>1, <3>2
  <2> QED BY <1>3, <2>1 DEF Silent
<1>6. \A k \in 1..Len(r) : p < k /\ Counts(r[k], t) => k = g
  <2> SUFFICES ASSUME NEW k \in 1..Len(r), p < k, Counts(r[k], t) PROVE k = g
    OBVIOUS
  <2>1. CASE k \in 1..Len(q)
    BY <1>1, <1>2, <2>1
  <2>2. CASE k \notin 1..Len(q)
    <3>1. k - Len(q) \in 1..Len(w) /\ r[k] = w[k - Len(q)]
      BY <1>1, <2>2
    <3>2. k - Len(q) = f
      BY <1>3, <3>1
    <3> QED BY <1>1, <3>2
  <2> QED BY <2>1, <2>2
<1>7. ToldUpTo(h, r, p, g, t, S)
  <2>1. ToldUpTo(h, r, p, Len(q) + 1, t, S)
    <3>1. Len(q) + 1 \in 1..(Len(q) + 1)
      BY <1>1
    <3> QED BY <1>2, <3>1, UpToBefore DEF ToldAll, r
  <2>2. \A i \in 1..Len(r) : i < g /\ r[i].kind = "snapshot" => i < Len(q) + 1
    <3> SUFFICES ASSUME NEW i \in 1..Len(r), i < g, r[i].kind = "snapshot", i > Len(q) PROVE FALSE
      BY <1>1
    <3>1. i - Len(q) \in 1..Len(w) /\ r[i] = w[i - Len(q)]
      BY <1>1
    <3>2. i - Len(q) = s
      BY <1>3, <3>1
    <3> QED BY <1>1, <1>4, <3>2
  <2> HIDE DEF g
  <2> QED BY <2>1, <2>2 DEF ToldUpTo
<1>8. \A d \in counted : Told(r, p, g, t, d, d \in S, TRUE)
  <2> SUFFICES ASSUME NEW d \in counted PROVE Told(r, p, g, t, d, d \in S, TRUE)
    OBVIOUS
  <2> DEFINE base == d \in S
  <2>1. d \in Docs /\ base \in BOOLEAN
    BY <1>3
  <2>2. d \in At(h, sv.at, t) => Told(q, p, Len(q) + 1, t, d, base, TRUE)
    <3>1. Told(q, p, Len(q) + 1, t, d, base, d \in At(h, sv.at, t))
      BY <1>2, <2>1 DEF ToldAll
    <3> HIDE DEF base
    <3> QED BY <3>1 DEF Told
  <2> HIDE DEF base
  <2>3. \/ Told(q, p, Len(q) + 1, t, d, base, TRUE)
        \/ \E j \in 1..Len(w) : Len(q) + j < g /\ Tells(w[j], t, d, TRUE)
    <3>1. ASSUME NEW j \in 1..Len(w), j < f PROVE Len(q) + j < g
      BY <1>1, <3>1
    <3> HIDE DEF g
    <3> QED BY <1>3, <2>2, <3>1
  <2>4. \A j \in 1..Len(w) : ~Tells(w[j], t, d, ~TRUE)
    BY <1>3, <2>1
  <2>5. g \in Nat /\ g > Len(q)
    BY <1>1
  <2> HIDE DEF g
  <2>6. Told(q \o w, p, g, t, d, base, TRUE)
    BY <2>1, <2>3, <2>4, <2>5, ToldOn
  <2> QED BY <2>6 DEF r, base
<1>9. ToldAll(h, sv2, r, g, t, counted)
  <2>1. ASSUME NEW d \in Docs, NEW i \in Nat, i >= e
        PROVE  Told(r, g, i, t, d, d \in counted, d \in counted)
    <3>1. \A k \in 1..Len(r) : g < k => r[k].t # t \/ r[k].kind = "snapshot"
      <4> SUFFICES ASSUME NEW k \in 1..Len(r), g < k PROVE r[k].t # t \/ r[k].kind = "snapshot"
        OBVIOUS
      <4>1. CASE k = e
        BY <1>5, <4>1 DEF Silent
      <4>2. CASE k # e
        <5>1. e = Len(r) /\ Len(r) \in Nat
          BY <1>1, <1>4
        <5> HIDE DEF e
        <5>2. k < e
          BY <4>2, <5>1
        <5> QED BY <1>5, <5>2 DEF Silent
      <4> QED BY <4>1, <4>2
    <3> DEFINE base == d \in counted
    <3> HIDE DEF base
    <3>4. \A k \in 1..Len(r) : g < k => ~Tells(r[k], t, d, ~base)
      BY <3>1 DEF Tells
    <3>5. Told(r, g, i, t, d, base, base)
      BY <3>4 DEF Told
    <3> QED BY <3>5 DEF base
  <2>2. \A k \in 1..Len(r) : g < k /\ r[k].kind = "snapshot" => k = e
    <3>1. Len(r) \in Nat /\ g \in Nat
      BY <1>1
    <3> HIDE DEF g, e
    <3> QED BY <1>4, <1>5, <3>1 DEF Silent
  <2>3. At(h, r[e].n, t) = counted
    BY <1>3, <1>4 DEF counted
  <2>4. e \in Nat /\ e >= e /\ Len(r) + 1 \in Nat /\ Len(r) + 1 >= e
    BY <1>1, <1>4
  <2> HIDE DEF e, g
  <2>5. ToldUpTo(h, r, g, Len(r) + 1, t, counted)
    <3> SUFFICES ASSUME NEW k \in 1..Len(r), NEW d \in Docs, g < k, r[k].kind = "snapshot"
        PROVE Told(r, g, k, t, d, d \in counted, d \in At(h, r[k].n, t))
      BY DEF ToldUpTo
    <3>1. k = e
      BY <2>2
    <3> QED BY <2>1, <2>3, <2>4, <3>1
  <2>6. \A d \in Docs : Told(r, g, Len(r) + 1, t, d, d \in counted, d \in At(h, sv2.at, t))
    BY <2>1, <2>4 DEF counted
  <2> QED BY <1>3, <2>5, <2>6 DEF ToldAll
<1>10. ToldCount(h, sv2, r, p, g, e, t, S)
  <2>1. At(h, r[e].n, t) = counted
    BY <1>3, <1>4 DEF counted
  <2> HIDE DEF g, e
  <2> QED BY <1>3, <1>4, <1>5, <1>6, <1>7, <1>8, <1>9, <2>1 DEF ToldCount
<1> HIDE DEF g, e
<1> QED BY <1>1, <1>4, <1>10 DEF Follows, r

\* A reader that follows and is sent no count still follows when it is rejected.
LEMMA FollowsRejected ==
  ASSUME NEW M, NEW q \in Seq(M), NEW w \in Seq(M), NEW p \in 0..Len(q),
         NEW h, NEW sv, NEW sv2, NEW t, NEW S, Follows(h, sv, q, p, t, S),
         sv.at # No, sv2.at = No, Len(w) = 1, Rejects(w[1], t),
         \A k \in 1..Len(q) : ~Counts(q[k], t)
  PROVE  Follows(h, sv2, q \o w, p, t, S)
<1> DEFINE r == q \o w
           x == Len(q) + 1
<1>2. \A j \in 1..Len(w) : w[j] \notin Answers(t)
  BY DEF Rejects, Answers
<1>3. /\ Len(r) = Len(q) + Len(w) /\ Len(q) \in Nat /\ Len(w) \in Nat
      /\ \A k \in 1..Len(q) : r[k] = q[k] /\ k \in 1..Len(r)
      /\ \A k \in 1..Len(w) : r[Len(q) + k] = w[k] /\ Len(q) + k \in 1..Len(r)
      /\ \A k \in 1..Len(r) : k > Len(q) => k - Len(q) \in 1..Len(w) /\ r[k] = w[k - Len(q)]
      /\ p # 0 => r[p] \in Answers(t)
      /\ \A k \in 1..Len(r) : p < k => r[k] \notin Answers(t)
  <2> HIDE DEF x
  <2> QED BY <1>2, FollowsPlace
<1>4. ToldAll(h, sv, q, p, t, S)
  BY DEF Follows, ToldCount, ToldReject
<1>5. x \in 1..(Len(q) + 1) /\ x \in 1..Len(r) /\ r[x] = w[1] /\ p < x
  BY <1>3
<1>6. ToldUpTo(h, r, p, x, t, S)
  BY <1>4, <1>5, UpToBefore DEF ToldAll
<1> HIDE DEF r, x
<1>7. ToldReject(h, sv2, r, p, x, t, S)
  BY <1>5, <1>6 DEF ToldReject
<1> QED BY <1>3, <1>5, <1>7 DEF Follows, r

\* New states of the server change nothing of what is told of earlier ones.
LEMMA FollowsLater ==
  ASSUME NEW h, NEW h2, NEW sv, NEW q, NEW p, NEW t, NEW S, Follows(h, sv, q, p, t, S),
         \A i \in 1..Len(q) : q[i].kind = "snapshot" => At(h2, q[i].n, t) = At(h, q[i].n, t),
         sv.at # No => At(h2, sv.at, t) = At(h, sv.at, t)
  PROVE  Follows(h2, sv, q, p, t, S)
<1>1. \A P, e, U : ToldUpTo(h, q, P, e, t, U) => ToldUpTo(h2, q, P, e, t, U)
  BY DEF ToldUpTo
<1>2. \A P, U : ToldAll(h, sv, q, P, t, U) => ToldAll(h2, sv, q, P, t, U)
  BY <1>1 DEF ToldAll
<1>3. \A f, s \in 1..Len(q) : ToldCount(h, sv, q, p, f, s, t, S) => ToldCount(h2, sv, q, p, f, s, t, S)
  BY <1>1, <1>2 DEF ToldCount, Silent
<1>4. \A x : ToldReject(h, sv, q, p, x, t, S) => ToldReject(h2, sv, q, p, x, t, S)
  BY <1>1 DEF ToldReject
<1> QED BY <1>2, <1>3, <1>4 DEF Follows

\* Who holds what matches where the server has t follows from its answer on.
LEMMA FollowsStart ==
  ASSUME NEW M, NEW q \in Seq(M), NEW a \in M, NEW h, NEW sv, NEW t, NEW S,
         a \in Answers(t), sv.at # No, S = At(h, sv.at, t)
  PROVE  Follows(h, sv, Append(q, a), Len(q) + 1, t, S) /\ Len(Append(q, a)) = Len(q) + 1
<1> DEFINE r == Append(q, a)
           p == Len(q) + 1
<1>1. /\ Len(r) = p /\ Len(q) \in Nat /\ r[p] = a
      /\ \A k \in 1..Len(q) : r[k] = q[k]
  BY AppendProperties, LenProperties
<1> HIDE DEF r
<1>2. \A k \in 1..Len(r) : ~(p < k)
  BY <1>1
<1>3. \A d, b : (d \in S <=> b) => Told(r, p, Len(r) + 1, t, d, d \in S, b)
  BY <1>2 DEF Told
<1>4. ToldAll(h, sv, r, p, t, S)
  BY <1>2, <1>3 DEF ToldAll, ToldUpTo
<1> HIDE DEF p
<1> QED BY <1>1, <1>2, <1>4 DEF Follows, r, p

\* Who follows to a snapshot holds what matched at its version.
LEMMA FollowsExact ==
  ASSUME NEW M, NEW q \in Seq(M), q # <<>>, Head(q).kind = "snapshot",
         NEW h, NEW sv, NEW t, NEW S, Follows(h, sv, q, 0, t, S),
         S \subseteq Docs, At(h, Head(q).n, t) \subseteq Docs
  PROVE  S = At(h, Head(q).n, t)
<1>1. Len(q) \in Nat \ {0} /\ Head(q) = q[1] /\ 1 \in 1..Len(q)
  BY EmptySeq, LenProperties
<1>2. \E e \in Nat : 1 < e /\ ToldUpTo(h, q, 0, e, t, S)
  <2>1. CASE ToldAll(h, sv, q, 0, t, S)
    <3>1. Len(q) + 1 \in Nat /\ 1 < Len(q) + 1
      BY <1>1
    <3> QED BY <2>1, <3>1 DEF ToldAll
  <2>2. ASSUME NEW f \in 1..Len(q), NEW s \in 1..Len(q), ToldCount(h, sv, q, 0, f, s, t, S)
        PROVE  f \in Nat /\ 1 < f /\ ToldUpTo(h, q, 0, f, t, S)
    BY <1>1, <2>2 DEF ToldCount, Counts
  <2>3. ASSUME NEW x \in 1..Len(q), ToldReject(h, sv, q, 0, x, t, S)
        PROVE  x \in Nat /\ 1 < x /\ ToldUpTo(h, q, 0, x, t, S)
    BY <1>1, <2>3 DEF ToldReject, Rejects
  <2> QED BY <2>1, <2>2, <2>3 DEF Follows
<1>3. \A d \in Docs : Told(q, 0, 1, t, d, d \in S, d \in At(h, q[1].n, t))
  BY <1>1, <1>2 DEF ToldUpTo
<1>4. \A d \in Docs : d \in S <=> d \in At(h, q[1].n, t)
  <2>1. \A j \in 1..Len(q) : ~(0 < j /\ j < 1)
    OBVIOUS
  <2> QED BY <1>3, <2>1 DEF Told
<1> QED BY <1>1, <1>4

\* Behind a count, who holds what it counts follows; and is told no more before the
\* next snapshot.
LEMMA FollowsRightCount ==
  ASSUME NEW M, NEW q \in Seq(M), q # <<>>, NEW h, NEW sv, NEW t, NEW S,
         Counts(Head(q), t), Follows(h, sv, q, 0, t, S),
         \A k \in 1..Len(q) : ~Rejects(q[k], t)
  PROVE  /\ \E s \in 1..Len(q) :
              LET counted == At(h, q[s].n, t)
              IN  /\ q[s].kind = "snapshot" /\ Head(q).n = Cardinality(counted)
                  /\ counted \subseteq S /\ Follows(h, sv, Tail(q), 0, t, counted)
         /\ \E s \in 1..Len(Tail(q)) : Silent(Tail(q), 0, s, t)
<1> DEFINE r == Tail(q)
<1>1. /\ Len(q) \in Nat \ {0} /\ Head(q) = q[1] /\ 1 \in 1..Len(q) /\ Len(r) = Len(q) - 1
      /\ \A k \in 1..Len(r) : r[k] = q[k + 1] /\ k + 1 \in 1..Len(q)
  BY EmptySeq, HeadTailProperties
<1>2. PICK f \in 1..Len(q), s \in 1..Len(q) : ToldCount(h, sv, q, 0, f, s, t, S)
  BY <1>1 DEF Follows, ToldReject
<1> DEFINE counted == At(h, q[s].n, t)
<1>3. /\ Silent(q, f, s, t) /\ Counts(q[f], t) /\ q[f].n = Cardinality(counted)
      /\ \A k \in 1..Len(q) : 0 < k /\ Counts(q[k], t) => k = f
      /\ \A d \in counted : Told(q, 0, f, t, d, d \in S, TRUE)
      /\ ToldAll(h, sv, q, f, t, counted)
  BY <1>2 DEF ToldCount
<1> HIDE DEF counted, r
<1>4. f = 1
  BY <1>1, <1>3
<1>5. s - 1 \in 1..Len(r) /\ Silent(r, 0, s - 1, t)
  <2>1. s > 1 /\ s - 1 \in 1..Len(r) /\ r[s - 1] = q[s]
    BY <1>1, <1>3, <1>4 DEF Silent
  <2>2. \A k \in 1..Len(r) : 0 < k /\ k < s - 1 => r[k].t # t /\ r[k].kind # "snapshot"
    BY <1>1, <1>3, <1>4 DEF Silent
  <2> QED BY <1>3, <2>1, <2>2 DEF Silent
<1>6. counted \subseteq S
  <2>1. \A j \in 1..Len(q) : ~(0 < j /\ j < 1)
    OBVIOUS
  <2> QED BY <1>3, <1>4, <2>1 DEF Told
<1>7. Follows(h, sv, r, 0, t, counted)
  <2>1. 1 \in 0..Len(q) /\ After(1) = 0 /\ Holds(q, 1, t, counted) = counted
    BY <1>1 DEF After, Holds
  <2>2. ToldAll(h, sv, q, 1, t, counted)
    BY <1>3, <1>4
  <2>3. ToldAll(h, sv, r, 0, t, counted)
    BY <2>1, <2>2, AllNext DEF r
  <2>4. \A k \in 1..Len(r) : r[k] \notin Answers(t) /\ ~Counts(r[k], t) /\ ~Rejects(r[k], t)
    <3> SUFFICES ASSUME NEW k \in 1..Len(r)
        PROVE r[k] \notin Answers(t) /\ ~Counts(r[k], t) /\ ~Rejects(r[k], t)
      OBVIOUS
    <3>1. r[k] = q[k + 1] /\ k + 1 \in 1..Len(q) /\ k + 1 # 1 /\ 0 < k + 1
      BY <1>1
    <3>2. ~Counts(r[k], t) /\ ~Rejects(r[k], t)
      BY <1>3, <1>4, <3>1
    <3>3. r[k] \notin Answers(t)
      BY <3>1 DEF Follows
    <3> QED BY <3>2, <3>3
  <2> QED BY <2>3, <2>4 DEF Follows
<1>8. q[s].kind = "snapshot" /\ Head(q).n = Cardinality(counted)
  BY <1>1, <1>3, <1>4 DEF Silent
<1> QED BY <1>5, <1>6, <1>7, <1>8 DEF r, counted

-----------------------------------------------------------------------------
(***************************************************************************)
(* Requests and answers.                                                   *)
(***************************************************************************)

\* Which requests and messages count for t.
LEMMA Kinds ==
  ASSUME NEW t
  PROVE  /\ \A r \in Request : r \in Requests(t) <=> r.t = t
         /\ \A m \in Message : m \in Answers(t) <=> m.t = t /\ m.kind \in {"added", "removed"}
<1>1. \A r \in Request : r \in Requests(t) <=> r.t = t
  BY DEF Request, Requests
<1>2. \A m \in Message : m \in Answers(t) <=> m.t = t /\ m.kind \in {"added", "removed"}
  BY DEF Message, Answers
<1> QED BY <1>1, <1>2

\* The state of a target, and what it becomes.
LEMMA StateType ==
  /\ NewState \in Target
  /\ \A s \in Target : [s EXCEPT !.outstanding = @ + 1] \in Target
  /\ \A s \in Target, n \in Int : [s EXCEPT !.outstanding = n] \in Target
  /\ \A s \in Target, f \in [Docs -> Change] : [s EXCEPT !.docs = f] \in Target
<1>1. NewState \in Target
  BY DEF NewState, Target, Change
<1>2. \A s \in Target : [s EXCEPT !.outstanding = @ + 1] \in Target
  BY DEF Target
<1>3. \A s \in Target, n \in Int : [s EXCEPT !.outstanding = n] \in Target
  BY DEF Target
<1>4. \A s \in Target, f \in [Docs -> Change] : [s EXCEPT !.docs = f] \in Target
  BY DEF Target
<1> QED BY <1>1, <1>2, <1>3, <1>4

\* What matched in a state that was is a set of documents.
LEMMA MatchingType ==
  ASSUME Types, NEW v \in Versions, NEW t \in Targets
  PROVE  /\ Matching(v, t) = At(hist, v, t) /\ Matching(v, t) \subseteq Docs
         /\ t \in Documents => Matching(v, t) \subseteq {Key[t]}
<1>1. CASE v = 0
  BY <1>1 DEF Matching, At
<1>2. CASE v # 0
  <2>1. hist \in Seq(Results) /\ v \in 1..Len(hist)
    BY <1>2, LenProperties DEF Types, Versions, Now
  <2>2. hist[v] \in Results
    BY <2>1, ElementOfSeq
  <2> QED BY <1>2, <2>2 DEF Matching, At, Results
<1> QED BY <1>1, <1>2

\* What is held is documents.
LEMMA HeldType ==
  ASSUME Types, NEW t \in Targets, NEW p
  PROVE  Held(p, t) \subseteq Docs /\ IsFiniteSet(Held(p, t))
<1>1. keys[t] \subseteq Docs
  BY DEF Types
<1>2. Held(p, t) \subseteq Docs
  BY <1>1 DEF Held, OfKind
<1> QED BY <1>2, WatchAssumption, FS_Subset

\* The first message, and those behind it.
LEMMA FirstMessage ==
  ASSUME Types, down # <<>>
  PROVE  /\ down \in Seq(Message) /\ Len(down) \in Nat \ {0} /\ 1 \in 1..Len(down)
         /\ Head(down) = down[1] /\ Head(down) \in Message
         /\ Tail(down) \in Seq(Message) /\ Len(Tail(down)) = Len(down) - 1
         /\ \A i \in 1..Len(Tail(down)) : Tail(down)[i] = down[i + 1] /\ i + 1 \in 1..Len(down)
BY EmptySeq, HeadTailProperties DEF Types

\* What the count of answers awaited says of t: none when nothing is asked and every
\* answer is read, one when the only answer is next.
LEMMA Waiting ==
  ASSUME Types, Awaited, NEW t \in Targets, Kept(t)
  PROVE  /\ agg[t].outstanding \in Nat
         /\ ~Unasked(t) => agg[t].outstanding # 0
         /\ (\E i \in 1..Len(down) : down[i] \in Answers(t)) => agg[t].outstanding # 0
         /\ Unasked(t) /\ (\A i \in 1..Len(down) : down[i] \notin Answers(t)) => agg[t].outstanding = 0
         /\ Asked(t) => agg[t].outstanding # 0
         /\ \A p \in 0..Len(down) : FollowedFrom(t, p) =>
              /\ p = 0 <=> agg[t].outstanding = 0
              /\ p = 1 => agg[t].outstanding = 1
<1> DEFINE u == Number(up, Requests(t))
           a == Number(down, Answers(t))
<1>1. up \in Seq(Request) /\ down \in Seq(Message)
  BY DEF Types
<1>2. /\ u \in Nat /\ (u = 0 <=> \A i \in 1..Len(up) : up[i] \notin Requests(t))
      /\ a \in Nat /\ (a = 0 <=> \A i \in 1..Len(down) : down[i] \notin Answers(t))
  BY <1>1, NumberType
<1>3. agg[t].outstanding = u + a
  BY DEF Awaited
<1>4. /\ \A i \in 1..Len(up) : up[i] \in Requests(t) <=> up[i].t = t
  BY <1>1, ElementOfSeq, Kinds
<1>5. \A p \in 0..Len(down) : FollowedFrom(t, p) /\ p = 1 => a = 1
  <2> SUFFICES ASSUME 1 \in 0..Len(down), FollowedFrom(t, 1) PROVE a = 1
    OBVIOUS
  <2>1. /\ 1 \in 1..Len(down) /\ down[1] \in Answers(t)
        /\ \A j \in 1..Len(down) : down[j] \in Answers(t) => j = 1
    BY <1>1, LenProperties DEF FollowedFrom, Follows
  <2> QED BY <1>1, <2>1, NumberOne
<1> HIDE DEF u, a
<1>6. Unasked(t) <=> u = 0
  BY <1>2, <1>4 DEF Unasked
<1>7. ASSUME NEW p \in 0..Len(down), FollowedFrom(t, p)
      PROVE  u = 0 /\ (p = 0 <=> a = 0)
  <2>1. u = 0
    BY <1>6, <1>7 DEF FollowedFrom
  <2>2. p = 0 => a = 0
    BY <1>2, <1>7 DEF FollowedFrom, Follows
  <2>3. p # 0 => a # 0
    <3>1. p # 0 => p \in 1..Len(down) /\ down[p] \in Answers(t)
      BY <1>7 DEF FollowedFrom, Follows
    <3> QED BY <1>2, <3>1
  <2> QED BY <2>1, <2>2, <2>3
<1>8. Asked(t) => ~Unasked(t)
  BY DEF Asked, LastAsked, Watch, Unasked
<1> QED BY <1>2, <1>3, <1>5, <1>6, <1>7, <1>8

\* While messages come, an active target is followed, unless its reset is pending.
LEMMA ActiveIsFollowed ==
  ASSUME Inv, down # <<>>, NEW t \in Targets, Kept(t), Active(t), t \notin resets
  PROVE  FollowedFrom(t, 0) /\ open
<1>1. listen[t] # No /\ agg[t].outstanding = 0
  BY DEF Active
<1>2. open
  BY DEF Inv, Quiet
<1>3. PICK p \in 0..Len(down) : FollowedFrom(t, p)
  BY <1>1, <1>2, Waiting DEF Inv, Covered, Followed
<1>4. p = 0
  BY <1>1, <1>3, Waiting DEF Inv
<1> QED BY <1>2, <1>3, <1>4

-----------------------------------------------------------------------------
(***************************************************************************)
(* A message is handled.                                                   *)
(***************************************************************************)

\* What the server says is so of what is left to read.
LEMMA SaysNext ==
  ASSUME Types, Says, down # <<>>, down' = Tail(down), UNCHANGED <<mode, hist>>,
         last' = last \/ (Head(down).kind = "snapshot" /\ last' = Head(down).n)
  PROVE  Says'
<1>1. /\ Len(down) \in Nat \ {0} /\ 1 \in 1..Len(down)
      /\ Head(down) = down[1] /\ Len(down') = Len(down) - 1
      /\ \A i \in 1..Len(down') : down'[i] = down[i + 1] /\ i + 1 \in 1..Len(down) /\ 1 < i + 1
  BY FirstMessage
<1>2. Versions' = Versions
  BY DEF Versions, Now
<1>3. ASSUME NEW i \in 1..Len(down')
      PROVE  /\ down'[i].kind = "filter" => mode = "filters"
             /\ down'[i].kind = "rejected" => mode = "rejects"
             /\ down'[i].kind = "snapshot" => down'[i].n \in Versions \ {0} /\ last' <= down'[i].n
  BY <1>1 DEF Says
<1>4. ASSUME NEW i \in 1..Len(down'), NEW j \in 1..Len(down'), i < j,
             down'[i].kind = "snapshot", down'[j].kind = "snapshot"
      PROVE  down'[i].n <= down'[j].n
  <2>1. i + 1 < j + 1
    BY <1>1, <1>4
  <2> QED BY <1>1, <1>4, <2>1 DEF Says
<1> QED BY <1>2, <1>3, <1>4 DEF Says

\* A document query is told of its document only in what is left to read.
LEMMA KeyedNext ==
  ASSUME Types, Keyed, down # <<>>, down' = Tail(down),
         \A u \in Documents : /\ keys'[u] \subseteq {Key[u]}
                              /\ \A d \in Docs : agg'[u].docs[d] # "none" => d = Key[u]
  PROVE  Keyed'
<1>1. \A i \in 1..Len(down') : down'[i] = down[i + 1] /\ i + 1 \in 1..Len(down)
  BY FirstMessage
<1> QED BY <1>1 DEF Keyed

\* One answer is read, or none.
LEMMA AwaitedNext ==
  ASSUME Types, Awaited, down # <<>>, down' = Tail(down), UNCHANGED up,
         \A u \in Targets : Kept(u)' =>
           /\ Kept(u) /\ agg'[u].outstanding \in Int
           /\ agg[u].outstanding = agg'[u].outstanding
                + (IF Head(down) \in Answers(u) THEN 1 ELSE 0)
  PROVE  Awaited'
<1> SUFFICES ASSUME NEW u \in Targets, Kept(u)'
    PROVE  agg'[u].outstanding = Number(up', Requests(u)) + Number(down', Answers(u))
  BY DEF Awaited, Requests, Answers
<1>1. down \in Seq(Message) /\ up \in Seq(Request) /\ down' \in Seq(Message)
  BY FirstMessage DEF Types
<1>2. Number(down, Answers(u)) = Number(down', Answers(u)) + (IF Head(down) \in Answers(u) THEN 1 ELSE 0)
  BY <1>1, NumberTail
<1>3. Number(down', Answers(u)) \in Nat /\ Number(up, Requests(u)) \in Nat
  BY <1>1, NumberType
<1>4. /\ agg[u].outstanding = Number(up, Requests(u)) + Number(down, Answers(u))
      /\ agg'[u].outstanding \in Int
      /\ agg[u].outstanding = agg'[u].outstanding + (IF Head(down) \in Answers(u) THEN 1 ELSE 0)
  BY DEF Awaited
<1>5. up' = up
  OBVIOUS
<1> QED BY <1>2, <1>3, <1>4, <1>5

\* A followed target is still followed once a message is handled, if what the message
\* tells has been noted.
LEMMA FollowedNext ==
  ASSUME Types, NEW t \in Targets, down # <<>>, down' = Tail(down),
         UNCHANGED <<hist, serving>>, Unasked(t)',
         NEW p \in 0..Len(down), FollowedFrom(t, p),
         p = 0 => ~Counts(Head(down), t) /\ ~Rejects(Head(down), t),
         Held(After(p), t)' = Holds(down, p, t, Held(p, t))
  PROVE  Followed(t)'
<1>1. down \in Seq(Message)
  BY DEF Types
<1>2. /\ After(p) \in 0..Len(Tail(down))
      /\ Follows(hist, serving[t], Tail(down), After(p), t, Holds(down, p, t, Held(p, t)))
  BY <1>1, FollowsNext DEF FollowedFrom
<1>4. FollowedFrom(t, After(p))'
  <2> PICK n : n = After(p)
    OBVIOUS
  <2>1. Follows(hist', serving'[t], down', n, t, Held(n, t)')
    BY <1>2
  <2>2. FollowedFrom(t, n)'
    BY <2>1 DEF FollowedFrom
  <2> QED BY <2>2
<1> QED BY <1>2, <1>4 DEF Followed

\* A target that is not spoken of is where it was.
LEMMA OthersNext ==
  ASSUME Types, NEW t \in Targets, down # <<>>, down' = Tail(down), Head(down).t # t,
         UNCHANGED <<mode, up, hist, serving, listen[t], agg[t], keys[t]>>
  PROVE  /\ Asked(t) => Asked(t)'
         /\ Followed(t) => Followed(t)'
         /\ Pending(t) /\ Head(down).kind # "snapshot" => Pending(t)'
<1>1. /\ Len(down) \in Nat \ {0} /\ 1 \in 1..Len(down)
      /\ Head(down) = down[1] /\ Len(down') = Len(down) - 1
      /\ \A i \in 1..Len(down') : down'[i] = down[i + 1] /\ i + 1 \in 1..Len(down)
  BY FirstMessage
<1>2. Asked(t) => Asked(t)'
  BY <1>1 DEF Asked, LastAsked, Watch
<1>3. ASSUME NEW p \in 0..Len(down), FollowedFrom(t, p) PROVE Followed(t)'
  <2>1. p # 1
    BY <1>1, <1>3 DEF FollowedFrom, Follows, Answers
  <2>2. Held(After(p), t)' = Held(p, t)
    <3>1. (p = 0 <=> After(p) = 0) /\ keys'[t] = keys[t] /\ agg'[t] = agg[t]
      BY <2>1 DEF After
    <3>2. CASE p = 0
      <4>1. Held(0, t)' = Held(0, t)
        BY <3>1 DEF Held, OfKind
      <4> QED BY <3>2, <4>1 DEF After
    <3>3. CASE p # 0
      BY <3>1, <3>3 DEF Held
    <3> QED BY <3>2, <3>3
  <2>3. Holds(down, p, t, Held(p, t)) = Held(p, t)
    BY DEF Holds, Hear, Tells
  <2>4. ~Counts(Head(down), t) /\ ~Rejects(Head(down), t) /\ Unasked(t)'
    BY <1>3 DEF Counts, Rejects, FollowedFrom, Unasked
  <2> QED BY <1>3, <2>2, <2>3, <2>4, FollowedNext
<1>4. ASSUME Pending(t), Head(down).kind # "snapshot" PROVE Pending(t)'
  <2>1. PICK s \in 1..Len(down) : Silent(down, 0, s, t)
    BY <1>4 DEF Pending
  <2>2. s # 1
    BY <1>1, <1>4, <2>1 DEF Silent
  <2>3. s - 1 \in 1..Len(down') /\ Silent(down', 0, s - 1, t)
    BY <1>1, <2>1, <2>2 DEF Silent
  <2>4. \A k \in 1..Len(down') : down'[k] \notin Answers(t)
    BY <1>1, <1>4 DEF Pending
  <2>5. \E k \in 1..Len(down') : Silent(down', 0, k, t)
    BY <2>3
  <2> QED BY <1>4, <2>4, <2>5 DEF Pending, Unasked, Answers, Silent
<1> QED BY <1>2, <1>3, <1>4 DEF Followed

\* What the client holds of t with state as its state.
Gathered(t, state) ==
  (keys[t] \cup {d \in Docs : state.docs[d] = "added"}) \ {d \in Docs : state.docs[d] = "removed"}

\* What becomes of target t is state; others are not spoken of.
LEMMA HandleInv ==
  ASSUME Inv, down # <<>>, NEW t \in Targets, NEW state \in Target,
         Head(down).t = t, Head(down).kind # "snapshot",
         Handle(t, state, Tail(down)),
         agg[t].outstanding = state.outstanding + (IF Head(down) \in Answers(t) THEN 1 ELSE 0),
         Head(down) \in Answers(t) /\ agg[t].outstanding = 1 => state.docs = NewState.docs,
         \A d \in Docs : /\ state.docs[d] = "added" => d \notin keys[t]
                         /\ state.docs[d] = "removed" => d \in keys[t],
         t \in Documents => \A d \in Docs : state.docs[d] # "none" => d = Key[t],
         Kept(t) /\ listen[t] # No /\ FollowedFrom(t, 0) =>
           Follows(hist, serving[t], Tail(down), 0, t, Gathered(t, state))
  PROVE  Inv'
<1>1. /\ down \in Seq(Message) /\ Len(down) \in Nat \ {0} /\ 1 \in 1..Len(down)
      /\ Head(down) = down[1] /\ Head(down) \in Message
      /\ down' = Tail(down) /\ down' \in Seq(Message) /\ Len(down') = Len(down) - 1
      /\ \A i \in 1..Len(down') : down'[i] = down[i + 1] /\ i + 1 \in 1..Len(down)
  BY FirstMessage DEF Inv, Handle
<1>2. /\ agg' = [agg EXCEPT ![t] = state] /\ agg \in [Targets -> Target]
      /\ UNCHANGED <<mode, hist, serving, up, open, listen, resets, data, saved, keys, last, synced, doubt>>
  BY DEF Handle, Inv, Types, server, disk
<1>3. Types'
  <2>1. agg' \in [Targets -> Target]
    BY <1>2
  <2> QED BY <1>1, <1>2, <2>1 DEF Inv, Types, Service, Versions, Now
<1>4. Says'
  BY <1>1, <1>2, SaysNext DEF Inv
<1>5. Quiet'
  BY <1>1, <1>2 DEF Inv, Quiet
<1>6. Noted'
  <2>1. \A u \in Targets : agg'[u] = IF u = t THEN state ELSE agg[u]
    BY <1>2
  <2> QED BY <1>2, <2>1 DEF Inv, Noted
<1>7. Exact' /\ Keyed'
  <2>1. Exact'
    BY <1>2 DEF Inv, Exact, Matching, Kept
  <2>2. \A u \in Targets : agg'[u] = IF u = t THEN state ELSE agg[u]
    BY <1>2
  <2>3. Keyed'
    BY <1>1, <1>2, <2>2, WatchAssumption, KeyedNext DEF Inv, Keyed
  <2> QED BY <2>1, <2>3
<1>8. Awaited'
  <2>1. \A u \in Targets : /\ agg'[u].outstanding \in Int
                           /\ agg[u].outstanding = agg'[u].outstanding
                                + (IF Head(down) \in Answers(u) THEN 1 ELSE 0)
    <3> SUFFICES ASSUME NEW u \in Targets
        PROVE  /\ agg'[u].outstanding \in Int
               /\ agg[u].outstanding = agg'[u].outstanding
                    + (IF Head(down) \in Answers(u) THEN 1 ELSE 0)
      OBVIOUS
    <3>1. CASE u = t
      BY <1>2, <3>1 DEF Target
    <3>2. CASE u # t
      <4>1. agg'[u] = agg[u] /\ agg[u].outstanding \in Int /\ Head(down) \notin Answers(u)
        BY <1>1, <1>2, <3>2 DEF Answers, Target
      <4> QED BY <4>1
    <3> QED BY <3>1, <3>2
  <2>2. \A u \in Targets : Kept(u)' => Kept(u)
    BY <1>2 DEF Kept
  <2> QED BY <1>1, <1>2, <2>1, <2>2, AwaitedNext DEF Inv
<1>9. Covered'
  <2> SUFFICES ASSUME NEW u \in Targets, Kept(u), open, listen[u] # No
      PROVE IF u \in resets THEN Pending(u)' ELSE Asked(u)' \/ Followed(u)'
    BY <1>2 DEF Covered, Kept
  <2>1. IF u \in resets THEN Pending(u) ELSE Asked(u) \/ Followed(u)
    BY DEF Inv, Covered
  <2>2. CASE u # t
    <3>1. agg'[u] = agg[u] /\ Head(down).t # u /\ keys'[u] = keys[u] /\ listen'[u] = listen[u]
      BY <1>2, <2>2
    <3>2. /\ Asked(u) => Asked(u)'
          /\ Followed(u) => Followed(u)'
          /\ Pending(u) => Pending(u)'
      BY <1>1, <1>2, <3>1, OthersNext DEF Inv
    <3> QED BY <2>1, <3>2
  <2>3. CASE u = t
    <3>1. u \notin resets
      <4>1. ~Pending(u)
        BY <1>1, <2>3 DEF Pending, Silent
      <4> QED BY <2>1, <4>1
    <3>2. Asked(u) => Asked(u)'
      BY <1>1, <1>2 DEF Asked, LastAsked, Watch
    <3>3. ASSUME NEW p \in 0..Len(down), FollowedFrom(u, p) PROVE Followed(u)'
      <4>1. Unasked(u)'
        BY <1>2, <3>3 DEF FollowedFrom, Unasked
      <4>2. CASE p = 0
        <5>1. Follows(hist, serving[u], down', 0, u, Gathered(u, state))
          BY <1>1, <2>3, <3>3, <4>2
        <5>2. Held(0, u)' = Gathered(u, state)
          BY <1>2, <2>3 DEF Held, OfKind, Gathered
        <5>3. FollowedFrom(u, 0)'
          BY <1>2, <4>1, <5>1, <5>2 DEF FollowedFrom
        <5>4. 0 \in 0..Len(down')
          BY <1>1
        <5> QED BY <5>3, <5>4 DEF Followed
      <4>3. CASE p # 0
        <5>1. p = 1 => agg'[u].docs = NewState.docs
          <6>1. p = 1 => down[1] \in Answers(u) /\ agg[u].outstanding = 1
            BY <3>3, Waiting DEF Inv, FollowedFrom, Follows
          <6> QED BY <1>1, <1>2, <2>3, <6>1
        <5>2. Held(After(p), u)' = keys[u]
          <6>1. CASE p = 1
            <7>1. Held(0, u)' = keys[u]
              BY <1>2, <5>1, <6>1 DEF Held, OfKind, NewState
            <7>2. After(p) = 0
              BY <6>1 DEF After
            <7> QED BY <7>1, <7>2
          <6>2. CASE p # 1
            BY <1>2, <4>3, <6>2 DEF Held, After
          <6> QED BY <6>1, <6>2
        <5>3. Holds(down, p, u, Held(p, u)) = keys[u]
          BY <4>3 DEF Holds, Held
        <5> QED BY <1>1, <1>2, <3>3, <4>1, <4>3, <5>2, <5>3, FollowedNext DEF Inv
      <4> QED BY <4>2, <4>3
    <3> QED BY <2>1, <3>1, <3>2, <3>3 DEF Followed
  <2> QED BY <2>2, <2>3
<1> QED BY <1>3, <1>4, <1>5, <1>6, <1>7, <1>8, <1>9 DEF Inv

\* What is told of documents is gathered.
LEMMA GatherInv ==
  ASSUME Inv, down # <<>>, NEW t \in Targets, NEW state \in Target,
         Head(down).t = t, Head(down).kind \in {"current", "in", "out"},
         Handle(t, state, Tail(down)),
         agg[t].outstanding = state.outstanding,
         \A d \in Docs : /\ state.docs[d] = "added" => d \notin keys[t]
                         /\ state.docs[d] = "removed" => d \in keys[t],
         t \in Documents => \A d \in Docs : state.docs[d] # "none" => d = Key[t],
         Kept(t) /\ Active(t) => Gathered(t, state) = Hear(Head(down), t, Held(0, t))
  PROVE  Inv'
<1>1. /\ down \in Seq(Message) /\ Len(down) \in Nat \ {0}
      /\ Head(down) \notin Answers(t) /\ ~Counts(Head(down), t) /\ ~Rejects(Head(down), t)
  BY FirstMessage DEF Inv, Answers, Counts, Rejects
<1>2. state.outstanding \in Int
  BY DEF Target
<1>3. ASSUME Kept(t), listen[t] # No, FollowedFrom(t, 0)
      PROVE  Follows(hist, serving[t], Tail(down), 0, t, Gathered(t, state))
  <2>1. 0 \in 0..Len(down) /\ After(0) = 0
    BY <1>1 DEF After
  <2>2. Active(t)
    BY <1>3, <2>1, Waiting DEF Inv, Active
  <2>3. Follows(hist, serving[t], Tail(down), After(0), t, Holds(down, 0, t, Held(0, t)))
    BY <1>1, <1>3, <2>1, FollowsNext DEF FollowedFrom
  <2> QED BY <1>3, <2>1, <2>2, <2>3 DEF Holds
<1> QED BY <1>1, <1>2, <1>3, HandleInv

\* ADDED and REMOVED: one answer fewer is awaited, and the last one starts afresh.
LEMMA AnswerInv ==
  ASSUME Inv, down # <<>>, NEW t \in Targets, Head(down).t = t,
         \/ Head(down).kind = "added" /\ Added(t, Tail(down))
         \/ Head(down).kind = "removed" /\ Removed(t, Tail(down))
  PROVE  Inv'
<1> DEFINE n == agg[t].outstanding - 1
<1>1. Head(down) \in Answers(t) /\ Head(down).kind # "snapshot" /\ 1 \in 1..Len(down)
      /\ Head(down) = down[1] /\ Len(down) \in Nat
  BY FirstMessage, Kinds DEF Inv
<1>2. agg[t].outstanding \in Int
  BY DEF Inv, Types, Target
<1>3. agg[t] \in Target /\ NewState \in Target
  BY DEF Inv, Types, NewState, Target, Change
<1>4. Kept(t) => ~FollowedFrom(t, 0)
  <2>1. 0 \in 0..Len(down)
    BY <1>1
  <2>2. Kept(t) => agg[t].outstanding # 0
    BY <1>1, Waiting DEF Inv
  <2> QED BY <2>1, <2>2, Waiting DEF Inv
<1>5. ASSUME NEW state \in Target, Handle(t, state, Tail(down)),
             state.outstanding = n, n = 0 => state.docs = NewState.docs,
             state.docs \in {NewState.docs, agg[t].docs}
      PROVE  Inv'
  <2>1. /\ agg[t].outstanding = state.outstanding + (IF Head(down) \in Answers(t) THEN 1 ELSE 0)
        /\ agg[t].outstanding = 1 => state.docs = NewState.docs
    BY <1>1, <1>2, <1>5
  <2>2. \A d \in Docs : /\ state.docs[d] = "added" => d \notin keys[t]
                        /\ state.docs[d] = "removed" => d \in keys[t]
    BY <1>5 DEF Inv, Noted, NewState
  <2>3. t \in Documents => \A d \in Docs : state.docs[d] # "none" => d = Key[t]
    BY <1>5 DEF Inv, Keyed, NewState
  <2> QED BY <1>1, <1>4, <1>5, <2>1, <2>2, <2>3, HandleInv
<1>6. CASE Added(t, Tail(down))
  <2> DEFINE state == IF n = 0
                      THEN [agg[t] EXCEPT !.outstanding = 0, !.docs = NewState.docs]
                      ELSE [agg[t] EXCEPT !.outstanding = n]
  <2>1. /\ state \in Target /\ state.outstanding = n /\ (n = 0 => state.docs = NewState.docs)
        /\ state.docs \in {NewState.docs, agg[t].docs}
    <3>1. n \in Int /\ NewState.docs \in [Docs -> Change]
      BY <1>2, <1>3 DEF Target
    <3> HIDE DEF n
    <3> QED BY <1>3, <3>1 DEF Target
  <2>2. Handle(t, state, Tail(down))
    BY <1>6 DEF Added
  <2> HIDE DEF state, n
  <2> QED BY <1>5, <2>1, <2>2
<1>7. CASE Removed(t, Tail(down))
  <2> DEFINE state == IF n = 0 THEN NewState ELSE [agg[t] EXCEPT !.outstanding = n]
  <2>1. /\ state \in Target /\ state.outstanding = n /\ (n = 0 => state.docs = NewState.docs)
        /\ state.docs \in {NewState.docs, agg[t].docs}
    <3>1. n \in Int /\ NewState.outstanding = 0
      BY <1>2 DEF NewState
    <3> HIDE DEF n
    <3> QED BY <1>3, <3>1 DEF Target
  <2>2. Handle(t, state, Tail(down))
    BY <1>7 DEF Removed
  <2> HIDE DEF state, n
  <2> QED BY <1>5, <2>1, <2>2
<1> QED BY <1>6, <1>7

\* CURRENT is noted and tells nothing of documents.
LEMMA CurrentInv ==
  ASSUME Inv, down # <<>>, NEW t \in Targets, Head(down).t = t, Head(down).kind = "current",
         Current(t, Tail(down))
  PROVE  Inv'
<1> DEFINE state == IF Active(t) THEN [agg[t] EXCEPT !.current = TRUE] ELSE agg[t]
<1>1. agg[t] \in Target
  BY DEF Inv, Types
<1>2. state \in Target /\ state.outstanding = agg[t].outstanding /\ state.docs = agg[t].docs
  BY <1>1 DEF Target
<1>3. Handle(t, state, Tail(down))
  BY DEF Current
<1> HIDE DEF state
<1>4. Gathered(t, state) = Hear(Head(down), t, Held(0, t))
  BY <1>2 DEF Gathered, Held, OfKind, Hear, Tells
<1>5. \A d \in Docs : /\ state.docs[d] = "added" => d \notin keys[t]
                      /\ state.docs[d] = "removed" => d \in keys[t]
  BY <1>2 DEF Inv, Noted
<1>6. t \in Documents => \A d \in Docs : state.docs[d] # "none" => d = Key[t]
  BY <1>2 DEF Inv, Keyed
<1> QED BY <1>2, <1>3, <1>4, <1>5, <1>6, GatherInv

\* A document's change is noted for an active target only.
LEMMA DocumentInv ==
  ASSUME Inv, down # <<>>, NEW t \in Targets, NEW d \in Docs,
         Head(down).t = t, Head(down).d = d, Head(down).kind \in {"in", "out"},
         Document(t, d, Head(down).kind = "in", Tail(down))
  PROVE  Inv'
<1> DEFINE change == IF Head(down).kind = "in"
                     THEN (IF d \in keys[t] THEN "modified" ELSE "added")
                     ELSE (IF d \in keys[t] THEN "removed" ELSE "none")
           state == IF Active(t) THEN [agg[t] EXCEPT !.docs[d] = change] ELSE agg[t]
<1>1. agg[t] \in Target
  BY DEF Inv, Types
<1>2. state \in Target /\ state.outstanding = agg[t].outstanding
  BY <1>1 DEF Target, Change
<1>3. Handle(t, state, Tail(down))
  BY DEF Document
<1>4. \A e \in Docs : state.docs[e] = IF Active(t) /\ e = d THEN change ELSE agg[t].docs[e]
  BY <1>1 DEF Target
<1>5. \A e \in Docs : /\ state.docs[e] = "added" => e \notin keys[t]
                      /\ state.docs[e] = "removed" => e \in keys[t]
  BY <1>4 DEF Inv, Noted
<1>6. ASSUME Active(t) PROVE Gathered(t, state) = Hear(Head(down), t, Held(0, t))
  <2>1. Gathered(t, state) \subseteq Docs /\ Hear(Head(down), t, Held(0, t)) \subseteq Docs
    <3>1. keys[t] \subseteq Docs /\ Held(0, t) \subseteq Docs
      BY HeldType DEF Inv, Types
    <3> QED BY <3>1 DEF Gathered, Hear
  <2> SUFFICES ASSUME NEW e \in Docs PROVE e \in Gathered(t, state) <=> e \in Hear(Head(down), t, Held(0, t))
    BY <2>1
  <2>2. CASE e = d
    <3>1. state.docs[e] = change
      BY <1>4, <1>6, <2>2
    <3>2. e \in Gathered(t, state) <=> Head(down).kind = "in"
      BY <2>2, <3>1 DEF Gathered
    <3>3. e \in Hear(Head(down), t, Held(0, t)) <=> Head(down).kind = "in"
      BY <2>2 DEF Hear, Tells
    <3> QED BY <3>2, <3>3
  <2>3. CASE e # d
    <3>1. state.docs[e] = agg[t].docs[e]
      BY <1>4, <2>3
    <3>2. e \in Gathered(t, state) <=> e \in Held(0, t)
      BY <3>1 DEF Gathered, Held, OfKind
    <3>3. e \in Hear(Head(down), t, Held(0, t)) <=> e \in Held(0, t)
      BY <2>3 DEF Hear, Tells
    <3> QED BY <3>2, <3>3
  <2> QED BY <2>2, <2>3
<1>7. t \in Documents => \A e \in Docs : state.docs[e] # "none" => e = Key[t]
  <2>1. t \in Documents => d = Key[t]
    BY FirstMessage DEF Inv, Keyed
  <2> QED BY <1>4, <2>1 DEF Inv, Keyed
<1> HIDE DEF state
<1> QED BY <1>2, <1>3, <1>5, <1>6, <1>7, GatherInv

\* What is counted is what is held.
LEMMA CountIsHeld ==
  ASSUME Inv, NEW t \in Targets
  PROVE  Count(t) = Cardinality(Held(0, t))
<1> DEFINE K == keys[t]
           A == OfKind(t, "added")
           R == OfKind(t, "removed")
<1>1. K \subseteq Docs /\ A \subseteq Docs /\ R \subseteq Docs
  BY DEF Inv, Types, OfKind
<1>2. K \cap A = {} /\ R \subseteq K
  BY DEF OfKind, Inv, Noted
<1>3. Held(0, t) = (K \cup A) \ R
  BY DEF Held
<1>4. Count(t) = Cardinality(K) + Cardinality(A) - Cardinality(R)
  BY DEF Count
<1> HIDE DEF K, A, R
<1>5. IsFiniteSet(K) /\ IsFiniteSet(A) /\ IsFiniteSet(R)
  BY <1>1, WatchAssumption, FS_Subset
<1>6. IsFiniteSet(K \cup A) /\ Cardinality(K \cup A) = Cardinality(K) + Cardinality(A) - Cardinality(K \cap A)
  BY <1>5, FS_Union
<1>7. Cardinality((K \cup A) \ R) = Cardinality(K \cup A) - Cardinality((K \cup A) \cap R)
  BY <1>6, FS_Difference
<1>8. (K \cup A) \cap R = R /\ Cardinality(K \cap A) = 0
  BY <1>2, FS_EmptySet
<1>9. Cardinality(K) \in Nat /\ Cardinality(A) \in Nat /\ Cardinality(R) \in Nat
  BY <1>5, FS_CardinalityType
<1>10. Cardinality((K \cup A) \cap R) = Cardinality(R)
  BY <1>8
<1>11. Cardinality(K \cup A) = Cardinality(K) + Cardinality(A)
  BY <1>6, <1>8, <1>9
<1>12. Cardinality((K \cup A) \ R) = Cardinality(K) + Cardinality(A) - Cardinality(R)
  BY <1>7, <1>9, <1>10, <1>11
<1>13. Cardinality(Held(0, t)) = Cardinality((K \cup A) \ R)
  BY <1>3
<1> QED BY <1>4, <1>12, <1>13

\* Where a count comes of a target that the client follows, it tells how many of those
\* held matched at the next snapshot, which is then as it should be.
LEMMA CountFollowed ==
  ASSUME Inv, down # <<>>, NEW t \in Targets, Counts(Head(down), t), Kept(t), FollowedFrom(t, 0)
  PROVE  \E S \in SUBSET Held(0, t) :
           /\ Head(down).n = Cardinality(S) /\ (t \in Documents => S \subseteq {Key[t]})
           /\ Follows(hist, serving[t], Tail(down), 0, t, S)
<1>1. /\ down \in Seq(Message) /\ Len(down) \in Nat \ {0}
      /\ Head(down) = down[1] /\ 1 \in 1..Len(down)
  BY FirstMessage DEF Inv
<1>2. \A k \in 1..Len(down) : ~Rejects(down[k], t)
  BY <1>1 DEF Counts, Rejects, Inv, Says
<1>3. Follows(hist, serving[t], down, 0, t, Held(0, t))
  BY DEF FollowedFrom
<1>4. PICK s \in 1..Len(down) :
        LET counted == At(hist, down[s].n, t)
        IN  /\ down[s].kind = "snapshot" /\ Head(down).n = Cardinality(counted)
            /\ counted \subseteq Held(0, t) /\ Follows(hist, serving[t], Tail(down), 0, t, counted)
  BY <1>1, <1>2, <1>3, FollowsRightCount
<1>5. down[s].n \in Versions
  BY <1>4 DEF Inv, Says
<1>6. t \in Documents => At(hist, down[s].n, t) \subseteq {Key[t]}
  BY <1>5, MatchingType DEF Inv
<1> QED BY <1>4, <1>6

\* A count that is right changes nothing, of a document query that the document is not
\* there; one that is wrong leaves all to be removed at the next snapshot, before which
\* nothing more is said of the target.
LEMMA MismatchInv ==
  ASSUME Inv, down # <<>>, NEW t \in Targets \ Documents, Head(down).t = t,
         Head(down).kind = "filter", Active(t), Count(t) # Head(down).n, Mismatch(t, Tail(down))
  PROVE  Inv'
<1>1. /\ down \in Seq(Message) /\ Len(down) \in Nat \ {0} /\ 1 \in 1..Len(down)
      /\ Head(down) = down[1] /\ Head(down) \in Message
      /\ Tail(down) \in Seq(Message) /\ Len(Tail(down)) = Len(down) - 1
      /\ \A i \in 1..Len(Tail(down)) : Tail(down)[i] = down[i + 1] /\ i + 1 \in 1..Len(down)
  BY FirstMessage DEF Inv
<1>2. /\ Head(down) \notin Answers(t) /\ Counts(Head(down), t)
      /\ mode = "filters" /\ \A k \in 1..Len(down) : ~Rejects(down[k], t)
  BY <1>1 DEF Answers, Counts, Rejects, Inv, Says
<1>3. Kept(t) => t \notin resets
  <2>1. ~Pending(t)
    BY <1>1 DEF Pending, Silent
  <2>2. open
    BY DEF Inv, Quiet
  <2> QED BY <2>1, <2>2 DEF Inv, Covered, Active
<1> DEFINE wrong == [NewState EXCEPT !.docs = [d \in Docs |-> IF d \in keys[t] THEN "removed" ELSE "none"]]
<1>4. /\ agg' = [agg EXCEPT ![t] = wrong] /\ agg \in [Targets -> Target]
      /\ resets' = resets \cup {t} /\ down' = Tail(down)
      /\ UNCHANGED <<mode, hist, serving, up, open, listen, data, saved, keys, last, synced, doubt>>
  BY DEF Mismatch, Inv, Types, server, disk
<1>5. /\ wrong \in Target /\ wrong.outstanding = 0 /\ ~wrong.current
      /\ \A d \in Docs : wrong.docs[d] = IF d \in keys[t] THEN "removed" ELSE "none"
  <2>1. wrong \in Target
    <3>1. [d \in Docs |-> IF d \in keys[t] THEN "removed" ELSE "none"] \in [Docs -> Change]
      BY DEF Change
    <3> QED BY <3>1, StateType
  <2> QED BY <2>1 DEF NewState
<1> HIDE DEF wrong
<1>6. open /\ (Kept(t) => FollowedFrom(t, 0))
  BY <1>3, ActiveIsFollowed DEF Inv, Quiet
<1>7. agg[t].outstanding = 0
  BY DEF Active
<1>8. /\ \A u \in Targets : agg'[u] = IF u = t THEN wrong ELSE agg[u]
      /\ \A u \in Targets : Kept(u)' <=> Kept(u)
  BY <1>4 DEF Kept
<1>9. Types'
  <2>1. agg' \in [Targets -> Target] /\ resets' \in SUBSET Targets
    BY <1>4, <1>5 DEF Inv, Types
  <2> QED BY <1>1, <1>4, <2>1 DEF Inv, Types, Service, Versions, Now
<1>10. Says'
  BY <1>4, SaysNext DEF Inv
<1>11. Quiet'
  BY <1>4, <1>6 DEF Quiet
<1>12. Noted'
  BY <1>2, <1>4, <1>5, <1>8 DEF Inv, Noted
<1>13. Exact' /\ Keyed'
  <2>1. Exact'
    BY <1>4 DEF Inv, Exact, Matching, Kept
  <2>2. Keyed'
    BY <1>4, <1>8, WatchAssumption, KeyedNext DEF Inv, Keyed
  <2> QED BY <2>1, <2>2
<1>14. Awaited'
  <2>1. ASSUME NEW u \in Targets
        PROVE  /\ agg'[u].outstanding \in Int
               /\ agg[u].outstanding = agg'[u].outstanding
                    + (IF Head(down) \in Answers(u) THEN 1 ELSE 0)
    <3>1. Head(down) \notin Answers(u) /\ agg[u].outstanding \in Int
      BY DEF Answers, Inv, Types, Target
    <3>2. agg'[u].outstanding = agg[u].outstanding
      BY <1>5, <1>7, <1>8
    <3> QED BY <3>1, <3>2
  <2> QED BY <1>4, <1>8, <2>1, AwaitedNext DEF Inv
<1>15. ASSUME Kept(t) PROVE Pending(t)'
  <2>1. Follows(hist, serving[t], down, 0, t, Held(0, t)) /\ Unasked(t)
    BY <1>6, <1>15 DEF FollowedFrom
  <2>2. \E s \in 1..Len(Tail(down)) : Silent(Tail(down), 0, s, t)
    BY <1>1, <1>2, <2>1, FollowsRightCount
  <2>3. \A k \in 1..Len(Tail(down)) : Tail(down)[k] \notin Answers(t)
    BY <1>1, <2>1 DEF Follows
  <2>4. Unasked(t)'
    BY <1>4, <2>1 DEF Unasked
  <2>5. ~agg'[t].current /\ \A d \in Docs : agg'[t].docs[d] = IF d \in keys'[t] THEN "removed" ELSE "none"
    BY <1>4, <1>5, <1>8
  <2>6. \E s \in 1..Len(down') : Silent(down', 0, s, t)
    BY <1>4, <2>2
  <2>7. \A k \in 1..Len(down') : down'[k] \notin Answers(t)
    BY <1>4, <2>3
  <2> QED BY <2>4, <2>5, <2>6, <2>7 DEF Pending, Answers, Silent
<1>16. Covered'
  <2> SUFFICES ASSUME NEW u \in Targets, Kept(u), listen[u] # No
      PROVE IF u \in resets' THEN Pending(u)' ELSE Asked(u)' \/ Followed(u)'
    BY <1>4, <1>8 DEF Covered
  <2>1. CASE u = t
    BY <1>4, <1>15, <2>1
  <2>2. CASE u # t
    <3>1. IF u \in resets THEN Pending(u) ELSE Asked(u) \/ Followed(u)
      BY <1>6 DEF Inv, Covered
    <3>2. agg'[u] = agg[u] /\ Head(down).t # u /\ keys'[u] = keys[u] /\ listen'[u] = listen[u]
      BY <1>4, <1>8, <2>2
    <3>3. /\ Asked(u) => Asked(u)'
          /\ Followed(u) => Followed(u)'
          /\ Pending(u) => Pending(u)'
      BY <1>4, <3>2, OthersNext DEF Inv
    <3>4. u \in resets' <=> u \in resets
      BY <1>4, <2>2
    <3> QED BY <3>1, <3>3, <3>4
  <2> QED BY <2>1, <2>2
<1> QED BY <1>9, <1>10, <1>11, <1>12, <1>13, <1>14, <1>16 DEF Inv

LEMMA FilterInv ==
  ASSUME Inv, down # <<>>, NEW t \in Targets, Head(down).t = t, Head(down).kind = "filter",
         Filter(t, Head(down).n, Tail(down))
  PROVE  Inv'
<1> DEFINE n == Head(down).n
<1>1. /\ Head(down) \notin Answers(t) /\ Counts(Head(down), t) /\ Head(down).kind # "snapshot"
      /\ 0 \in 0..Len(down)
  BY FirstMessage DEF Answers, Counts, Inv
<1>2. /\ agg[t] \in Target /\ agg[t].outstanding \in Int
      /\ \A d \in Docs : /\ agg[t].docs[d] = "added" => d \notin keys[t]
                         /\ agg[t].docs[d] = "removed" => d \in keys[t]
      /\ t \in Documents => \A d \in Docs : agg[t].docs[d] # "none" => d = Key[t]
  BY DEF Inv, Types, Target, Noted, Keyed
<1>3. Kept(t) /\ listen[t] # No /\ FollowedFrom(t, 0) => Active(t)
  BY <1>1, Waiting DEF Inv, Active
<1>4. t \in Documents => Key[t] \in Docs /\ keys[t] \subseteq {Key[t]} /\ Held(0, t) \subseteq {Key[t]}
  BY <1>2, WatchAssumption DEF Inv, Keyed, Held, OfKind
<1>5. Gathered(t, agg[t]) = Held(0, t)
  BY DEF Gathered, Held, OfKind
<1>6. CASE t \in Documents /\ n = 0 /\ Document(t, Key[t], FALSE, Tail(down))
  <2> DEFINE change == IF Key[t] \in keys[t] THEN "removed" ELSE "none"
             state == IF Active(t) THEN [agg[t] EXCEPT !.docs[Key[t]] = change] ELSE agg[t]
  <2>1. state \in Target /\ state.outstanding = agg[t].outstanding
    BY <1>2, <1>4, <1>6 DEF Target, Change
  <2>2. Handle(t, state, Tail(down))
    BY <1>6 DEF Document
  <2>3. \A e \in Docs : state.docs[e] = IF Active(t) /\ e = Key[t] THEN change ELSE agg[t].docs[e]
    BY <1>2 DEF Target
  <2>4. /\ \A e \in Docs : /\ state.docs[e] = "added" => e \notin keys[t]
                           /\ state.docs[e] = "removed" => e \in keys[t]
        /\ \A e \in Docs : state.docs[e] # "none" => e = Key[t]
    BY <1>2, <1>6, <2>3
  <2>5. ASSUME Kept(t), listen[t] # No, FollowedFrom(t, 0)
        PROVE  Follows(hist, serving[t], Tail(down), 0, t, Gathered(t, state))
    <3>1. PICK S \in SUBSET Held(0, t) :
            Head(down).n = Cardinality(S) /\ Follows(hist, serving[t], Tail(down), 0, t, S)
      BY <1>1, <2>5, CountFollowed
    <3>2. S = {}
      <4>1. IsFiniteSet(S)
        BY HeldType, FS_Subset DEF Inv
      <4> QED BY <1>6, <3>1, <4>1, FS_EmptySet
    <3>3. Gathered(t, state) = {}
      <4>1. Active(t)
        BY <1>3, <2>5
      <4>2. state.docs[Key[t]] = change
        BY <1>4, <1>6, <2>3, <4>1
      <4> QED BY <1>4, <1>6, <2>4, <4>2 DEF Gathered
    <3> QED BY <3>1, <3>2, <3>3
  <2> HIDE DEF state
  <2> QED BY <1>1, <1>2, <1>6, <2>1, <2>2, <2>4, <2>5, HandleInv
<1>7. ASSUME Handle(t, agg[t], Tail(down)),
             Kept(t) /\ Active(t) /\ FollowedFrom(t, 0) =>
               Follows(hist, serving[t], Tail(down), 0, t, Held(0, t))
      PROVE  Inv'
  BY <1>1, <1>2, <1>3, <1>5, <1>7, HandleInv
<1>8. CASE t \in Documents /\ n # 0 /\ Handle(t, agg[t], Tail(down))
  <2>1. ASSUME Kept(t), FollowedFrom(t, 0)
        PROVE  Follows(hist, serving[t], Tail(down), 0, t, Held(0, t))
    <3>1. PICK S \in SUBSET Held(0, t) :
            Head(down).n = Cardinality(S) /\ Follows(hist, serving[t], Tail(down), 0, t, S)
      BY <1>1, <2>1, CountFollowed
    <3>2. S # {}
      BY <1>8, <3>1, FS_EmptySet
    <3>3. S = Held(0, t)
      BY <1>4, <1>8, <3>2
    <3> QED BY <3>1, <3>3
  <2> QED BY <1>7, <1>8, <2>1
<1>9. CASE t \notin Documents /\ Active(t) /\ Count(t) # n /\ Mismatch(t, Tail(down))
  BY <1>9, MismatchInv
<1>10. CASE t \notin Documents /\ ~(Active(t) /\ Count(t) # n) /\ Handle(t, agg[t], Tail(down))
  <2>1. ASSUME Kept(t), Active(t), FollowedFrom(t, 0)
        PROVE  Follows(hist, serving[t], Tail(down), 0, t, Held(0, t))
    <3>1. PICK S \in SUBSET Held(0, t) :
            Head(down).n = Cardinality(S) /\ Follows(hist, serving[t], Tail(down), 0, t, S)
      BY <1>1, <2>1, CountFollowed
    <3>2. Cardinality(S) = Cardinality(Held(0, t))
      BY <1>10, <2>1, <3>1, CountIsHeld
    <3>3. S = Held(0, t)
      BY <3>2, HeldType, FS_Subset DEF Inv
    <3> QED BY <3>1, <3>3
  <2> QED BY <1>7, <1>10, <2>1
<1> QED BY <1>6, <1>8, <1>9, <1>10 DEF Filter

\* A rejected target is forgotten, and the answers awaited of it: none, unless track of
\* it is lost.
LEMMA RejectedInv ==
  ASSUME Inv, down # <<>>, NEW t \in Targets, Head(down).t = t, Head(down).kind = "rejected",
         Rejected(t, Tail(down))
  PROVE  Inv'
<1>1. /\ down \in Seq(Message) /\ Len(down) \in Nat \ {0} /\ 1 \in 1..Len(down)
      /\ Head(down) = down[1] /\ Head(down) \in Message
      /\ Tail(down) \in Seq(Message) /\ Len(Tail(down)) = Len(down) - 1
      /\ \A i \in 1..Len(Tail(down)) : Tail(down)[i] = down[i + 1] /\ i + 1 \in 1..Len(down)
  BY FirstMessage DEF Inv
<1>2. /\ Head(down) \notin Answers(t) /\ Rejects(Head(down), t)
      /\ mode = "rejects" /\ resets = {} /\ open
  BY <1>1 DEF Answers, Rejects, Inv, Says, Noted, Quiet
<1>3. agg[t] \in Target /\ agg[t].outstanding \in Int
  BY DEF Inv, Types, Target
<1>4. CASE listen[t] = No
  <2>1. Handle(t, agg[t], Tail(down))
    BY <1>4 DEF Rejected
  <2>2. \A d \in Docs : /\ agg[t].docs[d] = "added" => d \notin keys[t]
                        /\ agg[t].docs[d] = "removed" => d \in keys[t]
    BY DEF Inv, Noted
  <2>3. t \in Documents => \A d \in Docs : agg[t].docs[d] # "none" => d = Key[t]
    BY DEF Inv, Keyed
  <2> QED BY <1>2, <1>3, <1>4, <2>1, <2>2, <2>3, HandleInv
<1>5. CASE listen[t] # No
  <2>1. /\ saved' = [saved EXCEPT ![t] = data[t]]
        /\ listen' = [listen EXCEPT ![t] = No] /\ synced' = [synced EXCEPT ![t] = 0]
        /\ agg' = [agg EXCEPT ![t] = NewState] /\ agg \in [Targets -> Target]
        /\ doubt' = [doubt EXCEPT ![t] = IF agg[t].outstanding = 0 THEN @ ELSE "lost"]
        /\ down' = Tail(down)
        /\ UNCHANGED <<mode, hist, serving, up, open, resets, data, keys, last>>
    BY <1>5 DEF Rejected, Release, Inv, Types, server
  <2>2. /\ \A u \in Targets : doubt'[u] = IF u = t /\ agg[t].outstanding # 0 THEN "lost" ELSE doubt[u]
        /\ \A u \in Targets : Kept(u)' => Kept(u) /\ (u = t => agg[u].outstanding = 0)
    BY <2>1 DEF Inv, Types, Kept
  <2>3. Types'
    <3>1. 0 \in Versions /\ NewState \in Target
      BY LenProperties DEF Inv, Types, Versions, Now, NewState, Target, Change
    <3>2. /\ saved' \in [Targets -> Versions] /\ listen' \in [Targets -> Versions \cup {No}]
          /\ synced' \in [Targets -> Versions] /\ agg' \in [Targets -> Target]
          /\ doubt' \in [Targets -> {"none", "mismatch", "lost"}]
      BY <2>1, <3>1 DEF Inv, Types
    <3> QED BY <1>1, <2>1, <3>2 DEF Inv, Types, Service, Versions, Now
  <2>4. Says'
    BY <2>1, SaysNext DEF Inv
  <2>5. Quiet'
    BY <1>2, <2>1 DEF Quiet
  <2>6. \A u \in Targets : agg'[u] = IF u = t THEN NewState ELSE agg[u]
    BY <2>1
  <2>7. Noted'
    BY <1>2, <2>1, <2>2, <2>6 DEF Inv, Noted, NewState
  <2>8. Exact'
    <3> SUFFICES ASSUME NEW u \in Targets, Kept(u)'
        PROVE  /\ doubt'[u] = "none" => keys'[u] = Matching(saved'[u], u)
               /\ listen'[u] # No =>
                    /\ keys'[u] = Matching(listen'[u], u)
                    /\ data'[u] = listen'[u] \/ (listen'[u] = 0 /\ doubt'[u] = "mismatch")
               /\ synced'[u] # 0 => synced'[u] = listen'[u]
      BY <2>1 DEF Exact, Matching
    <3>1. /\ doubt[u] = "none" => keys[u] = Matching(saved[u], u)
          /\ listen[u] # No => /\ keys[u] = Matching(listen[u], u)
                               /\ data[u] = listen[u] \/ (listen[u] = 0 /\ doubt[u] = "mismatch")
          /\ synced[u] # 0 => synced[u] = listen[u]
      BY <2>2 DEF Inv, Exact
    <3>2. CASE u = t
      <4>1. data[u] = listen[u] /\ keys[u] = Matching(data[u], u)
        BY <1>2, <1>5, <3>1, <3>2 DEF Inv, Noted
      <4> QED BY <2>1, <3>2, <4>1 DEF Inv, Types
    <3>3. CASE u # t
      BY <2>1, <2>2, <3>1, <3>3 DEF Inv, Types
    <3> QED BY <3>2, <3>3
  <2>9. Keyed'
    BY <2>1, <2>6, WatchAssumption, KeyedNext DEF Inv, Keyed, NewState
  <2>10. Awaited'
    <3>1. ASSUME NEW u \in Targets, Kept(u)'
          PROVE  /\ Kept(u) /\ agg'[u].outstanding \in Int
                 /\ agg[u].outstanding = agg'[u].outstanding
                      + (IF Head(down) \in Answers(u) THEN 1 ELSE 0)
      <4>1. Head(down) \notin Answers(u) /\ agg[u].outstanding \in Int
        BY DEF Answers, Inv, Types, Target
      <4>2. agg'[u].outstanding = agg[u].outstanding /\ Kept(u)
        BY <2>2, <2>6, <3>1 DEF NewState
      <4> QED BY <4>1, <4>2
    <3> QED BY <2>1, <3>1, AwaitedNext DEF Inv
  <2>11. Covered'
    <3> SUFFICES ASSUME NEW u \in Targets, Kept(u)', listen'[u] # No PROVE Asked(u)' \/ Followed(u)'
      BY <1>2, <2>1 DEF Covered
    <3>1. u # t /\ listen'[u] = listen[u] /\ Kept(u)
      BY <2>1, <2>2 DEF Inv, Types
    <3>2. Asked(u) \/ Followed(u)
      BY <1>2, <3>1 DEF Inv, Covered
    <3>3. agg'[u] = agg[u] /\ Head(down).t # u /\ keys'[u] = keys[u]
      BY <2>1, <2>6, <3>1
    <3> QED BY <2>1, <3>1, <3>2, <3>3, OthersNext DEF Inv
  <2> QED BY <2>3, <2>4, <2>5, <2>7, <2>8, <2>9, <2>10, <2>11 DEF Inv
<1> QED BY <1>4, <1>5

\* What a snapshot makes durable is what matched at its version, or nothing if the
\* target's reset is pending.
LEMMA SnapshotIsExact ==
  ASSUME Inv, down # <<>>, Head(down).kind = "snapshot", NEW t \in Targets, Kept(t)
  PROVE  /\ Active(t) /\ t \notin resets => Held(0, t) = Matching(Head(down).n, t)
         /\ listen[t] # No /\ t \in resets =>
              Active(t) /\ Held(0, t) = {} /\ ~agg[t].current /\ mode = "filters"
<1>1. down \in Seq(Message) /\ 1 \in 1..Len(down) /\ Head(down) = down[1]
  BY FirstMessage DEF Inv
<1>2. Head(down).n \in Versions
  BY <1>1 DEF Inv, Says
<1>3. ASSUME Active(t), t \notin resets PROVE Held(0, t) = Matching(Head(down).n, t)
  <2>1. Follows(hist, serving[t], down, 0, t, Held(0, t))
    BY <1>3, ActiveIsFollowed DEF FollowedFrom
  <2>2. Held(0, t) \subseteq Docs
    BY HeldType DEF Inv
  <2>3. Matching(Head(down).n, t) = At(hist, Head(down).n, t) /\ Matching(Head(down).n, t) \subseteq Docs
    BY <1>2, MatchingType DEF Inv
  <2>4. Held(0, t) = At(hist, Head(down).n, t)
    BY <1>1, <2>1, <2>2, <2>3, FollowsExact
  <2> QED BY <2>3, <2>4
<1>4. ASSUME listen[t] # No, t \in resets
      PROVE  Active(t) /\ Held(0, t) = {} /\ ~agg[t].current /\ mode = "filters"
  <2>1. Pending(t)
    BY <1>4 DEF Inv, Quiet, Covered
  <2>2. agg[t].outstanding = 0
    BY <2>1, Waiting DEF Inv, Pending
  <2>3. \A d \in Docs : agg[t].docs[d] = IF d \in keys[t] THEN "removed" ELSE "none"
    BY <2>1 DEF Pending
  <2>4. keys[t] \subseteq Docs
    BY DEF Inv, Types
  <2>5. Held(0, t) = {}
    BY <2>3, <2>4 DEF Held, OfKind
  <2> QED BY <1>4, <2>1, <2>2, <2>5 DEF Active, Pending, Inv, Noted
<1> QED BY <1>3, <1>4

\* The last request for a target is its last among those that follow.
LEMMA LastAskedBehind ==
  ASSUME NEW M, up \in Seq(M), NEW w \in Seq(M), up' = up \o w
  PROVE  /\ \A r : LastAsked(r) /\ (\A i \in 1..Len(w) : w[i].t # r.t) => LastAsked(r)'
         /\ \A r : (\E i \in 1..Len(w) : w[i] = r /\ \A j \in 1..Len(w) : j > i => w[j].t # r.t)
                     => LastAsked(r)'
         /\ \A t : Unasked(t)' <=> Unasked(t) /\ \A i \in 1..Len(w) : w[i].t # t
<1>1. /\ Len(up') = Len(up) + Len(w) /\ Len(up) \in Nat /\ Len(w) \in Nat
      /\ \A k \in 1..(Len(up) + Len(w)) : up'[k] = IF k <= Len(up) THEN up[k] ELSE w[k - Len(up)]
  BY ConcatProperties, LenProperties
<1>2. /\ \A k \in 1..Len(up) : k \in 1..Len(up') /\ up'[k] = up[k]
      /\ \A k \in 1..Len(w) : Len(up) + k \in 1..Len(up') /\ up'[Len(up) + k] = w[k]
      /\ \A k \in 1..Len(up') : k \notin 1..Len(up) =>
           k - Len(up) \in 1..Len(w) /\ up'[k] = w[k - Len(up)] /\ k > Len(up)
  BY <1>1
<1>3. ASSUME NEW r, LastAsked(r), \A i \in 1..Len(w) : w[i].t # r.t PROVE LastAsked(r)'
  <2>1. PICK i \in 1..Len(up) : up[i] = r /\ \A j \in 1..Len(up) : j > i => up[j].t # r.t
    BY <1>3 DEF LastAsked
  <2>2. i \in 1..Len(up') /\ up'[i] = r
    BY <1>2, <2>1
  <2>3. \A j \in 1..Len(up') : j > i => up'[j].t # r.t
    BY <1>2, <1>3, <2>1
  <2> QED BY <2>2, <2>3 DEF LastAsked
<1>4. ASSUME NEW r, NEW i \in 1..Len(w), w[i] = r, \A j \in 1..Len(w) : j > i => w[j].t # r.t
      PROVE  LastAsked(r)'
  <2>1. Len(up) + i \in 1..Len(up') /\ up'[Len(up) + i] = r
    BY <1>2, <1>4
  <2>2. \A j \in 1..Len(up') : j > Len(up) + i => up'[j].t # r.t
    <3> SUFFICES ASSUME NEW j \in 1..Len(up'), j > Len(up) + i PROVE up'[j].t # r.t
      OBVIOUS
    <3>1. j - Len(up) \in 1..Len(w) /\ up'[j] = w[j - Len(up)] /\ j - Len(up) > i
      BY <1>1, <1>2
    <3> QED BY <1>4, <3>1
  <2> QED BY <2>1, <2>2 DEF LastAsked
<1>5. \A t : Unasked(t)' <=> Unasked(t) /\ \A i \in 1..Len(w) : w[i].t # t
  <2> SUFFICES ASSUME NEW t
      PROVE Unasked(t)' <=> Unasked(t) /\ \A i \in 1..Len(w) : w[i].t # t
    OBVIOUS
  <2>1. ASSUME \A k \in 1..Len(up') : up'[k].t # t
        PROVE  /\ \A k \in 1..Len(up) : up[k].t # t
               /\ \A k \in 1..Len(w) : w[k].t # t
    <3>1. ASSUME NEW k \in 1..Len(up) PROVE up[k].t # t
      BY <1>2, <2>1, <3>1
    <3>2. ASSUME NEW k \in 1..Len(w) PROVE w[k].t # t
      <4>1. Len(up) + k \in 1..Len(up') /\ up'[Len(up) + k] = w[k]
        BY <1>2
      <4> QED BY <2>1, <4>1
    <3> QED BY <3>1, <3>2
  <2>2. ASSUME \A k \in 1..Len(up) : up[k].t # t, \A k \in 1..Len(w) : w[k].t # t
        PROVE  \A k \in 1..Len(up') : up'[k].t # t
    BY <1>2, <2>2
  <2> QED BY <2>1, <2>2 DEF Unasked
<1> QED BY <1>3, <1>4, <1>5

\* A snapshot moves the active targets to its version, on disk too if need be, asks
\* again for those whose reset is pending, and leaves the others.
LEMMA SnapshotInv ==
  ASSUME Inv, down # <<>>, Head(down).kind = "snapshot", Snapshot(Head(down).n, Tail(down))
  PROVE  Inv'
<1> DEFINE v == Head(down).n
           again == {t \in resets : listen[t] # No}
           w == Rewatch(SetToSeq(again))
<1>1. /\ down \in Seq(Message) /\ Len(down) \in Nat \ {0} /\ 1 \in 1..Len(down)
      /\ Head(down) = down[1] /\ Head(down) \in Message
      /\ down' = Tail(down) /\ down' \in Seq(Message) /\ Len(down') = Len(down) - 1
      /\ \A i \in 1..Len(down') : down'[i] = down[i + 1] /\ i + 1 \in 1..Len(down)
  BY FirstMessage DEF Inv, Snapshot
<1>2. v \in Versions \ {0} /\ v >= last /\ open /\ UNCHANGED <<mode, hist, serving, open>>
  BY <1>1 DEF Inv, Types, Versions, Now, Says, Quiet, Snapshot, server
<1>3. Raised(v)
  BY <1>2 DEF Snapshot
<1>4. \A t \in Targets :
        /\ t \in Changed <=> Active(t)
        /\ t \in again <=> t \in resets /\ listen[t] # No
        /\ Kept(t) /\ t \in again => t \in Changed /\ Held(0, t) = {} /\ ~agg[t].current
        /\ Kept(t) /\ t \in Changed /\ t \notin again => Held(0, t) = Matching(v, t)
        /\ t \in Changed => listen[t] # No /\ agg[t].outstanding = 0
        /\ agg[t] \in Target
  <2> SUFFICES ASSUME NEW t \in Targets
      PROVE  /\ t \in Changed <=> Active(t)
             /\ t \in again <=> t \in resets /\ listen[t] # No
             /\ Kept(t) /\ t \in again => t \in Changed /\ Held(0, t) = {} /\ ~agg[t].current
             /\ Kept(t) /\ t \in Changed /\ t \notin again => Held(0, t) = Matching(v, t)
             /\ t \in Changed => listen[t] # No /\ agg[t].outstanding = 0
             /\ agg[t] \in Target
    OBVIOUS
  <2>1. t \in Changed <=> Active(t)
    BY DEF Changed
  <2>2. agg[t] \in Target
    BY DEF Inv, Types
  <2> QED BY <2>1, <2>2, SnapshotIsExact DEF Active
<1>5. /\ keys' = [t \in Targets |-> IF t \in Changed THEN Held(0, t) ELSE keys[t]]
      /\ data' = [t \in Targets |-> IF t \in Changed THEN v ELSE data[t]]
      /\ listen' = [t \in Targets |-> IF t \in again THEN 0 ELSE IF t \in Changed THEN v ELSE listen[t]]
      /\ synced' = [t \in Targets |-> IF t \in Changed THEN (IF agg[t].current THEN v ELSE 0) ELSE synced[t]]
      /\ up' = up \o w /\ resets' = {} /\ last' = v
  BY <1>3 DEF Raised, Held
<1>6. PICK held \in SUBSET {t \in Changed : OfKind(t, "none") = Docs} :
        /\ saved' = [t \in Targets |-> IF t \in Changed \ held THEN v ELSE saved[t]]
        /\ doubt' = [t \in Targets |->
                       IF doubt[t] = "lost" THEN "lost"
                       ELSE IF t \in again THEN "mismatch"
                       ELSE IF t \in Changed \ held THEN "none" ELSE doubt[t]]
  BY <1>3 DEF Raised
<1>7. \A t \in Targets : Kept(t)' <=> Kept(t)
  <2> SUFFICES ASSUME NEW t \in Targets PROVE doubt'[t] = "lost" <=> doubt[t] = "lost"
    BY DEF Kept
  <2>1. doubt'[t] = IF doubt[t] = "lost" THEN "lost"
                    ELSE IF t \in again THEN "mismatch"
                    ELSE IF t \in Changed \ held THEN "none" ELSE doubt[t]
    BY <1>6
  <2> HIDE DEF again
  <2> QED BY <2>1
<1>8. \A t \in Targets :
        /\ agg'[t] \in Target /\ agg'[t].current = agg[t].current
        /\ agg'[t].outstanding = agg[t].outstanding + (IF t \in again THEN 2 ELSE 0)
        /\ agg'[t].docs = IF t \in Changed THEN NewState.docs ELSE agg[t].docs
  <2> SUFFICES ASSUME NEW t \in Targets
      PROVE  /\ agg'[t] \in Target /\ agg'[t].current = agg[t].current
             /\ agg'[t].outstanding = agg[t].outstanding + (IF t \in again THEN 2 ELSE 0)
             /\ agg'[t].docs = IF t \in Changed THEN NewState.docs ELSE agg[t].docs
    OBVIOUS
  <2> DEFINE s == IF t \in Changed THEN [agg[t] EXCEPT !.docs = NewState.docs] ELSE agg[t]
  <2>1. agg'[t] = IF t \in again THEN [s EXCEPT !.outstanding = @ + 2] ELSE s
    BY <1>3 DEF Raised
  <2>2. agg[t] \in Target /\ NewState.docs \in [Docs -> Change]
    BY <1>4 DEF NewState, Change
  <2>3. /\ s \in Target /\ s.outstanding = agg[t].outstanding /\ s.current = agg[t].current
        /\ s.docs = IF t \in Changed THEN NewState.docs ELSE agg[t].docs
    BY <2>2 DEF Target
  <2> HIDE DEF s, again
  <2> QED BY <2>1, <2>3 DEF Target
<1>9. /\ w \in Seq(Request)
      /\ \A i \in 1..Len(w) : w[i].token = 0 /\ w[i].t \in again
      /\ again = {} => w = <<>>
      /\ \A t \in again :
           /\ Number(w, Requests(t)) = 2
           /\ \E i \in 1..Len(w) : /\ w[i] = Watch(t, 0)
                                   /\ \A j \in 1..Len(w) : j > i => w[j].t # t
  <2>1. again \subseteq Targets
    BY DEF Inv, Types
  <2>2. IsFiniteSet(again)
    BY <2>1, WatchAssumption, FS_Subset
  <2> HIDE DEF again
  <2> QED BY <2>1, <2>2, RewatchAsks
<1> HIDE DEF v, again, w
<1>10. /\ up \in Seq(Request) /\ up' \in Seq(Request) /\ Len(up') = Len(up) + Len(w)
       /\ Len(up) \in Nat /\ Len(w) \in Nat
       /\ \A i \in 1..(Len(up) + Len(w)) : up'[i] = IF i <= Len(up) THEN up[i] ELSE w[i - Len(up)]
  <2>1. up \in Seq(Request)
    BY DEF Inv, Types
  <2> QED BY <1>5, <1>9, <2>1, ConcatProperties, LenProperties
<1>11. /\ \A r : LastAsked(r) /\ (\A i \in 1..Len(w) : w[i].t # r.t) => LastAsked(r)'
       /\ \A r : (\E i \in 1..Len(w) : w[i] = r /\ \A j \in 1..Len(w) : j > i => w[j].t # r.t)
                     => LastAsked(r)'
       /\ \A t : Unasked(t)' <=> Unasked(t) /\ \A i \in 1..Len(w) : w[i].t # t
  <2>1. up \in Seq(Request) /\ w \in Seq(Request) /\ up' = up \o w
    BY <1>5, <1>9, <1>10
  <2> QED BY ONLY <2>1, LastAskedBehind
<1>12. mode # "filters" => up' = up /\ again = {}
  <2>1. mode # "filters" => again = {}
    BY <1>4 DEF Inv, Noted, again
  <2> QED BY <1>5, <1>9, <1>10, <2>1, ConcatEmptySeq
<1>13. Types'
  <2>1. 0 \in Versions /\ v \in Versions
    BY <1>2, LenProperties DEF Inv, Types, Versions, Now
  <2>2. /\ keys' \in [Targets -> SUBSET Docs]
        /\ data' \in [Targets -> Versions] /\ saved' \in [Targets -> Versions]
        /\ listen' \in [Targets -> Versions \cup {No}]
        /\ synced' \in [Targets -> Versions]
        /\ doubt' \in [Targets -> {"none", "mismatch", "lost"}]
    <3>1. /\ keys \in [Targets -> SUBSET Docs] /\ listen \in [Targets -> Versions \cup {No}]
          /\ data \in [Targets -> Versions] /\ saved \in [Targets -> Versions]
          /\ synced \in [Targets -> Versions]
      BY DEF Inv, Types
    <3>2. keys' \in [Targets -> SUBSET Docs]
      <4>1. \A t \in Targets : Held(0, t) \subseteq Docs
        BY HeldType DEF Inv
      <4> QED BY <1>5, <3>1, <4>1
    <3>3. data' \in [Targets -> Versions] /\ listen' \in [Targets -> Versions \cup {No}]
      BY <1>5, <2>1, <3>1
    <3>4. synced' \in [Targets -> Versions] /\ saved' \in [Targets -> Versions]
      BY <1>5, <1>6, <2>1, <3>1
    <3>5. doubt' \in [Targets -> {"none", "mismatch", "lost"}]
      BY <1>6 DEF Inv, Types
    <3> QED BY <3>2, <3>3, <3>4, <3>5
  <2>3. agg' \in [Targets -> Target]
    <3>1. \A t \in Targets : agg'[t] \in Target
      BY <1>8
    <3>2. agg' = [t \in Targets |-> agg'[t]]
      BY <1>3 DEF Raised
    <3> QED BY <3>1, <3>2
  <2>4. \A i \in 1..Len(up') : up'[i].token \in Versions
    <3> SUFFICES ASSUME NEW i \in 1..Len(up') PROVE up'[i].token \in Versions
      OBVIOUS
    <3>1. CASE i <= Len(up)
      BY <1>10, <3>1 DEF Inv, Types
    <3>2. CASE i > Len(up)
      <4>1. i - Len(up) \in 1..Len(w) /\ up'[i] = w[i - Len(up)]
        BY <1>10, <3>2
      <4> QED BY <1>9, <2>1, <4>1
    <3> QED BY <1>10, <3>1, <3>2
  <2> QED BY <1>1, <1>2, <1>5, <1>10, <2>1, <2>2, <2>3, <2>4 DEF Inv, Types, Service, Versions, Now
<1>14. Says'
  BY <1>1, <1>2, <1>5, SaysNext DEF Inv, v
<1>15. Quiet'
  BY <1>2 DEF Quiet
<1>16. Noted' /\ Keyed'
  <2>1. ASSUME NEW t \in Targets, NEW d \in Docs
        PROVE  /\ agg'[t].docs[d] = "added" => d \notin keys'[t]
               /\ agg'[t].docs[d] = "removed" => d \in keys'[t]
    <3>1. CASE t \in Changed
      BY <1>8, <3>1 DEF NewState
    <3>2. CASE t \notin Changed
      BY <1>5, <1>8, <3>2 DEF Inv, Noted
    <3> QED BY <3>1, <3>2
  <2>2. ASSUME NEW t \in Targets
        PROVE  /\ mode # "filters" => doubt'[t] # "mismatch"
               /\ mode = "removals" => doubt'[t] = "none"
               /\ mode = "filters" /\ t \in Documents => doubt'[t] = "none"
    <3>1. doubt'[t] = IF doubt[t] = "lost" THEN "lost"
                      ELSE IF t \in again THEN "mismatch"
                      ELSE IF t \in Changed \ held THEN "none" ELSE doubt[t]
      BY <1>6
    <3>2. mode = "filters" /\ t \in Documents => t \notin again
      BY DEF again, Inv, Noted
    <3> QED BY <1>12, <3>1, <3>2 DEF Inv, Noted
  <2>3. Noted'
    BY <1>2, <1>5, <2>1, <2>2, WatchAssumption DEF Noted
  <2>4. \A t \in Documents : /\ keys'[t] \subseteq {Key[t]}
                             /\ \A d \in Docs : agg'[t].docs[d] # "none" => d = Key[t]
    <3> SUFFICES ASSUME NEW t \in Documents
        PROVE  /\ keys'[t] \subseteq {Key[t]}
               /\ \A d \in Docs : agg'[t].docs[d] # "none" => d = Key[t]
      OBVIOUS
    <3>1. /\ t \in Targets /\ keys[t] \subseteq {Key[t]}
          /\ \A d \in Docs : agg[t].docs[d] # "none" => d = Key[t]
      BY WatchAssumption DEF Inv, Keyed
    <3>2. Held(0, t) \subseteq {Key[t]}
      BY <3>1 DEF Held, OfKind
    <3>3. keys'[t] \subseteq {Key[t]}
      <4>1. keys'[t] = IF t \in Changed THEN Held(0, t) ELSE keys[t]
        BY <1>5, <3>1
      <4> QED BY <3>1, <3>2, <4>1
    <3>4. \A d \in Docs : agg'[t].docs[d] # "none" => d = Key[t]
      <4>1. agg'[t].docs = IF t \in Changed THEN NewState.docs ELSE agg[t].docs
        BY <1>8, <3>1
      <4>2. \A d \in Docs : NewState.docs[d] = "none"
        BY DEF NewState
      <4> QED BY <3>1, <4>1, <4>2
    <3> QED BY <3>3, <3>4
  <2> QED BY <1>1, <2>3, <2>4, KeyedNext DEF Inv
<1>17. Exact'
  <2> SUFFICES ASSUME NEW t \in Targets, Kept(t)
      PROVE  /\ doubt'[t] = "none" => keys'[t] = Matching(saved'[t], t)
             /\ listen'[t] # No =>
                  /\ keys'[t] = Matching(listen'[t], t)
                  /\ data'[t] = listen'[t] \/ (listen'[t] = 0 /\ doubt'[t] = "mismatch")
             /\ synced'[t] # 0 => synced'[t] = listen'[t]
    BY <1>2, <1>7 DEF Exact, Matching
  <2>1. /\ doubt[t] = "none" => keys[t] = Matching(saved[t], t)
        /\ listen[t] # No => /\ keys[t] = Matching(listen[t], t)
                             /\ data[t] = listen[t] \/ (listen[t] = 0 /\ doubt[t] = "mismatch")
        /\ synced[t] # 0 => synced[t] = listen[t]
    BY DEF Inv, Exact
  <2>2. doubt'[t] = IF t \in again THEN "mismatch"
                    ELSE IF t \in Changed \ held THEN "none" ELSE doubt[t]
    BY <1>6 DEF Kept
  <2>3. CASE t \notin Changed
    <3>1. /\ t \notin again /\ keys'[t] = keys[t] /\ data'[t] = data[t] /\ listen'[t] = listen[t]
          /\ synced'[t] = synced[t] /\ saved'[t] = saved[t] /\ doubt'[t] = doubt[t]
      BY <1>4, <1>5, <1>6, <2>2, <2>3
    <3> QED BY <2>1, <3>1
  <2>4. CASE t \in again
    <3>1. keys'[t] = {} /\ listen'[t] = 0 /\ synced'[t] = 0 /\ doubt'[t] = "mismatch"
      BY <1>4, <1>5, <2>2, <2>4
    <3> QED BY <3>1 DEF Matching
  <2>5. CASE t \in Changed /\ t \notin again
    <3>1. /\ keys'[t] = Matching(v, t) /\ listen'[t] = v /\ data'[t] = v
          /\ synced'[t] # 0 => synced'[t] = v
      BY <1>4, <1>5, <2>5
    <3>2. t \in held => Held(0, t) = keys[t]
      BY <1>6 DEF Held, OfKind
    <3>3. doubt'[t] = "none" => keys'[t] = Matching(saved'[t], t)
      <4>1. CASE t \in held
        <5>1. saved'[t] = saved[t] /\ keys'[t] = keys[t] /\ doubt'[t] = doubt[t]
          BY <1>4, <1>6, <2>2, <2>5, <3>1, <3>2, <4>1
        <5> QED BY <2>1, <5>1
      <4>2. CASE t \notin held
        BY <1>6, <2>5, <3>1, <4>2
      <4> QED BY <4>1, <4>2
    <3> QED BY <3>1, <3>3
  <2> QED BY <2>3, <2>4, <2>5
<1>18. Awaited'
  <2> SUFFICES ASSUME NEW t \in Targets, Kept(t)
      PROVE  agg'[t].outstanding = Number(up', Requests(t)) + Number(down', Answers(t))
    BY <1>7 DEF Awaited, Requests, Answers
  <2>1. Number(down, Answers(t)) = Number(down', Answers(t)) + (IF Head(down) \in Answers(t) THEN 1 ELSE 0)
    BY <1>1, NumberTail
  <2>2. Head(down) \notin Answers(t)
    BY DEF Answers
  <2>3. Number(up', Requests(t)) = Number(up, Requests(t)) + Number(w, Requests(t))
    BY <1>5, <1>9, <1>10, NumberConcat
  <2>4. Number(w, Requests(t)) = IF t \in again THEN 2 ELSE 0
    <3>1. CASE t \in again
      BY <1>9, <3>1
    <3>2. CASE t \notin again
      <4>1. \A i \in 1..Len(w) : w[i] \notin Requests(t)
        BY <1>9, <3>2 DEF Requests
      <4> QED BY <1>9, <3>2, <4>1, NumberType
    <3> QED BY <3>1, <3>2
  <2>5. Number(down', Answers(t)) \in Nat /\ Number(up, Requests(t)) \in Nat
    BY <1>1, <1>10, NumberType
  <2>6. agg[t].outstanding = Number(up, Requests(t)) + Number(down, Answers(t))
    BY DEF Inv, Awaited
  <2>7. agg'[t].outstanding = agg[t].outstanding + (IF t \in again THEN 2 ELSE 0)
    BY <1>8
  <2> QED BY <2>1, <2>2, <2>3, <2>4, <2>5, <2>6, <2>7
<1>19. Covered'
  <2> SUFFICES ASSUME NEW t \in Targets, Kept(t), listen'[t] # No PROVE Asked(t)' \/ Followed(t)'
    BY <1>5, <1>7 DEF Covered
  <2>1. CASE t \in again
    <3>1. LastAsked(Watch(t, 0))'
      <4> DEFINE r == Watch(t, 0)
      <4>1. r.t = t
        BY DEF Watch
      <4>2. \E i \in 1..Len(w) : w[i] = r /\ \A j \in 1..Len(w) : j > i => w[j].t # t
        BY <1>9, <2>1
      <4> HIDE DEF r
      <4>3. LastAsked(r)'
        BY <1>11, <4>1, <4>2
      <4> QED BY <4>3 DEF r
    <3>2. listen'[t] = 0
      BY <1>5, <2>1
    <3> QED BY <3>1, <3>2 DEF Asked
  <2>2. CASE t \notin again
    <3>1. t \notin resets /\ listen[t] # No
      BY <1>4, <1>5, <2>2 DEF again
    <3>2. Asked(t) \/ Followed(t)
      BY <1>2, <3>1 DEF Inv, Covered
    <3>3. \A i \in 1..Len(w) : w[i].t # t
      BY <1>9, <2>2
    <3>4. ASSUME Asked(t) PROVE Asked(t)'
      <4>1. agg[t].outstanding # 0
        BY <3>4, Waiting DEF Inv
      <4>2. listen'[t] = listen[t]
        BY <1>4, <1>5, <2>2, <4>1
      <4>3. LastAsked(Watch(t, listen[t]))'
        <5> DEFINE r == Watch(t, listen[t])
        <5>1. LastAsked(r) /\ r.t = t
          BY <3>4 DEF Asked, Watch
        <5>2. Watch(t, listen[t])' = r
          BY <4>2 DEF Watch
        <5> HIDE DEF r
        <5>3. \A x : x = r => LastAsked(x)'
          BY <1>11, <3>3, <5>1
        <5> QED BY <5>2, <5>3 DEF LastAsked
      <4> QED BY <4>2, <4>3 DEF Asked
    <3>5. ASSUME NEW p \in 0..Len(down), FollowedFrom(t, p) PROVE Followed(t)'
      <4>1. p = 0 <=> agg[t].outstanding = 0
        BY <3>5, Waiting DEF Inv
      <4>2. p # 1
        BY <1>1, <3>5 DEF FollowedFrom, Follows, Answers
      <4>3. Held(After(p), t)' = Held(p, t)
        <5>1. CASE p = 0
          <6>1. t \in Changed /\ t \notin again
            BY <1>4, <2>2, <3>1, <4>1, <5>1 DEF Active
          <6>2. keys'[t] = Held(0, t) /\ agg'[t].docs = NewState.docs
            BY <1>5, <1>8, <6>1
          <6>3. Held(0, t)' = Held(0, t)
            BY <6>2 DEF Held, OfKind, NewState
          <6> QED BY <5>1, <6>3 DEF After
        <5>2. CASE p # 0
          <6>1. t \notin Changed
            BY <1>4, <4>1, <5>2
          <6>2. keys'[t] = keys[t]
            BY <1>5, <6>1
          <6> QED BY <4>2, <5>2, <6>2 DEF Held, After
        <5> QED BY <5>1, <5>2
      <4>4. Holds(down, p, t, Held(p, t)) = Held(p, t)
        BY DEF Holds, Hear, Tells
      <4>5. ~Counts(Head(down), t) /\ ~Rejects(Head(down), t)
        BY DEF Counts, Rejects
      <4>6. Unasked(t)'
        BY <1>11, <3>3, <3>5 DEF FollowedFrom
      <4> QED BY <1>1, <1>2, <3>5, <4>3, <4>4, <4>5, <4>6, FollowedNext DEF Inv
    <3> QED BY <3>2, <3>4, <3>5 DEF Followed
  <2> QED BY <2>1, <2>2
<1> QED BY <1>13, <1>14, <1>15, <1>16, <1>17, <1>18, <1>19 DEF Inv

\* Every message is handled.
LEMMA ReceiveInv ==
  ASSUME Inv, Receive
  PROVE  Inv'
<1> DEFINE m == Head(down)
<1>1. down # <<>> /\ m \in Message
  BY HeadTailProperties DEF Inv, Types, Receive
<1>2. m.t \in Targets /\ m.d \in Docs
      /\ m.kind \in {"added", "removed", "current", "in", "out", "filter", "rejected", "snapshot"}
  BY <1>1 DEF Message
<1>3. CASE m.kind \in {"added", "removed"}
  <2>1. \/ m.kind = "added" /\ Added(m.t, Tail(down))
        \/ m.kind = "removed" /\ Removed(m.t, Tail(down))
    BY <1>3 DEF Receive
  <2> QED BY <1>1, <1>2, <2>1, AnswerInv
<1>4. CASE m.kind = "current"
  <2>1. Current(m.t, Tail(down))
    BY <1>4 DEF Receive
  <2> QED BY <1>1, <1>2, <1>4, <2>1, CurrentInv
<1>5. CASE m.kind \in {"in", "out"}
  <2>1. Document(m.t, m.d, m.kind = "in", Tail(down))
    BY <1>5 DEF Receive
  <2> QED BY <1>1, <1>2, <1>5, <2>1, DocumentInv
<1>6. CASE m.kind = "snapshot"
  <2>1. Snapshot(m.n, Tail(down))
    BY <1>6 DEF Receive
  <2> QED BY <1>1, <1>6, <2>1, SnapshotInv
<1>7. CASE m.kind = "filter"
  <2>1. Filter(m.t, m.n, Tail(down))
    BY <1>7 DEF Receive
  <2> QED BY <1>1, <1>2, <1>7, <2>1, FilterInv
<1>8. CASE m.kind = "rejected"
  <2>1. Rejected(m.t, Tail(down))
    BY <1>8 DEF Receive
  <2> QED BY <1>1, <1>2, <1>8, <2>1, RejectedInv
<1> QED BY <1>2, <1>3, <1>4, <1>5, <1>6, <1>7, <1>8

-----------------------------------------------------------------------------
(***************************************************************************)
(* The client asks.                                                        *)
(***************************************************************************)

\* What is promised of a target holds where nothing of it changed.
LEMMA TargetKept ==
  ASSUME NEW t, UNCHANGED <<mode, hist, serving[t], down, listen[t], keys[t], agg[t].docs, agg[t].current>>,
         Unasked(t) => Unasked(t)'
  PROVE  /\ Followed(t) => Followed(t)'
         /\ Pending(t) => Pending(t)'
<1>1. \A p : Held(p, t)' = Held(p, t)
  BY DEF Held, OfKind
<1>2. ASSUME NEW p \in 0..Len(down), FollowedFrom(t, p) PROVE FollowedFrom(t, p)'
  <2>1. Follows(hist', serving'[t], down', p, t, Held(p, t)')
    BY <1>1, <1>2 DEF FollowedFrom
  <2> QED BY <1>2, <2>1 DEF FollowedFrom
<1>3. Followed(t) => Followed(t)'
  BY <1>2 DEF Followed
<1>4. Pending(t) => Pending(t)'
  BY DEF Pending, Answers, Silent
<1> QED BY <1>3, <1>4

\* A request for t goes out, if the stream is open; other targets are as they were.
LEMMA SendInv ==
  ASSUME Inv, NEW t \in Targets, NEW r \in Request, r.t = t, r.token \in Versions, Send(r),
         UNCHANGED <<server, down, open, resets, keys, last>>,
         \A u \in Targets : Kept(u)' => Kept(u)
  PROVE  /\ up' \in Seq(Request) /\ agg' \in [Targets -> Target]
         /\ \A i \in 1..Len(up') : up'[i].token \in Versions
         /\ Says' /\ Quiet' /\ Keyed' /\ Awaited'
         /\ \A u \in Targets : agg'[u].docs = agg[u].docs
         /\ \A u \in Targets : u # t /\ UNCHANGED listen[u] =>
              /\ Asked(u) => Asked(u)'
              /\ Followed(u) => Followed(u)'
              /\ Pending(u) => Pending(u)'
         /\ open => up' = Append(up, r) /\ LastAsked(r)'
         /\ ~open => up' = up
<1>1. up \in Seq(Request) /\ Len(up) \in Nat /\ down \in Seq(Message) /\ agg \in [Targets -> Target]
  BY LenProperties DEF Inv, Types
<1>2. UNCHANGED <<mode, hist, serving, down, open, resets, keys, last>>
  BY DEF server
<1>3. Says'
  BY <1>2 DEF Inv, Says, Versions, Now
<1>4. CASE ~open
  <2>1. UNCHANGED <<up, agg>>
    BY <1>4 DEF Send
  <2>2. Awaited' /\ Quiet' /\ Keyed'
    BY <1>2, <2>1 DEF Inv, Awaited, Quiet, NewState, Unserved, Keyed, Requests, Answers
  <2>3. \A u \in Targets : UNCHANGED listen[u] =>
          /\ Asked(u) => Asked(u)'
          /\ Unasked(u) => Unasked(u)'
    BY <1>2, <2>1 DEF Asked, LastAsked, Watch, Unasked
  <2>4. \A u \in Targets : UNCHANGED listen[u] =>
          (Followed(u) => Followed(u)') /\ (Pending(u) => Pending(u)')
    BY <1>2, <2>1, <2>3, TargetKept
  <2> QED BY <1>3, <1>4, <2>1, <2>2, <2>3, <2>4 DEF Inv, Types
<1>5. CASE open
  <2> DEFINE w == <<r>>
  <2>1. /\ up' = Append(up, r) /\ up' \in Seq(Request) /\ Len(up') = Len(up) + 1
        /\ \A i \in 1..Len(up) : up'[i] = up[i]
        /\ up'[Len(up) + 1] = r
        /\ w \in Seq(Request) /\ Len(w) = 1 /\ w[1] = r /\ up' = up \o w
    <3>1. up' = Append(up, r)
      BY <1>5 DEF Send
    <3>2. /\ Append(up, r) \in Seq(Request) /\ Len(Append(up, r)) = Len(up) + 1
          /\ \A i \in 1..Len(up) : Append(up, r)[i] = up[i]
          /\ Append(up, r)[Len(up) + 1] = r
      BY <1>1, AppendProperties
    <3>3. Append(up, r) = up \o w
      BY <1>1, AppendIsConcat
    <3>4. w \in Seq(Request) /\ Len(w) = 1 /\ w[1] = r
      OBVIOUS
    <3> HIDE DEF w
    <3> QED BY <3>1, <3>2, <3>3, <3>4
  <2> HIDE DEF w
  <2>2. /\ \A x : LastAsked(x) /\ (\A i \in 1..Len(w) : w[i].t # x.t) => LastAsked(x)'
        /\ \A x : (\E i \in 1..Len(w) : w[i] = x /\ \A j \in 1..Len(w) : j > i => w[j].t # x.t)
                    => LastAsked(x)'
        /\ \A u : Unasked(u)' <=> Unasked(u) /\ \A i \in 1..Len(w) : w[i].t # u
    <3>1. up \in Seq(Request)
      BY <1>1
    <3> QED BY ONLY <2>1, <3>1, LastAskedBehind
  <2>3. /\ agg' = [agg EXCEPT ![t].outstanding = @ + 1]
    BY <1>5 DEF Send
  <2>4. agg' \in [Targets -> Target]
    <3> DEFINE s == [agg[t] EXCEPT !.outstanding = @ + 1]
    <3>1. s \in Target
      BY <1>1, StateType
    <3>2. agg' = [agg EXCEPT ![t] = s]
      BY <1>1, <2>3
    <3> HIDE DEF s
    <3> QED BY <1>1, <3>1, <3>2
  <2>5. \A u \in Targets :
          /\ agg'[u].outstanding = agg[u].outstanding + (IF u = t THEN 1 ELSE 0)
          /\ agg'[u].docs = agg[u].docs /\ agg'[u].current = agg[u].current
    BY <1>1, <2>3 DEF Target
  <2>6. Awaited'
    <3> SUFFICES ASSUME NEW u \in Targets, Kept(u)
        PROVE  agg'[u].outstanding = Number(up', Requests(u)) + Number(down', Answers(u))
      BY DEF Awaited, Requests, Answers
    <3>1. Number(up', Requests(u)) = Number(up, Requests(u)) + (IF r \in Requests(u) THEN 1 ELSE 0)
      <4>1. Number(Append(up, r), Requests(u)) = Number(up, Requests(u)) + (IF r \in Requests(u) THEN 1 ELSE 0)
        BY <1>1, NumberAppend
      <4> QED BY <2>1, <4>1
    <3>2. r \in Requests(u) <=> u = t
      BY Kinds
    <3>3. Number(up, Requests(u)) \in Nat /\ Number(down, Answers(u)) \in Nat
      BY <1>1, NumberType
    <3>4. agg[u].outstanding = Number(up, Requests(u)) + Number(down, Answers(u))
      BY DEF Inv, Awaited
    <3> QED BY <1>2, <2>5, <3>1, <3>2, <3>3, <3>4
  <2>7. ASSUME NEW u \in Targets, u # t, UNCHANGED listen[u]
        PROVE  /\ Asked(u) => Asked(u)'
               /\ Followed(u) => Followed(u)'
               /\ Pending(u) => Pending(u)'
    <3>1. \A i \in 1..Len(w) : w[i].t # u
      BY <2>1, <2>7
    <3>2. \A x : x.t = u /\ LastAsked(x) => LastAsked(x)'
      BY <2>2, <3>1
    <3>3. Unasked(u) => Unasked(u)'
      BY <2>2, <3>1
    <3>4. LastAsked(Watch(u, listen[u])) => LastAsked(Watch(u, listen[u]))'
      <4> DEFINE x == Watch(u, listen[u])
      <4>1. x.t = u /\ x' = x
        BY <2>7 DEF Watch
      <4> HIDE DEF x
      <4>2. ASSUME LastAsked(x) PROVE \A y : y = x => LastAsked(y)'
        BY <3>2, <4>1, <4>2
      <4>3. LastAsked(x) => LastAsked(x)'
        BY <4>1, <4>2 DEF LastAsked
      <4> QED BY <4>3 DEF x
    <3>5. Asked(u) => Asked(u)'
      BY <3>4 DEF Asked
    <3>6. (Followed(u) => Followed(u)') /\ (Pending(u) => Pending(u)')
      BY <1>2, <2>5, <2>7, <3>3, TargetKept
    <3> QED BY <3>5, <3>6
  <2>8. \A i \in 1..Len(up') : up'[i].token \in Versions
    BY <1>1, <2>1 DEF Inv, Types
  <2>9. Quiet' /\ Keyed'
    BY <1>2, <1>5, <2>5, WatchAssumption DEF Quiet, Keyed, Inv
  <2>10. LastAsked(r)'
    <3>1. \E i \in 1..Len(w) : w[i] = r /\ \A j \in 1..Len(w) : j > i => w[j].t # r.t
      BY <2>1
    <3> QED BY <2>2, <3>1
  <2> QED BY <1>3, <1>5, <2>1, <2>4, <2>5, <2>6, <2>7, <2>8, <2>9, <2>10
<1> QED BY <1>4, <1>5

\* A new listen is asked for with what is on disk; if that cannot be relied on, track of
\* the target is lost.
LEMMA ListenInv ==
  ASSUME Inv, NEW t \in Targets, Listen(t)
  PROVE  Inv'
<1>1. saved[t] \in Versions /\ saved[t] \in Nat
  BY LenProperties DEF Inv, Types, Versions, Now
<1> PICK r \in Request : r = Watch(t, saved[t])
  BY <1>1 DEF Watch, Request
<1>2. r \in Request /\ r.t = t /\ r.token \in Versions
  BY <1>1 DEF Watch
<1>3. /\ Send(r) /\ listen[t] = No
      /\ UNCHANGED <<server, down, open, resets, keys, last, mode, hist, serving, saved, synced>>
      /\ listen' = [listen EXCEPT ![t] = saved[t]] /\ data' = [data EXCEPT ![t] = saved[t]]
      /\ doubt' = [doubt EXCEPT ![t] = IF @ = "mismatch" \/ t \in resets THEN "lost" ELSE @]
  BY DEF Listen, server
<1>4. \A u \in Targets :
        /\ u # t => doubt'[u] = doubt[u] /\ (Kept(u)' <=> Kept(u))
        /\ Kept(u)' => Kept(u)
        /\ Kept(t)' => doubt[t] = "none" /\ doubt'[t] = "none" /\ t \notin resets
        /\ doubt'[t] = IF doubt[t] = "mismatch" \/ t \in resets THEN "lost" ELSE doubt[t]
  BY <1>3 DEF Inv, Types, Kept
<1>5. /\ up' \in Seq(Request) /\ agg' \in [Targets -> Target]
      /\ \A i \in 1..Len(up') : up'[i].token \in Versions
      /\ Says' /\ Quiet' /\ Keyed' /\ Awaited'
      /\ \A u \in Targets : agg'[u].docs = agg[u].docs
      /\ \A u \in Targets : u # t /\ UNCHANGED listen[u] =>
           /\ Asked(u) => Asked(u)'
           /\ Followed(u) => Followed(u)'
           /\ Pending(u) => Pending(u)'
      /\ open => up' = Append(up, r) /\ LastAsked(r)'
      /\ ~open => up' = up
  <2>1. Send(r) /\ UNCHANGED <<server, down, open, resets, keys, last>>
    BY <1>3
  <2> QED BY <1>2, <1>4, <2>1, SendInv
<1>6. Types'
  <2>1. /\ listen' \in [Targets -> Versions \cup {No}] /\ data' \in [Targets -> Versions]
        /\ doubt' \in [Targets -> {"none", "mismatch", "lost"}]
    BY <1>1, <1>3 DEF Inv, Types
  <2> QED BY <1>3, <1>5, <2>1 DEF Inv, Types, Service, Versions, Now
<1>7. listen'[t] = saved[t] /\ data'[t] = saved[t]
      /\ \A u \in Targets : u # t => UNCHANGED <<listen[u], data[u]>>
  BY <1>3 DEF Inv, Types
<1>8. Noted'
  BY <1>3, <1>4, <1>5 DEF Inv, Noted
<1>9. Exact'
  <2> SUFFICES ASSUME NEW u \in Targets, Kept(u)'
      PROVE  /\ doubt'[u] = "none" => keys[u] = Matching(saved[u], u)
             /\ listen'[u] # No =>
                  /\ keys[u] = Matching(listen'[u], u)
                  /\ data'[u] = listen'[u] \/ (listen'[u] = 0 /\ doubt'[u] = "mismatch")
             /\ synced[u] # 0 => synced[u] = listen'[u]
    BY <1>3 DEF Exact, Matching
  <2>1. CASE u = t
    <3>1. keys[t] = Matching(saved[t], t)
      BY <1>4, <2>1 DEF Inv, Exact
    <3>2. synced[t] = 0
      BY <1>3, <1>4, <2>1 DEF Inv, Types, Exact, Versions, No
    <3> QED BY <1>7, <2>1, <3>1, <3>2
  <2>2. CASE u # t
    BY <1>4, <1>7, <2>2 DEF Inv, Exact
  <2> QED BY <2>1, <2>2
<1>10. Covered'
  <2> SUFFICES ASSUME NEW u \in Targets, Kept(u)', open, listen'[u] # No
      PROVE IF u \in resets THEN Pending(u)' ELSE Asked(u)' \/ Followed(u)'
    BY <1>3 DEF Covered
  <2>1. CASE u = t
    <3>1. LastAsked(Watch(t, listen[t]))'
      <4>1. Watch(t, listen[t])' = r
        BY <1>7 DEF Watch
      <4> QED BY <1>5, <4>1 DEF LastAsked
    <3>2. t \notin resets
      BY <1>4, <2>1
    <3> QED BY <2>1, <3>1, <3>2 DEF Asked
  <2>2. CASE u # t
    <3>1. UNCHANGED listen[u] /\ Kept(u)
      BY <1>4, <1>7, <2>2
    <3> QED BY <1>5, <2>2, <3>1 DEF Inv, Covered
  <2> QED BY <2>1, <2>2
<1> QED BY <1>5, <1>6, <1>8, <1>9, <1>10 DEF Inv

\* A target that is released promises nothing but the token it puts on disk.
LEMMA StopInv ==
  ASSUME Inv, NEW t \in Targets, StopListening(t)
  PROVE  Inv'
<1> DEFINE r == Unwatch(t)
<1>1. 0 \in Versions /\ data[t] \in Versions
  BY LenProperties DEF Inv, Types, Versions, Now
<1>2. r \in Request /\ r.t = t /\ r.token \in Versions
  BY <1>1 DEF Unwatch, Request
<1>3. /\ Send(r) /\ listen[t] # No
      /\ UNCHANGED <<server, down, open, resets, keys, last, mode, hist, serving, data>>
      /\ saved' = [saved EXCEPT ![t] = data[t]]
      /\ listen' = [listen EXCEPT ![t] = No] /\ synced' = [synced EXCEPT ![t] = 0]
      /\ doubt' = [doubt EXCEPT ![t] = IF @ = "mismatch" /\ listen[t] # 0 THEN "none" ELSE @]
  BY DEF StopListening, Release, server
<1>4. /\ \A u \in Targets : u # t => doubt'[u] = doubt[u]
      /\ doubt'[t] = IF doubt[t] = "mismatch" /\ listen[t] # 0 THEN "none" ELSE doubt[t]
      /\ \A u \in Targets : Kept(u)' <=> Kept(u)
  BY <1>3 DEF Inv, Types, Kept
<1> HIDE DEF r
<1>5. /\ up' \in Seq(Request) /\ agg' \in [Targets -> Target]
      /\ \A i \in 1..Len(up') : up'[i].token \in Versions
      /\ Says' /\ Quiet' /\ Keyed' /\ Awaited'
      /\ \A u \in Targets : agg'[u].docs = agg[u].docs
      /\ \A u \in Targets : u # t /\ UNCHANGED listen[u] =>
           /\ Asked(u) => Asked(u)'
           /\ Followed(u) => Followed(u)'
           /\ Pending(u) => Pending(u)'
  BY <1>2, <1>3, <1>4, SendInv
<1>6. Types'
  <2>1. /\ listen' \in [Targets -> Versions \cup {No}] /\ saved' \in [Targets -> Versions]
        /\ synced' \in [Targets -> Versions] /\ doubt' \in [Targets -> {"none", "mismatch", "lost"}]
    BY <1>1, <1>3 DEF Inv, Types
  <2> QED BY <1>3, <1>5, <2>1 DEF Inv, Types, Service, Versions, Now
<1>7. /\ listen'[t] = No /\ saved'[t] = data[t] /\ synced'[t] = 0
      /\ \A u \in Targets : u # t => UNCHANGED <<listen[u], saved[u], synced[u]>>
  BY <1>3 DEF Inv, Types
<1>8. Noted'
  BY <1>3, <1>4, <1>5 DEF Inv, Noted
<1>9. Exact'
  <2> SUFFICES ASSUME NEW u \in Targets, Kept(u)
      PROVE  /\ doubt'[u] = "none" => keys[u] = Matching(saved'[u], u)
             /\ listen'[u] # No =>
                  /\ keys[u] = Matching(listen'[u], u)
                  /\ data[u] = listen'[u] \/ (listen'[u] = 0 /\ doubt'[u] = "mismatch")
             /\ synced'[u] # 0 => synced'[u] = listen'[u]
    BY <1>3, <1>4 DEF Exact, Matching
  <2>1. CASE u = t
    <3>1. doubt'[t] = "none" => data[t] = listen[t] /\ keys[t] = Matching(listen[t], t)
      BY <1>3, <1>4, <2>1 DEF Inv, Exact
    <3> QED BY <1>7, <2>1, <3>1
  <2>2. CASE u # t
    BY <1>4, <1>7, <2>2 DEF Inv, Exact
  <2> QED BY <2>1, <2>2
<1>10. Covered'
  <2> SUFFICES ASSUME NEW u \in Targets, Kept(u), open, listen'[u] # No
      PROVE IF u \in resets THEN Pending(u)' ELSE Asked(u)' \/ Followed(u)'
    BY <1>3, <1>4 DEF Covered
  <2>1. u # t /\ UNCHANGED listen[u]
    BY <1>7
  <2> QED BY <1>5, <2>1 DEF Inv, Covered
<1> QED BY <1>5, <1>6, <1>8, <1>9, <1>10 DEF Inv

\* A new stream asks once for every target that is listened to.
LEMMA OpenInv ==
  ASSUME Inv, Open
  PROVE  Inv'
<1> DEFINE listened == {t \in Targets : listen[t] # No}
           W == {Watch(t, listen[t]) : t \in listened}
<1>1. /\ ~open /\ open' /\ up' = SetToSeq(W)
      /\ agg' = [t \in Targets |-> IF t \in listened THEN [NewState EXCEPT !.outstanding = 1]
                                                      ELSE NewState]
      /\ UNCHANGED <<mode, hist, serving, down, listen, resets, data, saved, keys, last, synced, doubt>>
  BY DEF Open, server, disk, Inv, Types
<1>2. \A t \in listened : listen[t] \in Versions /\ listen[t] \in Nat
  BY LenProperties DEF Inv, Types, Versions, Now
<1>3. \A r \in W : r \in Request /\ r.token \in Versions /\ r.t \in listened /\ r = Watch(r.t, listen[r.t])
  BY <1>2 DEF Watch, Request
<1>4. IsFiniteSet(W)
  <2>1. [t \in listened |-> Watch(t, listen[t])] \in Surjection(listened, W)
    BY DEF Surjection
  <2>2. IsFiniteSet(listened)
    BY WatchAssumption, FS_Subset
  <2> HIDE DEF listened, W
  <2> QED BY <2>1, <2>2, FS_Surjection
<1> HIDE DEF W
<1>5. /\ up' \in Seq(W)
      /\ \A r \in W : \E i \in 1..Len(up') : up'[i] = r
      /\ \A i, j \in 1..Len(up') : up'[i] = up'[j] => i = j
  BY <1>1, <1>4, SetToSeqLists
<1>6. up' \in Seq(Request) /\ \A i \in 1..Len(up') : up'[i] \in W
  <2>1. W \subseteq Request
    BY <1>3
  <2> QED BY <1>5, <2>1, SeqMonotonic, ElementOfSeq
<1>7. ASSUME NEW t \in listened
      PROVE  \E i \in 1..Len(up') : /\ up'[i] = Watch(t, listen[t])
                                    /\ \A j \in 1..Len(up') : up'[j].t = t => j = i
  <2>1. PICK i \in 1..Len(up') : up'[i] = Watch(t, listen[t])
    BY <1>5 DEF W
  <2>2. \A j \in 1..Len(up') : up'[j].t = t => up'[j] = up'[i]
    BY <1>3, <1>6, <2>1
  <2> QED BY <1>5, <2>1, <2>2
<1>8. \A t \in Targets : Number(up', Requests(t)) = IF t \in listened THEN 1 ELSE 0
  <2> SUFFICES ASSUME NEW t \in Targets
      PROVE  Number(up', Requests(t)) = IF t \in listened THEN 1 ELSE 0
    OBVIOUS
  <2>1. \A i \in 1..Len(up') : up'[i] \in Requests(t) <=> up'[i].t = t
    BY <1>6, <1>3, Kinds
  <2>2. CASE t \in listened
    <3>1. PICK i \in 1..Len(up') : /\ up'[i] = Watch(t, listen[t])
                                   /\ \A j \in 1..Len(up') : up'[j].t = t => j = i
      BY <1>7, <2>2
    <3>2. up'[i] \in Requests(t)
      BY <2>1, <3>1 DEF Watch
    <3> QED BY <1>6, <2>1, <2>2, <3>1, <3>2, NumberOne
  <2>3. CASE t \notin listened
    <3>1. \A i \in 1..Len(up') : up'[i] \notin Requests(t)
      BY <1>3, <1>6, <2>1, <2>3
    <3> QED BY <1>6, <2>3, <3>1, NumberType
  <2> QED BY <2>2, <2>3
<1>9. Types'
  <2>1. agg' \in [Targets -> Target]
    <3>1. 1 \in Int
      OBVIOUS
    <3> QED BY <1>1, <3>1, StateType
  <2> QED BY <1>1, <1>3, <1>6, <2>1 DEF Inv, Types, Service, Versions, Now
<1>10. Quiet' /\ Says' /\ down' = <<>> /\ resets' = {}
  BY <1>1 DEF Quiet, Inv, Says, Versions, Now
<1>11. Exact'
  BY <1>1 DEF Inv, Exact, Matching, Kept
<1>12. Awaited'
  <2> SUFFICES ASSUME NEW t \in Targets
      PROVE  agg'[t].outstanding = Number(up', Requests(t)) + Number(down', Answers(t))
    BY DEF Awaited, Requests, Answers
  <2>1. down' = <<>>
    BY <1>1 DEF Inv, Quiet
  <2>2. Number(down', Answers(t)) = 0
    BY <2>1, NumberEmpty
  <2>3. agg'[t].outstanding = IF t \in listened THEN 1 ELSE 0
    BY <1>1 DEF NewState
  <2> QED BY <1>8, <2>2, <2>3
<1>13. Covered'
  <2> SUFFICES ASSUME NEW t \in listened PROVE Asked(t)'
    BY <1>1, <1>10 DEF Covered
  <2>1. PICK i \in 1..Len(up') : /\ up'[i] = Watch(t, listen[t])
                                 /\ \A j \in 1..Len(up') : up'[j].t = t => j = i
    BY <1>7
  <2>2. \A j \in 1..Len(up') : j > i => up'[j].t # t
    BY <2>1
  <2>3. LastAsked(Watch(t, listen[t]))'
    BY <1>1, <2>1, <2>2 DEF LastAsked, Watch
  <2> QED BY <2>3 DEF Asked
<1>14. Noted' /\ Keyed'
  <2>1. \A t \in Targets, d \in Docs : agg'[t].docs[d] = "none"
    BY <1>1 DEF NewState
  <2>2. Noted'
    BY <1>1, <1>10, <2>1, WatchAssumption DEF Inv, Noted
  <2>3. Keyed'
    BY <1>1, <1>10, <2>1, WatchAssumption, EmptySeq DEF Inv, Keyed
  <2> QED BY <2>2, <2>3
<1> QED BY <1>9, <1>10, <1>11, <1>12, <1>13, <1>14 DEF Inv

\* Without a stream nothing is promised but what is on disk and in memory.
LEMMA CutInv ==
  ASSUME Inv, Break \/ Restart
  PROVE  Inv'
<1>1. /\ ~open' /\ up' = <<>> /\ down' = <<>> /\ resets' = {}
      /\ agg' = [t \in Targets |-> NewState] /\ serving' = [t \in Targets |-> Unserved]
      /\ UNCHANGED <<mode, hist, data, saved, keys, last, doubt>>
      /\ \/ UNCHANGED <<listen, synced>>
         \/ listen' = [t \in Targets |-> No] /\ synced' = [t \in Targets |-> 0]
  BY DEF Break, Restart, Cut, disk
<1>2. Types'
  <2>1. 0 \in Versions
    BY LenProperties DEF Inv, Types, Versions, Now
  <2>2. agg' \in [Targets -> Target] /\ serving' \in [Targets -> Service]
    BY <1>1 DEF NewState, Target, Change, Unserved, Service
  <2>3. listen' \in [Targets -> Versions \cup {No}] /\ synced' \in [Targets -> Versions]
    BY <1>1, <2>1 DEF Inv, Types
  <2>4. open' \in BOOLEAN
    BY DEF Break, Restart, Cut
  <2> QED BY <1>1, <2>2, <2>3, <2>4, EmptySeq DEF Inv, Types, Service, Versions, Now
<1>3. Quiet'
  BY <1>1 DEF Quiet, NewState, Unserved
<1>4. Exact'
  BY <1>1 DEF Inv, Types, Exact, Matching, Kept
<1>5. Awaited'
  <2> SUFFICES ASSUME NEW t \in Targets
      PROVE  agg'[t].outstanding = Number(<<>>, Requests(t)) + Number(<<>>, Answers(t))
    BY <1>1 DEF Awaited, Requests, Answers
  <2>1. Number(<<>>, Requests(t)) = 0 /\ Number(<<>>, Answers(t)) = 0
    BY NumberEmpty
  <2> QED BY <1>1, <2>1 DEF NewState
<1>6. Covered'
  BY <1>1 DEF Covered
<1>7. Says'
  BY <1>1, EmptySeq DEF Says
<1>8. Noted' /\ Keyed'
  <2>1. \A t \in Targets, d \in Docs : agg'[t].docs[d] = "none"
    BY <1>1 DEF NewState
  <2>2. Noted'
    BY <1>1, <2>1, WatchAssumption DEF Inv, Noted
  <2>3. Keyed'
    BY <1>1, <2>1, WatchAssumption, EmptySeq DEF Inv, Keyed
  <2> QED BY <2>2, <2>3
<1> QED BY <1>2, <1>3, <1>4, <1>5, <1>6, <1>7, <1>8 DEF Inv


-----------------------------------------------------------------------------
(***************************************************************************)
(* The server answers.                                                     *)
(***************************************************************************)

\* What the server says goes behind what it said; its snapshot, if any, ends it and
\* is of now.
LEMMA SaysOn ==
  ASSUME Types, Says, NEW w \in Seq(Message), down' = down \o w, UNCHANGED <<mode, hist, last>>,
         \A j \in 1..Len(w) :
           /\ w[j].kind = "filter" => mode = "filters"
           /\ w[j].kind = "rejected" => mode = "rejects"
           /\ w[j].kind = "snapshot" => w[j].n = Now /\ j = Len(w)
  PROVE  Says' /\ down' \in Seq(Message)
<1>1. /\ down \in Seq(Message) /\ Len(down) \in Nat /\ Len(w) \in Nat /\ down' \in Seq(Message)
      /\ Len(down') = Len(down) + Len(w)
      /\ \A k \in 1..(Len(down) + Len(w)) : down'[k] = IF k <= Len(down) THEN down[k] ELSE w[k - Len(down)]
  BY ConcatProperties, LenProperties DEF Types
<1>2. Now \in Nat \ {0} /\ last <= Now /\ Versions' = Versions /\ Now \in Versions
  BY LenProperties DEF Types, Versions, Now
<1>3. \A k \in 1..Len(down') : \/ k \in 1..Len(down) /\ down'[k] = down[k]
                               \/ /\ k > Len(down) /\ k - Len(down) \in 1..Len(w)
                                  /\ down'[k] = w[k - Len(down)]
  BY <1>1
<1>4. ASSUME NEW i \in 1..Len(down')
      PROVE  /\ down'[i].kind = "filter" => mode = "filters"
             /\ down'[i].kind = "rejected" => mode = "rejects"
             /\ down'[i].kind = "snapshot" => down'[i].n \in Versions \ {0} /\ last <= down'[i].n
  <2>1. CASE i \in 1..Len(down) /\ down'[i] = down[i]
    BY <2>1 DEF Says
  <2>2. CASE i - Len(down) \in 1..Len(w) /\ down'[i] = w[i - Len(down)]
    BY <1>2, <2>2
  <2> QED BY <1>3, <2>1, <2>2
<1>5. ASSUME NEW i \in 1..Len(down'), NEW j \in 1..Len(down'), i < j,
             down'[i].kind = "snapshot", down'[j].kind = "snapshot"
      PROVE  down'[i].n <= down'[j].n
  <2>1. CASE j \in 1..Len(down)
    <3>1. i \in 1..Len(down) /\ down'[i] = down[i] /\ down'[j] = down[j]
      BY <1>1, <1>5, <2>1
    <3> QED BY <1>5, <3>1, <2>1 DEF Says
  <2>2. CASE j \notin 1..Len(down)
    <3>1. down'[j].n = Now
      BY <1>3, <1>5, <2>2
    <3> QED BY <1>2, <1>4, <1>5, <3>1 DEF Versions
  <2> QED BY <2>1, <2>2
<1> QED BY <1>1, <1>2, <1>4, <1>5 DEF Says

\* A document query is told of its document only, if the server says so.
LEMMA KeyedOn ==
  ASSUME Types, Keyed, NEW w \in Seq(Message), down' = down \o w, UNCHANGED <<keys, agg>>,
         \A t \in Documents, j \in 1..Len(w) : w[j].t = t /\ w[j].kind \in {"in", "out"} => w[j].d = Key[t]
  PROVE  Keyed'
<1>1. /\ Len(down) \in Nat /\ Len(w) \in Nat /\ Len(down') = Len(down) + Len(w)
      /\ \A k \in 1..(Len(down) + Len(w)) : down'[k] = IF k <= Len(down) THEN down[k] ELSE w[k - Len(down)]
  BY ConcatProperties, LenProperties DEF Types
<1>2. \A k \in 1..Len(down') : \/ k \in 1..Len(down) /\ down'[k] = down[k]
                               \/ k - Len(down) \in 1..Len(w) /\ down'[k] = w[k - Len(down)]
  BY <1>1
<1>3. ASSUME NEW t \in Documents, NEW k \in 1..Len(down'), down'[k].t = t, down'[k].kind \in {"in", "out"}
      PROVE  down'[k].d = Key[t]
  <2>1. CASE k \in 1..Len(down) /\ down'[k] = down[k]
    BY <1>3, <2>1 DEF Keyed
  <2>2. CASE k - Len(down) \in 1..Len(w) /\ down'[k] = w[k - Len(down)]
    BY <1>3, <2>2
  <2> QED BY <1>2, <2>1, <2>2
<1> QED BY <1>3 DEF Keyed

\* Where the server says nothing of the requests for t, what t waits for is as before.
LEMMA PendingOn ==
  ASSUME Types, NEW t, NEW w \in Seq(Message), down' = down \o w,
         UNCHANGED <<agg[t], keys[t]>>, Unasked(t)',
         \A j \in 1..Len(w) : w[j] \notin Answers(t), Pending(t)
  PROVE  Pending(t)'
<1>1. /\ Len(down) \in Nat /\ Len(w) \in Nat /\ Len(down') = Len(down) + Len(w)
      /\ \A k \in 1..(Len(down) + Len(w)) : down'[k] = IF k <= Len(down) THEN down[k] ELSE w[k - Len(down)]
  BY ConcatProperties, LenProperties DEF Types
<1>2. \A k \in 1..Len(down') : \/ k \in 1..Len(down) /\ down'[k] = down[k]
                               \/ k - Len(down) \in 1..Len(w) /\ down'[k] = w[k - Len(down)]
  BY <1>1
<1>3. PICK s \in 1..Len(down) : Silent(down, 0, s, t)
  BY DEF Pending
<1>4. s \in 1..Len(down') /\ Silent(down', 0, s, t)
  <2>1. s \in 1..Len(down') /\ down'[s] = down[s]
    BY <1>1
  <2>2. \A k \in 1..Len(down') : k < s => k \in 1..Len(down) /\ down'[k] = down[k]
    BY <1>1
  <2> QED BY <1>3, <2>1, <2>2 DEF Silent
<1>5. \A k \in 1..Len(down') : down'[k] \notin Answers(t)
  BY <1>2 DEF Pending
<1>6. \E k \in 1..Len(down') : Silent(down', 0, k, t)
  BY <1>4
<1>7. ~agg'[t].current /\ \A d \in Docs : agg'[t].docs[d] = IF d \in keys'[t] THEN "removed" ELSE "none"
  BY DEF Pending
<1> QED BY <1>5, <1>6, <1>7 DEF Pending, Answers, Silent

\* Who follows what the server says now follows.
LEMMA FollowedOn ==
  ASSUME Types, NEW t, NEW w \in Seq(Message), down' = down \o w,
         UNCHANGED <<hist, agg[t], keys[t]>>, Unasked(t)',
         NEW p \in 0..Len(down), Follows(hist, serving'[t], down \o w, p, t, Held(p, t))
  PROVE  Followed(t)'
<1>1. Len(down) \in Nat /\ Len(w) \in Nat /\ Len(down') = Len(down) + Len(w)
  BY ConcatProperties, LenProperties DEF Types
<1>2. Held(p, t)' = Held(p, t)
  BY DEF Held, OfKind
<1>3. Follows(hist', serving'[t], down', p, t, Held(p, t)')
  BY <1>2
<1>4. FollowedFrom(t, p)'
  BY <1>3 DEF FollowedFrom
<1> QED BY <1>1, <1>4 DEF Followed

\* A message that tells nothing of t leaves t followed and pending.
LEMMA OthersOn ==
  ASSUME Types, NEW t, NEW m \in Message, m.t # t, m.kind # "snapshot", down' = Append(down, m),
         UNCHANGED <<hist, serving[t], agg[t], keys[t]>>, Unasked(t) => Unasked(t)'
  PROVE  /\ Followed(t) => Followed(t)'
         /\ Pending(t) => Pending(t)'
<1> DEFINE w == <<m>>
<1>1. w \in Seq(Message) /\ Len(w) = 1 /\ w[1] = m /\ \A j \in 1..Len(w) : w[j] = m
  OBVIOUS
<1>2. down' = down \o w /\ down \in Seq(Message)
  BY AppendIsConcat DEF Types
<1> HIDE DEF w
<1>3. \A j \in 1..Len(w) : w[j] \notin Answers(t) /\ ~Counts(w[j], t) /\ ~Rejects(w[j], t)
  BY <1>1 DEF Answers, Counts, Rejects
<1>4. ASSUME Pending(t) PROVE Pending(t)'
  <2>1. Unasked(t)'
    BY <1>4 DEF Pending
  <2> QED BY <1>1, <1>2, <1>3, <1>4, <2>1, PendingOn
<1>5. ASSUME NEW p \in 0..Len(down), FollowedFrom(t, p) PROVE Followed(t)'
  <2>1. Unasked(t)' /\ Follows(hist, serving[t], down, p, t, Held(p, t))
    BY <1>5 DEF FollowedFrom
  <2>2. serving[t].at # No => Brings(hist, serving[t], serving[t], w, t)
    <3>1. \A j \in 1..Len(w) : w[j].kind # "snapshot" /\ \A d, b : ~Tells(w[j], t, d, b)
      BY <1>1 DEF Tells
    <3> QED BY <3>1 DEF Brings
  <2>3. Follows(hist, serving[t], down \o w, p, t, Held(p, t))
    BY <1>1, <1>2, <1>3, <2>1, <2>2, FollowsConcat
  <2> QED BY <1>1, <1>2, <2>1, <2>3, FollowedOn
<1> QED BY <1>4, <1>5 DEF Followed

\* The requests behind the first.
LEMMA LastAskedNext ==
  ASSUME Types, up # <<>>, up' = Tail(up)
  PROVE  /\ \A r : LastAsked(r) => LastAsked(r)' \/ (Head(up) = r /\ Unasked(r.t)')
         /\ \A t : Unasked(t) => Unasked(t)' /\ Head(up).t # t
         /\ \A t : Head(up).t # t /\ Unasked(t)' => Unasked(t)
         /\ Len(up) \in Nat \ {0} /\ Len(up') = Len(up) - 1 /\ Head(up) = up[1]
         /\ \A i \in 1..Len(up') : up'[i] = up[i + 1] /\ i + 1 \in 1..Len(up)
<1>1. /\ up \in Seq(Request) /\ Len(up) \in Nat \ {0} /\ Head(up) = up[1] /\ Len(up') = Len(up) - 1
      /\ \A i \in 1..Len(up') : up'[i] = up[i + 1] /\ i + 1 \in 1..Len(up)
  BY EmptySeq, HeadTailProperties DEF Types
<1>2. 1 \in 1..Len(up) /\ \A i \in 1..Len(up) : i # 1 => i - 1 \in 1..Len(up') /\ up'[i - 1] = up[i]
  <2>1. ASSUME NEW i \in 1..Len(up), i # 1 PROVE i - 1 \in 1..Len(up') /\ up'[i - 1] = up[i]
    <3>1. i - 1 \in 1..Len(up') /\ (i - 1) + 1 = i
      BY <1>1, <2>1
    <3> QED BY <1>1, <3>1
  <2> QED BY <1>1, <2>1
<1>3. ASSUME NEW r, LastAsked(r) PROVE LastAsked(r)' \/ (Head(up) = r /\ Unasked(r.t)')
  <2>1. PICK i \in 1..Len(up) : up[i] = r /\ \A j \in 1..Len(up) : j > i => up[j].t # r.t
    BY <1>3 DEF LastAsked
  <2>2. CASE i = 1
    <3>1. \A j \in 1..Len(up') : up'[j].t # r.t
      <4> SUFFICES ASSUME NEW j \in 1..Len(up') PROVE up'[j].t # r.t
        OBVIOUS
      <4>1. up'[j] = up[j + 1] /\ j + 1 \in 1..Len(up) /\ j + 1 > i
        BY <1>1, <2>2
      <4> QED BY <2>1, <4>1
    <3> QED BY <1>1, <2>1, <2>2, <3>1 DEF Unasked
  <2>3. CASE i # 1
    <3>1. i - 1 \in 1..Len(up') /\ up'[i - 1] = r
      BY <1>2, <2>1, <2>3
    <3>2. \A j \in 1..Len(up') : j > i - 1 => up'[j].t # r.t
      <4> SUFFICES ASSUME NEW j \in 1..Len(up'), j > i - 1 PROVE up'[j].t # r.t
        OBVIOUS
      <4>1. up'[j] = up[j + 1] /\ j + 1 \in 1..Len(up) /\ j + 1 > i
        BY <1>1
      <4> QED BY <2>1, <4>1
    <3> QED BY <3>1, <3>2 DEF LastAsked
  <2> QED BY <2>2, <2>3
<1>4. ASSUME NEW t, Unasked(t) PROVE Unasked(t)' /\ Head(up).t # t
  BY <1>1, <1>2, <1>4 DEF Unasked
<1>5. ASSUME NEW t, Head(up).t # t, Unasked(t)' PROVE Unasked(t)
  <2> SUFFICES ASSUME NEW i \in 1..Len(up) PROVE up[i].t # t
    BY DEF Unasked
  <2>1. CASE i = 1
    BY <1>1, <1>5, <2>1
  <2>2. CASE i # 1
    BY <1>2, <1>5, <2>2 DEF Unasked
  <2> QED BY <2>1, <2>2
<1> QED BY <1>1, <1>3, <1>4, <1>5

\* A request taken is an answer given: the last one for a target makes it followed,
\* from the token asked for.
LEMMA ServerTakesInv ==
  ASSUME Inv, ServerTakes
  PROVE  Inv'
<1> DEFINE r == Head(up)
<1> PICK a : a = Msg(IF r.op = "watch" THEN "added" ELSE "removed", r.t, AnyDoc, 0)
  OBVIOUS
<1>1. /\ up \in Seq(Request) /\ up # <<>> /\ Len(up) \in Nat \ {0} /\ r = up[1] /\ r \in Request
      /\ up' = Tail(up) /\ up' \in Seq(Request) /\ Len(up') = Len(up) - 1
      /\ \A i \in 1..Len(up') : up'[i] = up[i + 1] /\ i + 1 \in 1..Len(up)
  BY EmptySeq, HeadTailProperties DEF Inv, Types, ServerTakes
<1>2. r.t \in Targets /\ r.token \in Versions /\ r.op \in {"watch", "unwatch"}
  BY <1>1 DEF Request, Inv, Types
<1>3. a \in Message /\ a.t = r.t /\ a.kind \in {"added", "removed"}
  <2>1. AnyDoc \in Docs
    BY WatchAssumption DEF AnyDoc
  <2> QED BY <1>2, <2>1 DEF Message, Msg
<1>4. /\ down' = Append(down, a) /\ down \in Seq(Message) /\ open
      /\ UNCHANGED <<mode, hist, open, listen, agg, resets, data, saved, keys, last, synced, doubt>>
      /\ serving' = [serving EXCEPT ![r.t] = IF r.op = "watch" THEN [at |-> r.token, fresh |-> TRUE]
                                             ELSE Unserved]
  BY <1>1 DEF ServerTakes, Inv, Types, Quiet, disk
<1>5. /\ Len(down') = Len(down) + 1 /\ Len(down) \in Nat
      /\ down'[Len(down) + 1] = a /\ \A i \in 1..Len(down) : down'[i] = down[i]
      /\ down' = down \o <<a>> /\ <<a>> \in Seq(Message) /\ Len(<<a>>) = 1 /\ <<a>>[1] = a
  BY <1>3, <1>4, AppendProperties, AppendIsConcat, LenProperties
<1>6. Says' /\ down' \in Seq(Message)
  <2>1. \A j \in 1..Len(<<a>>) : <<a>>[j].kind \notin {"filter", "rejected", "snapshot"}
    BY <1>3, <1>5
  <2> QED BY <1>4, <1>5, <2>1, SaysOn DEF Inv
<1> HIDE DEF r
<1>7. /\ \A x : LastAsked(x) => LastAsked(x)' \/ (r = x /\ Unasked(x.t)')
      /\ \A t : Unasked(t) => Unasked(t)' /\ r.t # t
      /\ \A t : r.t # t /\ Unasked(t)' => Unasked(t)
  BY <1>1, LastAskedNext DEF Inv, r
<1>8. Types'
  <2>1. serving' \in [Targets -> Service]
    BY <1>2, <1>4 DEF Inv, Types, Unserved, Service
  <2>2. \A i \in 1..Len(up') : up'[i].token \in Versions
    BY <1>1 DEF Inv, Types
  <2> QED BY <1>1, <1>4, <1>6, <2>1, <2>2 DEF Inv, Types, Service, Versions, Now
<1>9. Quiet' /\ Noted' /\ Exact' /\ Keyed'
  <2>1. Quiet' /\ Noted'
    BY <1>4 DEF Inv, Quiet, Noted
  <2>2. Exact'
    BY <1>4 DEF Inv, Exact, Kept, Matching
  <2>3. \A t \in Documents, j \in 1..Len(<<a>>) :
          <<a>>[j].t = t /\ <<a>>[j].kind \in {"in", "out"} => <<a>>[j].d = Key[t]
    BY <1>3, <1>5
  <2>4. Keyed'
    BY <1>4, <1>5, <2>3, KeyedOn DEF Inv
  <2> QED BY <2>1, <2>2, <2>4
<1>10. Awaited'
  <2> SUFFICES ASSUME NEW t \in Targets, Kept(t)
      PROVE  agg'[t].outstanding = Number(up', Requests(t)) + Number(down', Answers(t))
    BY <1>4 DEF Awaited, Kept, Requests, Answers
  <2>1. Number(up, Requests(t)) = Number(Tail(up), Requests(t)) + (IF r \in Requests(t) THEN 1 ELSE 0)
    BY <1>1, NumberTail DEF r
  <2>2. Number(Append(down, a), Answers(t)) = Number(down, Answers(t)) + (IF a \in Answers(t) THEN 1 ELSE 0)
    BY <1>3, <1>4, NumberAppend
  <2>3. r \in Requests(t) <=> a \in Answers(t)
    BY <1>1, <1>3, Kinds
  <2>4. Number(up', Requests(t)) \in Nat /\ Number(down, Answers(t)) \in Nat
    BY <1>1, <1>4, NumberType
  <2>5. agg[t].outstanding = Number(up, Requests(t)) + Number(down, Answers(t))
    BY DEF Inv, Awaited
  <2>6. /\ Number(up, Requests(t)) = Number(up', Requests(t)) + (IF r \in Requests(t) THEN 1 ELSE 0)
        /\ Number(down', Answers(t)) = Number(down, Answers(t)) + (IF a \in Answers(t) THEN 1 ELSE 0)
        /\ agg'[t] = agg[t]
    BY <1>1, <1>4, <2>1, <2>2
  <2> QED BY <2>3, <2>4, <2>5, <2>6
<1>11. ASSUME NEW t \in Targets, t # r.t
       PROVE  /\ serving'[t] = serving[t]
              /\ Asked(t) => Asked(t)'
              /\ Followed(t) => Followed(t)'
              /\ Pending(t) => Pending(t)'
  <2>1. serving'[t] = serving[t]
    BY <1>4, <1>11 DEF Inv, Types
  <2>2. Unasked(t) => Unasked(t)'
    BY <1>7
  <2>3. /\ Followed(t) => Followed(t)'
        /\ Pending(t) => Pending(t)'
    <3>1. a.t # t /\ a.kind # "snapshot"
      BY <1>3, <1>11
    <3>2. UNCHANGED <<hist, serving[t], agg[t], keys[t]>>
      BY <1>4, <2>1
    <3> QED BY <1>3, <1>4, <2>2, <3>1, <3>2, OthersOn DEF Inv
  <2>4. Asked(t) => Asked(t)'
    <3> SUFFICES ASSUME Asked(t) PROVE Asked(t)'
      OBVIOUS
    <3> PICK x : x = Watch(t, listen[t])
      OBVIOUS
    <3>1. LastAsked(x) /\ x.t = t
      BY DEF Asked, Watch
    <3>2. LastAsked(x)' /\ x = Watch(t, listen[t])'
      BY <1>4, <1>7, <1>11, <3>1
    <3> QED BY <1>4, <3>2 DEF Asked, LastAsked
  <2> QED BY <2>1, <2>3, <2>4
<1>12. ASSUME NEW t \in Targets, t = r.t, Kept(t), listen[t] # No
       PROVE  t \notin resets /\ (Asked(t)' \/ Followed(t)')
  <2>1. ~Unasked(t)
    BY <1>7, <1>12
  <2>2. t \notin resets /\ Asked(t)
    BY <1>4, <1>12, <2>1 DEF Inv, Covered, Pending, Followed, FollowedFrom
  <2> PICK x : x = Watch(t, listen[t])
    OBVIOUS
  <2>3. LastAsked(x) /\ x.t = t /\ x.op = "watch" /\ x.token = listen[t] /\ x = Watch(t, listen[t])'
    BY <1>4, <2>2 DEF Asked, Watch
  <2>4. CASE r = x /\ Unasked(t)'
    <3> PICK p : p = Len(down) + 1
      OBVIOUS
    <3>1. serving'[t] = [at |-> listen[t], fresh |-> TRUE]
      BY <1>4, <1>12, <2>3, <2>4 DEF Inv, Types
    <3>2. keys[t] = At(hist, listen[t], t) /\ serving'[t].at = listen[t]
      BY <1>12, <3>1, MatchingType DEF Inv, Exact, Types
    <3>3. a \in Answers(t)
      BY <1>3, <1>12, Kinds
    <3>4. serving'[t].at # No
      BY <1>12, <3>1
    <3>5. Follows(hist, serving'[t], Append(down, a), p, t, keys[t])
      BY <1>3, <1>4, <3>2, <3>3, <3>4, FollowsStart
    <3>6. p # 0 /\ p \in 0..Len(down')
      BY <1>5
    <3>7. Held(p, t)' = keys[t]
      BY <1>4, <3>6 DEF Held
    <3>8. Follows(hist', serving'[t], down', p, t, Held(p, t)')
      BY <1>4, <3>5, <3>7
    <3>9. FollowedFrom(t, p)'
      BY <2>4, <3>8 DEF FollowedFrom
    <3> QED BY <2>2, <3>6, <3>9 DEF Followed
  <2>5. CASE LastAsked(x)' /\ ~Unasked(t)'
    BY <1>4, <2>2, <2>3, <2>5 DEF Asked, LastAsked
  <2>6. LastAsked(x)' => ~Unasked(t)'
    BY <2>3 DEF LastAsked, Unasked
  <2> QED BY <1>7, <2>3, <2>4, <2>5, <2>6
<1>13. Covered'
  <2> SUFFICES ASSUME NEW t \in Targets, Kept(t), listen[t] # No
      PROVE  IF t \in resets THEN Pending(t)' ELSE Asked(t)' \/ Followed(t)'
    BY <1>4 DEF Covered, Kept
  <2> QED BY <1>4, <1>11, <1>12 DEF Inv, Covered
<1> QED BY <1>6, <1>8, <1>9, <1>10, <1>13 DEF Inv

\* The server's states only grow.
LEMMA ServerChangeInv ==
  ASSUME Inv, ServerChange
  PROVE  Inv'
<1>1. PICK m \in Results : hist' = Append(hist, m)
  BY DEF ServerChange
<1>2. UNCHANGED <<mode, serving, up, down, open, listen, agg, resets, data, saved, keys, last, synced, doubt>>
  BY DEF ServerChange, disk
<1>3. /\ hist \in Seq(Results) /\ hist' \in Seq(Results)
      /\ Now \in Nat \ {0} /\ Now' = Now + 1
      /\ \A i \in 1..Now : hist'[i] = hist[i]
  BY <1>1, LenProperties, AppendProperties DEF Inv, Types, Now
<1>4. /\ Versions \subseteq Versions'
      /\ \A v \in Versions, t \in Targets : At(hist', v, t) = At(hist, v, t)
      /\ \A v \in Versions, t \in Targets : Matching(v, t) = At(hist, v, t)
  <2>1. Versions \subseteq Versions'
    BY <1>3 DEF Versions
  <2>2. ASSUME NEW v \in Versions, NEW t \in Targets
        PROVE  At(hist', v, t) = At(hist, v, t) /\ Matching(v, t) = At(hist, v, t)
    <3>1. v # 0 => hist'[v] = hist[v]
      BY <1>3 DEF Versions
    <3> QED BY <3>1 DEF At, Matching
  <2> QED BY <2>1, <2>2
<1>5. Types'
  <2>1. serving' \in [Targets -> Service']
    <3>1. Service \subseteq Service'
      BY <1>4 DEF Service
    <3> QED BY <1>2, <3>1 DEF Inv, Types
  <2>2. /\ listen' \in [Targets -> Versions' \cup {No}] /\ data' \in [Targets -> Versions']
        /\ saved' \in [Targets -> Versions'] /\ synced' \in [Targets -> Versions']
        /\ last' \in Versions'
    BY <1>2, <1>4 DEF Inv, Types
  <2>3. \A i \in 1..Len(up') : up'[i].token \in Versions'
    BY <1>2, <1>4 DEF Inv, Types
  <2>4. Now' # 0
    BY <1>3
  <2> QED BY <1>2, <1>3, <2>1, <2>2, <2>3, <2>4 DEF Inv, Types
<1>6. Says'
  BY <1>2, <1>4 DEF Inv, Says
<1>7. Quiet' /\ Noted' /\ Keyed' /\ Awaited'
  BY <1>2 DEF Inv, Quiet, NewState, Unserved, Noted, Keyed, Awaited, Kept, Requests, Answers
<1>8. Exact'
  <2>1. \A v \in Versions, t \in Targets : Matching(v, t)' = Matching(v, t)
    BY <1>4 DEF Matching, At
  <2> SUFFICES ASSUME NEW t \in Targets, Kept(t)
      PROVE  /\ doubt[t] = "none" => keys[t] = Matching(saved[t], t)'
             /\ listen[t] # No => /\ keys[t] = Matching(listen[t], t)'
                                  /\ data[t] = listen[t] \/ (listen[t] = 0 /\ doubt[t] = "mismatch")
             /\ synced[t] # 0 => synced[t] = listen[t]
    BY <1>2 DEF Exact, Kept
  <2>2. saved[t] \in Versions /\ (listen[t] # No => listen[t] \in Versions)
    BY DEF Inv, Types
  <2>3. Matching(saved[t], t)' = Matching(saved[t], t)
        /\ (listen[t] # No => Matching(listen[t], t)' = Matching(listen[t], t))
    <3>1. PICK v \in Versions : v = saved[t]
      BY <2>2
    <3>2. Matching(saved[t], t)' = Matching(v, t)'
      BY <1>2, <3>1 DEF Matching
    <3>3. ASSUME listen[t] # No PROVE Matching(listen[t], t)' = Matching(listen[t], t)
      <4>1. PICK l \in Versions : l = listen[t]
        BY <2>2, <3>3
      <4>2. Matching(listen[t], t)' = Matching(l, t)'
        BY <1>2, <4>1 DEF Matching
      <4> QED BY <2>1, <4>1, <4>2
    <3> QED BY <2>1, <3>1, <3>2, <3>3
  <2> QED BY <2>3 DEF Inv, Exact
<1>9. Covered'
  <2> SUFFICES ASSUME NEW t \in Targets, Kept(t), open, listen[t] # No
      PROVE IF t \in resets THEN Pending(t)' ELSE Asked(t)' \/ Followed(t)'
    BY <1>2 DEF Covered, Kept
  <2>1. Asked(t) => Asked(t)'
    BY <1>2 DEF Asked, LastAsked, Watch
  <2>2. Pending(t) => Pending(t)'
    BY <1>2 DEF Pending, Unasked, Answers, Silent
  <2>3. ASSUME NEW p \in 0..Len(down), FollowedFrom(t, p) PROVE Followed(t)'
    <3>1. serving[t].at # No => serving[t].at \in Versions
      BY DEF Inv, Types, Service
    <3>2. \A i \in 1..Len(down) : down[i].kind = "snapshot" => At(hist', down[i].n, t) = At(hist, down[i].n, t)
      BY <1>4 DEF Inv, Says
    <3>3. Follows(hist', serving[t], down, p, t, Held(p, t))
      <4>1. Follows(hist, serving[t], down, p, t, Held(p, t))
        BY <2>3 DEF FollowedFrom
      <4>2. serving[t].at # No => At(hist', serving[t].at, t) = At(hist, serving[t].at, t)
        BY <1>4, <3>1
      <4> QED BY <3>2, <4>1, <4>2, FollowsLater
    <3>4. Held(p, t)' = Held(p, t)
      BY <1>2 DEF Held, OfKind
    <3>5. Follows(hist', serving'[t], down', p, t, Held(p, t)')
      BY <1>2, <3>3, <3>4
    <3>6. FollowedFrom(t, p)'
      BY <1>2, <2>3, <3>5 DEF FollowedFrom, Unasked
    <3> QED BY <1>2, <3>6 DEF Followed
  <2> QED BY <2>1, <2>2, <2>3 DEF Inv, Covered, Followed
<1> QED BY <1>5, <1>6, <1>7, <1>8, <1>9 DEF Inv

\* A target that is rejected is followed to its rejection.
LEMMA ServerRejectsInv ==
  ASSUME Inv, NEW t \in Targets, ServerRejects(t)
  PROVE  Inv'
<1> PICK m : m = Msg("rejected", t, AnyDoc, 0)
  OBVIOUS
<1>1. m \in Message /\ m.t = t /\ m.kind = "rejected"
  <2>1. AnyDoc \in Docs
    BY WatchAssumption DEF AnyDoc
  <2> QED BY <2>1 DEF Message, Msg
<1>2. /\ mode = "rejects" /\ serving[t].at # No
      /\ serving' = [serving EXCEPT ![t] = Unserved] /\ down' = Append(down, m)
      /\ UNCHANGED <<mode, hist, up, open, listen, agg, resets, data, saved, keys, last, synced, doubt>>
  BY DEF ServerRejects, disk
<1>3. /\ down \in Seq(Message) /\ Len(down) \in Nat /\ <<m>> \in Seq(Message) /\ Len(<<m>>) = 1 /\ <<m>>[1] = m
  BY <1>1, LenProperties DEF Inv, Types
<1>4. down' = down \o <<m>>
  BY <1>1, <1>2, <1>3, AppendIsConcat
<1>5. Says' /\ down' \in Seq(Message)
  <2> DEFINE w == <<m>>
  <2>1. \A j \in 1..Len(w) : /\ w[j].kind = "filter" => mode = "filters"
                             /\ w[j].kind = "rejected" => mode = "rejects"
                             /\ w[j].kind = "snapshot" => w[j].n = Now /\ j = Len(w)
    BY <1>1, <1>2, <1>3
  <2>2. w \in Seq(Message) /\ down' = down \o w
    BY <1>3, <1>4
  <2> HIDE DEF w
  <2> QED BY <1>2, <2>1, <2>2, SaysOn DEF Inv
<1>6. open
  BY <1>2 DEF Inv, Quiet, Unserved
<1>7. Types'
  <2>1. serving' \in [Targets -> Service]
    BY <1>2 DEF Inv, Types, Unserved, Service
  <2> QED BY <1>2, <1>5, <2>1 DEF Inv, Types, Service, Versions, Now
<1>8. Quiet' /\ Noted' /\ Exact' /\ Keyed'
  <2>1. Quiet' /\ Noted'
    BY <1>2, <1>6 DEF Inv, Quiet, Noted
  <2>2. Exact'
    BY <1>2 DEF Inv, Exact, Kept, Matching
  <2>3. \A u \in Documents, j \in 1..Len(<<m>>) :
          <<m>>[j].t = u /\ <<m>>[j].kind \in {"in", "out"} => <<m>>[j].d = Key[u]
    BY <1>1, <1>3
  <2>4. Keyed'
    BY <1>2, <1>3, <1>4, <2>3, KeyedOn DEF Inv
  <2> QED BY <2>1, <2>2, <2>4
<1>9. \A u \in Targets : serving'[u] = IF u = t THEN Unserved ELSE serving[u]
  BY <1>2 DEF Inv, Types
<1>11. Awaited'
  <2> SUFFICES ASSUME NEW u \in Targets, Kept(u)
      PROVE  agg'[u].outstanding = Number(up', Requests(u)) + Number(down', Answers(u))
    BY <1>2 DEF Awaited, Kept, Requests, Answers
  <2>1. Number(Append(down, m), Answers(u)) = Number(down, Answers(u)) + (IF m \in Answers(u) THEN 1 ELSE 0)
    BY <1>1, <1>3, NumberAppend
  <2>2. m \notin Answers(u) /\ Number(down, Answers(u)) \in Nat
    BY <1>1, <1>3, NumberType DEF Answers
  <2>3. Number(down', Answers(u)) = Number(down, Answers(u))
    BY <1>2, <2>1, <2>2
  <2>4. agg[u].outstanding = Number(up, Requests(u)) + Number(down, Answers(u))
    BY DEF Inv, Awaited
  <2> QED BY <1>2, <2>3, <2>4
<1>12. Covered'
  <2> SUFFICES ASSUME NEW u \in Targets, Kept(u), listen[u] # No
      PROVE u \notin resets /\ (Asked(u)' \/ Followed(u)')
    BY <1>2 DEF Covered, Kept
  <2>1. u \notin resets /\ (Asked(u) \/ Followed(u))
    BY <1>2, <1>6 DEF Inv, Covered, Noted
  <2>2. Unasked(u) => Unasked(u)'
    BY <1>2 DEF Unasked
  <2>3. CASE u # t
    <3>1. serving'[u] = serving[u]
      BY <1>9, <2>3
    <3>2. Followed(u) => Followed(u)'
      <4>1. m.t # u /\ m.kind # "snapshot" /\ UNCHANGED <<hist, serving[u], agg[u], keys[u]>>
        BY <1>1, <1>2, <2>3, <3>1
      <4> QED BY <1>1, <1>2, <2>2, <4>1, OthersOn DEF Inv
    <3>3. Asked(u) => Asked(u)'
      BY <1>2 DEF Asked, LastAsked, Watch
    <3> QED BY <2>1, <3>2, <3>3
  <2>4. CASE u = t
    <3> SUFFICES ASSUME Followed(u) PROVE Followed(u)'
      <4>1. Asked(u) => Asked(u)'
        BY <1>2 DEF Asked, LastAsked, Watch
      <4> QED BY <2>1, <4>1
    <3>2. PICK p \in 0..Len(down) : FollowedFrom(u, p)
      BY DEF Followed
    <3> DEFINE w == <<m>>
               sv2 == serving'[u]
    <3>3. /\ w \in Seq(Message) /\ Len(w) = 1 /\ Rejects(w[1], u) /\ down' = down \o w
          /\ sv2.at = No /\ serving[u].at # No
      BY <1>1, <1>2, <1>3, <1>4, <1>9, <2>4 DEF Rejects, Unserved
    <3> HIDE DEF w, sv2
    <3>4. \A k \in 1..Len(down) : ~Counts(down[k], u)
      BY <1>2 DEF Inv, Says, Counts
    <3>5. Follows(hist, serving[u], down, p, u, Held(p, u))
      BY <3>2 DEF FollowedFrom
    <3>6. Follows(hist, sv2, down \o w, p, u, Held(p, u))
      BY <1>3, <3>3, <3>4, <3>5, FollowsRejected
    <3>7. Unasked(u)' /\ UNCHANGED <<hist, agg[u], keys[u]>>
      BY <1>2, <2>2, <3>2 DEF FollowedFrom
    <3> QED BY <2>1, <3>3, <3>6, <3>7, FollowedOn DEF Inv, sv2
  <2> QED BY <2>3, <2>4
<1> QED BY <1>5, <1>7, <1>8, <1>11, <1>12 DEF Inv

\* One row behind another.
LEMMA Joined ==
  ASSUME NEW M, NEW a \in Seq(M), NEW b \in Seq(M)
  PROVE  /\ a \o b \in Seq(M) /\ Len(a) \in Nat /\ Len(b) \in Nat /\ Len(a \o b) = Len(a) + Len(b)
         /\ \A i \in 1..Len(a) : (a \o b)[i] = a[i]
         /\ \A i \in 1..Len(b) : (a \o b)[Len(a) + i] = b[i]
<1> DEFINE ab == a \o b
<1>1. /\ Len(a) \in Nat /\ Len(b) \in Nat /\ ab \in Seq(M) /\ Len(ab) = Len(a) + Len(b)
      /\ \A i \in 1..(Len(a) + Len(b)) : ab[i] = IF i <= Len(a) THEN a[i] ELSE b[i - Len(a)]
  BY ConcatProperties, LenProperties
<1> HIDE DEF ab
<1>2. \A i \in 1..Len(a) : ab[i] = a[i]
  BY <1>1
<1>3. ASSUME NEW i \in 1..Len(b) PROVE ab[Len(a) + i] = b[i]
  <2>1. Len(a) + i \in 1..(Len(a) + Len(b)) /\ ~(Len(a) + i <= Len(a)) /\ (Len(a) + i) - Len(a) = i
    BY <1>1
  <2> QED BY <1>1, <2>1
<1> QED BY <1>1, <1>2, <1>3 DEF ab

\* w is a row of three parts and an end, and comes behind what was said before.
Row(q, a, b, c, x, w) ==
  /\ Len(w) = Len(a) + Len(b) + Len(c) + 1 /\ w[Len(w)] = x
  /\ Len(a) \in Nat /\ Len(b) \in Nat /\ Len(c) \in Nat
  /\ \A i \in 1..Len(a) : w[i] = a[i]
  /\ \A i \in 1..Len(b) : w[Len(a) + i] = b[i]
  /\ \A i \in 1..Len(c) : w[Len(a) + Len(b) + i] = c[i]
  /\ (((q \o a) \o b) \o c) \o <<x>> = q \o w

\* Three parts and an end make such a row.
LEMMA RowParts ==
  ASSUME NEW M, NEW q, q \in Seq(M), NEW a, a \in Seq(M), NEW b, b \in Seq(M), NEW c, c \in Seq(M),
         NEW x, x \in M
  PROVE  /\ ((a \o b) \o c) \o <<x>> \in Seq(M)
         /\ Row(q, a, b, c, x, ((a \o b) \o c) \o <<x>>)
<1> DEFINE ab == a \o b
           abc == ab \o c
           l == <<x>>
           y == abc \o l
<1>1. l \in Seq(M)
  OBVIOUS
<1>2. Len(l) = 1 /\ l[1] = x
  OBVIOUS
<1>3. /\ ab \in Seq(M) /\ Len(a) \in Nat /\ Len(b) \in Nat /\ Len(ab) = Len(a) + Len(b)
      /\ \A i \in 1..Len(a) : ab[i] = a[i]
      /\ \A i \in 1..Len(b) : ab[Len(a) + i] = b[i]
  BY Joined
<1>4. ab \in Seq(M)
  BY <1>3
<1>5. (q \o a) \o b = q \o ab
  <2>1. q \in Seq(M)
    OBVIOUS
  <2>2. a \in Seq(M)
    OBVIOUS
  <2>3. b \in Seq(M)
    OBVIOUS
  <2> QED BY ONLY <2>1, <2>2, <2>3, ConcatAssociative
<1> HIDE DEF ab, l
<1>6. /\ abc \in Seq(M) /\ Len(c) \in Nat /\ Len(abc) = Len(ab) + Len(c)
      /\ \A i \in 1..Len(ab) : abc[i] = ab[i]
      /\ \A i \in 1..Len(c) : abc[Len(ab) + i] = c[i]
  BY <1>4, Joined
<1>7. abc \in Seq(M)
  BY <1>6
<1>8. (q \o ab) \o c = q \o abc
  <2>1. q \in Seq(M)
    OBVIOUS
  <2>2. c \in Seq(M)
    OBVIOUS
  <2> QED BY ONLY <1>4, <2>1, <2>2, ConcatAssociative
<1> HIDE DEF abc
<1>9. /\ y \in Seq(M) /\ Len(y) = Len(abc) + Len(l)
      /\ \A i \in 1..Len(abc) : y[i] = abc[i]
      /\ \A i \in 1..Len(l) : y[Len(abc) + i] = l[i]
  BY <1>1, <1>7, Joined
<1>10. (q \o abc) \o l = q \o y
  <2>1. q \in Seq(M)
    OBVIOUS
  <2> QED BY ONLY <1>1, <1>7, <2>1, ConcatAssociative
<1> HIDE DEF y
<1>11. Len(y) = Len(a) + Len(b) + Len(c) + 1 /\ y[Len(y)] = x
  <2>1. Len(y) = Len(abc) + 1 /\ y[Len(abc) + 1] = x
    BY <1>2, <1>9
  <2> QED BY <1>3, <1>6, <2>1
<1>12. \A i \in 1..Len(a) : y[i] = a[i]
  BY <1>3, <1>6, <1>9
<1>13. ASSUME NEW i \in 1..Len(b) PROVE y[Len(a) + i] = b[i]
  <2>1. Len(a) + i \in 1..Len(ab) /\ Len(a) + i \in 1..Len(abc)
    BY <1>3, <1>6
  <2> QED BY <1>3, <1>6, <1>9, <2>1
<1>14. ASSUME NEW i \in 1..Len(c) PROVE y[Len(a) + Len(b) + i] = c[i]
  <2>1. Len(ab) + i \in 1..Len(abc)
    BY <1>3, <1>6
  <2>2. y[Len(ab) + i] = c[i]
    BY <1>6, <1>9, <2>1
  <2> QED BY <1>3, <2>2
<1> QED BY <1>3, <1>5, <1>6, <1>8, <1>9, <1>10, <1>11, <1>12, <1>13, <1>14 DEF y, abc, ab, l, Row

\* The sets the server pushes in order: what changed, which targets are current, and
\* what it counts.
ServedTargets == {t \in Targets : serving[t].at # No}
AllNews == UNION {News(t) : t \in ServedTargets}
AllCurrent == {Msg("current", t, AnyDoc, Now) : t \in {u \in ServedTargets : serving[u].fresh}}
AllCounts == {Msg("filter", t, AnyDoc, Cardinality(Matching(Now, t))) : t \in {u \in ServedTargets : Counted(u)}}
Ended == Msg("snapshot", AnyTarget, AnyDoc, Now)

\* What is in these sets.
LEMMA WhatIsPushed ==
  ASSUME Inv
  PROVE  /\ Now \in Versions \ {0} /\ Ended \in Message /\ Ended.kind = "snapshot" /\ Ended.n = Now
         /\ \A t \in ServedTargets : /\ serving[t].at \in Versions
                                     /\ Matching(serving[t].at, t) = At(hist, serving[t].at, t)
                                     /\ At(hist, serving[t].at, t) \subseteq Docs
         /\ \A t \in Targets : Matching(Now, t) = At(hist, Now, t) /\ At(hist, Now, t) \subseteq Docs
         /\ \A m \in AllNews :
              /\ m \in Message /\ m.kind \in {"in", "out"}
              /\ m.kind = "in" => m.d \in At(hist, Now, m.t)
              /\ m.kind = "out" => m.d \notin At(hist, Now, m.t) /\ ~Counted(m.t)
              /\ m.t \in Documents => m.d = Key[m.t]
              /\ \E k \in {"in", "out"}, t \in Targets, d \in Docs : m = Msg(k, t, d, 0)
         /\ \A t \in ServedTargets, d \in Docs :
              /\ d \in At(hist, Now, t) => \/ d \in At(hist, serving[t].at, t)
                                           \/ \E m \in AllNews : Tells(m, t, d, TRUE)
              /\ d \notin At(hist, Now, t) => \/ d \notin At(hist, serving[t].at, t) \/ Counted(t)
                                              \/ \E m \in AllNews : Tells(m, t, d, FALSE)
         /\ \A m \in AllCurrent : m \in Message /\ m.kind = "current"
         /\ \A m \in AllCounts :
              /\ m \in Message /\ m.kind = "filter" /\ Counted(m.t) /\ m.t \in ServedTargets
              /\ m = Msg("filter", m.t, AnyDoc, Cardinality(Matching(Now, m.t)))
         /\ \A t \in ServedTargets : Counted(t) =>
              Msg("filter", t, AnyDoc, Cardinality(Matching(Now, t))) \in AllCounts
<1>1. Now \in Nat \ {0} /\ AnyDoc \in Docs /\ AnyTarget \in Targets
  BY WatchAssumption, LenProperties DEF AnyDoc, AnyTarget, Inv, Types, Now
<1>2. Now \in Versions \ {0} /\ Ended \in Message /\ Ended.kind = "snapshot" /\ Ended.n = Now
  BY <1>1 DEF Versions, Ended, Msg, Message
<1>3. \A t \in ServedTargets : /\ serving[t].at \in Versions
                               /\ Matching(serving[t].at, t) = At(hist, serving[t].at, t)
                               /\ At(hist, serving[t].at, t) \subseteq Docs
  <2> SUFFICES ASSUME NEW t \in ServedTargets
      PROVE  /\ serving[t].at \in Versions
             /\ Matching(serving[t].at, t) = At(hist, serving[t].at, t)
             /\ At(hist, serving[t].at, t) \subseteq Docs
    OBVIOUS
  <2>1. serving[t].at \in Versions /\ t \in Targets
    BY DEF ServedTargets, Inv, Types, Service
  <2> QED BY <2>1, MatchingType DEF Inv
<1>4. \A t \in Targets : Matching(Now, t) = At(hist, Now, t) /\ At(hist, Now, t) \subseteq Docs
  BY <1>2, MatchingType DEF Inv
<1>5. \A m \in AllNews :
        /\ m \in Message /\ m.kind \in {"in", "out"}
        /\ m.kind = "in" => m.d \in At(hist, Now, m.t)
        /\ m.kind = "out" => m.d \notin At(hist, Now, m.t) /\ ~Counted(m.t)
        /\ m.t \in Documents => m.d = Key[m.t]
        /\ \E k \in {"in", "out"}, t \in Targets, d \in Docs : m = Msg(k, t, d, 0)
  <2> SUFFICES ASSUME NEW t \in ServedTargets, NEW m \in News(t)
      PROVE  /\ m \in Message /\ m.kind \in {"in", "out"}
             /\ m.kind = "in" => m.d \in At(hist, Now, m.t)
             /\ m.kind = "out" => m.d \notin At(hist, Now, m.t) /\ ~Counted(m.t)
             /\ m.t \in Documents => m.d = Key[m.t]
             /\ \E k \in {"in", "out"}, u \in Targets, d \in Docs : m = Msg(k, u, d, 0)
    BY DEF AllNews
  <2>1. t \in Targets
    BY DEF ServedTargets
  <2>2. PICK k \in {"in", "out"}, d \in Docs :
          /\ m = Msg(k, t, d, 0)
          /\ k = "in" => d \in At(hist, Now, t)
          /\ k = "out" => d \notin At(hist, Now, t) /\ ~Counted(t)
    BY <1>3, <1>4, <2>1 DEF News
  <2>3. m.kind = k /\ m.t = t /\ m.d = d /\ m \in Message
    BY <2>1, <2>2 DEF Msg, Message
  <2>4. t \in Documents => d = Key[t]
    <3>1. t \in Documents => /\ Matching(Now, t) \subseteq {Key[t]}
                             /\ Matching(serving[t].at, t) \subseteq {Key[t]}
      BY <1>2, <1>3, <2>1, MatchingType DEF Inv
    <3>2. d \in Matching(Now, t) \cup Matching(serving[t].at, t)
      <4>1. PICK e \in Matching(Now, t) \cup Matching(serving[t].at, t), b \in {"in", "out"} : m = Msg(b, t, e, 0)
        BY DEF News
      <4> QED BY <2>3, <4>1 DEF Msg
    <3> QED BY <3>1, <3>2
  <2> QED BY <2>1, <2>2, <2>3, <2>4
<1>6. \A t \in ServedTargets, d \in Docs :
        /\ d \in At(hist, Now, t) => \/ d \in At(hist, serving[t].at, t)
                                     \/ \E m \in AllNews : Tells(m, t, d, TRUE)
        /\ d \notin At(hist, Now, t) => \/ d \notin At(hist, serving[t].at, t) \/ Counted(t)
                                        \/ \E m \in AllNews : Tells(m, t, d, FALSE)
  <2> SUFFICES ASSUME NEW t \in ServedTargets, NEW d \in Docs
      PROVE /\ d \in At(hist, Now, t) => \/ d \in At(hist, serving[t].at, t)
                                         \/ \E m \in AllNews : Tells(m, t, d, TRUE)
            /\ d \notin At(hist, Now, t) => \/ d \notin At(hist, serving[t].at, t) \/ Counted(t)
                                            \/ \E m \in AllNews : Tells(m, t, d, FALSE)
    OBVIOUS
  <2>1. /\ Matching(Now, t) = At(hist, Now, t)
        /\ Matching(serving[t].at, t) = At(hist, serving[t].at, t)
    BY <1>3, <1>4 DEF ServedTargets
  <2>2. ASSUME d \in At(hist, Now, t), d \notin At(hist, serving[t].at, t)
        PROVE  \E m \in AllNews : Tells(m, t, d, TRUE)
    <3>1. Msg("in", t, d, 0) \in AllNews
      BY <2>1, <2>2 DEF News, AllNews
    <3>2. Tells(Msg("in", t, d, 0), t, d, TRUE)
      BY DEF Tells, Msg
    <3> QED BY <3>1, <3>2
  <2>3. ASSUME d \notin At(hist, Now, t), d \in At(hist, serving[t].at, t), ~Counted(t)
        PROVE  \E m \in AllNews : Tells(m, t, d, FALSE)
    <3>1. Msg("out", t, d, 0) \in AllNews
      BY <2>1, <2>3 DEF News, AllNews
    <3>2. Tells(Msg("out", t, d, 0), t, d, FALSE)
      BY DEF Tells, Msg
    <3> QED BY <3>1, <3>2
  <2> QED BY <2>2, <2>3
<1>7. \A m \in AllCurrent : m \in Message /\ m.kind = "current"
  BY <1>1 DEF AllCurrent, ServedTargets, Msg, Message
<1>8. \A m \in AllCounts :
        /\ m \in Message /\ m.kind = "filter" /\ Counted(m.t) /\ m.t \in ServedTargets
        /\ m = Msg("filter", m.t, AnyDoc, Cardinality(Matching(Now, m.t)))
  <2> SUFFICES ASSUME NEW t \in ServedTargets, Counted(t),
                      NEW m, m = Msg("filter", t, AnyDoc, Cardinality(Matching(Now, t)))
      PROVE  /\ m \in Message /\ m.kind = "filter" /\ Counted(m.t) /\ m.t \in ServedTargets
             /\ m = Msg("filter", m.t, AnyDoc, Cardinality(Matching(Now, m.t)))
    BY DEF AllCounts
  <2>1. t \in Targets
    BY DEF ServedTargets
  <2>2. IsFiniteSet(Matching(Now, t))
    BY <1>4, <2>1, WatchAssumption, FS_Subset
  <2>3. Cardinality(Matching(Now, t)) \in Nat
    BY <2>2, FS_CardinalityType
  <2>4. m.t = t /\ m.kind = "filter"
    BY DEF Msg
  <2>5. m \in Message
    BY <1>1, <2>1, <2>3 DEF Msg, Message
  <2> QED BY <2>4, <2>5
<1>9. \A t \in ServedTargets : Counted(t) =>
        Msg("filter", t, AnyDoc, Cardinality(Matching(Now, t))) \in AllCounts
  BY DEF AllCounts
<1> QED BY <1>2, <1>3, <1>4, <1>5, <1>6, <1>7, <1>8, <1>9

\* They are finite.
LEMMA PushedFinite ==
  ASSUME Inv
  PROVE  IsFiniteSet(AllNews) /\ IsFiniteSet(AllCurrent) /\ IsFiniteSet(AllCounts)
<1>1. IsFiniteSet(AllNews)
  <2> DEFINE P == {"in", "out"} \X (Targets \X Docs)
             R == {Msg(k, t, d, 0) : k \in {"in", "out"}, t \in Targets, d \in Docs}
             f == [y \in P |-> Msg(y[1], y[2][1], y[2][2], 0)]
  <2>1. IsFiniteSet(Targets \X Docs)
    BY WatchAssumption, FS_Product
  <2>2. IsFiniteSet({"in", "out"})
    <3>1. {"in", "out"} = {"in"} \cup {"out"}
      OBVIOUS
    <3>2. IsFiniteSet({"in"})
      BY FS_Singleton
    <3>3. IsFiniteSet({"in"} \cup {"out"})
      BY <3>2, FS_AddElement
    <3> QED BY <3>1, <3>3
  <2>3. IsFiniteSet(P)
    BY <2>1, <2>2, FS_Product
  <2>4. f \in Surjection(P, R)
    <3>1. f \in [P -> R]
      OBVIOUS
    <3>2. ASSUME NEW m \in R PROVE \E y \in P : f[y] = m
      <4>1. PICK k \in {"in", "out"}, t \in Targets, d \in Docs : m = Msg(k, t, d, 0)
        BY <3>2
      <4>2. <<k, <<t, d>>>> \in P
        OBVIOUS
      <4>3. f[<<k, <<t, d>>>>] = m
        <5> HIDE DEF P
        <5> QED BY <4>1, <4>2
      <4> QED BY <4>2, <4>3
    <3> HIDE DEF P, R, f
    <3> QED BY <3>1, <3>2 DEF Surjection
  <2>5. AllNews \subseteq R
    BY WhatIsPushed
  <2> HIDE DEF P, R, f
  <2>6. IsFiniteSet(R)
    BY <2>3, <2>4, FS_Surjection
  <2> QED BY <2>5, <2>6, FS_Subset
<1>2. \A T \in SUBSET Targets : IsFiniteSet(T)
  BY WatchAssumption, FS_Subset
<1>3. IsFiniteSet(AllCurrent)
  <2> DEFINE T == {u \in ServedTargets : serving[u].fresh}
  <2>1. [t \in T |-> Msg("current", t, AnyDoc, Now)] \in Surjection(T, AllCurrent)
    BY DEF Surjection, AllCurrent
  <2>2. IsFiniteSet(T)
    <3>1. T \in SUBSET Targets
      BY DEF ServedTargets
    <3> HIDE DEF T
    <3> QED BY <1>2, <3>1
  <2> HIDE DEF T
  <2> QED BY <2>1, <2>2, FS_Surjection
<1>4. IsFiniteSet(AllCounts)
  <2> DEFINE T == {u \in ServedTargets : Counted(u)}
  <2>1. [t \in T |-> Msg("filter", t, AnyDoc, Cardinality(Matching(Now, t)))] \in Surjection(T, AllCounts)
    BY DEF Surjection, AllCounts
  <2>2. IsFiniteSet(T)
    <3>1. T \in SUBSET Targets
      BY DEF ServedTargets
    <3> HIDE DEF T
    <3> QED BY <1>2, <3>1
  <2> HIDE DEF T
  <2> QED BY <2>1, <2>2, FS_Surjection
<1> QED BY <1>1, <1>3, <1>4

\* Where the server has what it serves after a push.
Brought == [at |-> Now, fresh |-> FALSE]

\* What the server sends when it brings the targets it serves to now.
Pushed(w) ==
  /\ w \in Seq(Message)
  /\ \A j \in 1..Len(w) :
       /\ w[j].kind \notin {"added", "removed", "rejected"}
       /\ w[j].kind = "filter" => mode = "filters"
       /\ w[j].kind = "snapshot" => w[j].n = Now /\ j = Len(w)
       /\ w[j].kind \in {"in", "out"} /\ w[j].t \in Documents => w[j].d = Key[w[j].t]
  /\ \A t \in Targets : ~(t \in ServedTargets /\ Counted(t)) => \A j \in 1..Len(w) : ~Counts(w[j], t)
  /\ \A t \in ServedTargets :
       IF Counted(t) THEN \E f \in 1..Len(w) : BringsCount(hist, serving[t], Brought, w, f, Len(w), t)
                     ELSE Brings(hist, serving[t], Brought, w, t)

\* The row the server pushes is as Pushed says.
LEMMA ServerPushesNews ==
  ASSUME Inv, ServerPushes
  PROVE  \E w : Pushed(w) /\ down' = down \o w
<1> DEFINE a == SetToSeq(AllNews)
           b == SetToSeq(AllCurrent)
           c == SetToSeq(AllCounts)
           x == Ended
           w == ((a \o b) \o c) \o <<x>>
<1>1. /\ a \in Seq(AllNews) /\ b \in Seq(AllCurrent) /\ c \in Seq(AllCounts)
      /\ \A m \in AllNews : \E i \in 1..Len(a) : a[i] = m
      /\ \A m \in AllCounts : \E i \in 1..Len(c) : c[i] = m
      /\ \A i, j \in 1..Len(c) : c[i] = c[j] => i = j
  BY PushedFinite, SetToSeqLists
<1>2. AllNews \subseteq Message /\ AllCurrent \subseteq Message /\ AllCounts \subseteq Message /\ x \in Message
  BY WhatIsPushed
<1>3. down' = (((down \o a) \o b) \o c) \o <<x>>
  BY DEF ServerPushes, AllNews, AllCurrent, AllCounts, ServedTargets, Ended
<1> HIDE DEF a, b, c, x
<1>4. a \in Seq(Message) /\ b \in Seq(Message) /\ c \in Seq(Message)
  BY <1>1, <1>2, SeqMonotonic
<1>5. /\ \A i \in 1..Len(a) : a[i] \in AllNews
      /\ \A i \in 1..Len(b) : b[i] \in AllCurrent
      /\ \A i \in 1..Len(c) : c[i] \in AllCounts
  BY <1>1, ElementOfSeq
<1>6. /\ w \in Seq(Message) /\ Len(w) = Len(a) + Len(b) + Len(c) + 1 /\ w[Len(w)] = x
      /\ Len(a) \in Nat /\ Len(b) \in Nat /\ Len(c) \in Nat
      /\ \A i \in 1..Len(a) : w[i] = a[i]
      /\ \A i \in 1..Len(b) : w[Len(a) + i] = b[i]
      /\ \A i \in 1..Len(c) : w[Len(a) + Len(b) + i] = c[i]
      /\ (((down \o a) \o b) \o c) \o <<x>> = down \o w
  <2>1. down \in Seq(Message)
    BY DEF Inv, Types
  <2>2. a \in Seq(Message)
    BY <1>4
  <2>3. b \in Seq(Message)
    BY <1>4
  <2>4. c \in Seq(Message)
    BY <1>4
  <2>5. x \in Message
    BY <1>2
  <2>6. w \in Seq(Message) /\ Row(down, a, b, c, x, w)
    BY ONLY <2>1, <2>2, <2>3, <2>4, <2>5, RowParts
  <2> HIDE DEF w
  <2> QED BY <2>6 DEF Row
<1> HIDE DEF w
<1> DEFINE n == Len(a) + Len(b)
<1>7. n \in Nat /\ n < Len(w) /\ Len(a) <= n /\ Len(w) \in 1..Len(w) /\ Len(w) \in Nat
  BY <1>6
<1>8. \A j \in 1..Len(w) : \/ w[j] \in AllNews
                           \/ w[j] \in AllCurrent
                           \/ w[j] \in AllCounts
                           \/ w[j] = x /\ j = Len(w)
  <2> SUFFICES ASSUME NEW j \in 1..Len(w)
      PROVE  w[j] \in AllNews \/ w[j] \in AllCurrent \/ w[j] \in AllCounts \/ (w[j] = x /\ j = Len(w))
    OBVIOUS
  <2>1. CASE j <= Len(a)
    <3>1. j \in 1..Len(a)
      BY <1>6, <2>1
    <3> QED BY <1>5, <1>6, <3>1
  <2>2. CASE j > Len(a) /\ j <= Len(a) + Len(b)
    <3>1. j - Len(a) \in 1..Len(b) /\ Len(a) + (j - Len(a)) = j
      BY <1>6, <2>2
    <3>2. w[j] = b[j - Len(a)]
      BY <1>6, <3>1
    <3> QED BY <1>5, <3>1, <3>2
  <2>3. CASE j > Len(a) + Len(b) /\ j # Len(w)
    <3>1. j - (Len(a) + Len(b)) \in 1..Len(c) /\ Len(a) + Len(b) + (j - (Len(a) + Len(b))) = j
      BY <1>6, <2>3
    <3>2. w[j] = c[j - (Len(a) + Len(b))]
      BY <1>6, <3>1
    <3> QED BY <1>5, <3>1, <3>2
  <2>4. CASE j = Len(w)
    BY <1>6, <2>4
  <2> QED BY <1>6, <2>1, <2>2, <2>3, <2>4
<1>9. \A m \in AllNews : \E j \in 1..Len(a) : j \in 1..Len(w) /\ j \in 1..(Len(w) - 1) /\ w[j] = m
  <2> SUFFICES ASSUME NEW i \in 1..Len(a)
      PROVE  i \in 1..Len(w) /\ i \in 1..(Len(w) - 1) /\ w[i] = a[i]
    BY <1>1
  <2> QED BY <1>6
<1>10. \A m \in AllCounts : \E f \in 1..Len(w) : f > n /\ f < Len(w) /\ w[f] = m
  <2> SUFFICES ASSUME NEW i \in 1..Len(c)
      PROVE  \E f \in 1..Len(w) : f > n /\ f < Len(w) /\ w[f] = c[i]
    BY <1>1
  <2>1. Len(a) + Len(b) + i \in 1..Len(w) /\ Len(a) + Len(b) + i > n /\ Len(a) + Len(b) + i < Len(w)
    BY <1>6
  <2> QED BY <1>6, <2>1
<1>11. \A j \in 1..Len(w) : j > n /\ j # Len(w) => w[j] \in AllCounts
  <2> SUFFICES ASSUME NEW j \in 1..Len(w), j > n, j # Len(w) PROVE w[j] \in AllCounts
    OBVIOUS
  <2>1. j - (Len(a) + Len(b)) \in 1..Len(c) /\ Len(a) + Len(b) + (j - (Len(a) + Len(b))) = j
    BY <1>6
  <2>2. w[j] = c[j - (Len(a) + Len(b))]
    BY <1>6, <2>1
  <2> QED BY <1>5, <2>1, <2>2
<1>12. \A j, k \in 1..Len(w) : w[j] \in AllCounts /\ w[k] = w[j] => j = k
  <2>1. \A m \in AllCounts : m \notin AllNews /\ m \notin AllCurrent /\ m # x
    <3> SUFFICES ASSUME NEW m \in AllCounts PROVE m \notin AllNews /\ m \notin AllCurrent /\ m # x
      OBVIOUS
    <3>1. m.kind = "filter"
      BY WhatIsPushed
    <3>2. \A y \in AllNews : y.kind \in {"in", "out"}
      BY WhatIsPushed
    <3>3. (\A y \in AllCurrent : y.kind = "current") /\ x.kind = "snapshot"
      BY WhatIsPushed DEF x
    <3> QED BY <3>1, <3>2, <3>3
  <2>2. ASSUME NEW j \in 1..Len(w), w[j] \in AllCounts
        PROVE  j - n \in 1..Len(c) /\ w[j] = c[j - n]
    <3>1. ~(j <= Len(a))
      <4> SUFFICES ASSUME j <= Len(a) PROVE FALSE
        OBVIOUS
      <4>1. j \in 1..Len(a)
        BY <1>6
      <4>2. w[j] \in AllNews
        BY <1>5, <1>6, <4>1
      <4> QED BY <2>1, <2>2, <4>2
    <3>2. ~(j <= n)
      <4> SUFFICES ASSUME j <= n PROVE FALSE
        OBVIOUS
      <4>1. j - Len(a) \in 1..Len(b) /\ Len(a) + (j - Len(a)) = j
        BY <1>6, <3>1
      <4>2. w[j] = b[j - Len(a)]
        BY <1>6, <4>1
      <4>3. w[j] \in AllCurrent
        BY <1>5, <4>1, <4>2
      <4> QED BY <2>1, <2>2, <4>3
    <3>3. j # Len(w)
      BY <1>6, <2>1, <2>2
    <3>4. j - n \in 1..Len(c) /\ n + (j - n) = j
      BY <1>6, <3>2, <3>3
    <3> QED BY <1>6, <3>4
  <2> SUFFICES ASSUME NEW j \in 1..Len(w), NEW k \in 1..Len(w), w[j] \in AllCounts, w[k] = w[j]
      PROVE  j = k
    OBVIOUS
  <2>3. j - n \in 1..Len(c) /\ k - n \in 1..Len(c) /\ w[j] = c[j - n]
    BY <2>2
  <2>4. w[k] = c[k - n]
    BY <2>2
  <2> HIDE DEF n
  <2>5. c[j - n] = c[k - n]
    BY <2>3, <2>4
  <2>6. j - n = k - n
    BY <1>1, <2>3, <2>5
  <2> QED BY <1>7, <2>6
<1> HIDE DEF n
<1>13. x.kind = "snapshot" /\ x.n = Now
  BY WhatIsPushed DEF x
<1>14. \A j \in 1..Len(w) :
         /\ w[j].kind \notin {"added", "removed", "rejected"}
         /\ w[j].kind = "filter" => w[j] \in AllCounts
         /\ w[j].kind = "snapshot" => w[j].n = Now /\ j = Len(w)
         /\ w[j].kind \in {"in", "out"} => w[j] \in AllNews
  <2> SUFFICES ASSUME NEW j \in 1..Len(w)
      PROVE  /\ w[j].kind \notin {"added", "removed", "rejected"}
             /\ w[j].kind = "filter" => w[j] \in AllCounts
             /\ w[j].kind = "snapshot" => w[j].n = Now /\ j = Len(w)
             /\ w[j].kind \in {"in", "out"} => w[j] \in AllNews
    OBVIOUS
  <2>1. w[j] \in AllNews => w[j].kind \in {"in", "out"}
    BY WhatIsPushed
  <2>2. w[j] \in AllCurrent => w[j].kind = "current"
    BY WhatIsPushed
  <2>3. w[j] \in AllCounts => w[j].kind = "filter"
    BY WhatIsPushed
  <2> QED BY <1>8, <1>13, <2>1, <2>2, <2>3
<1>15. \A j \in 1..Len(w) : w[j] \in AllCounts => mode = "filters"
  BY WhatIsPushed DEF Counted
<1>16. \A t \in Targets : ~(t \in ServedTargets /\ Counted(t)) => \A j \in 1..Len(w) : ~Counts(w[j], t)
  <2> SUFFICES ASSUME NEW t \in Targets, NEW j \in 1..Len(w), Counts(w[j], t)
      PROVE  t \in ServedTargets /\ Counted(t)
    OBVIOUS
  <2>1. w[j] \in AllCounts /\ w[j].t = t
    BY <1>14 DEF Counts
  <2> QED BY <2>1, WhatIsPushed
<1>17. \A t \in Targets, d \in Docs, j \in 1..Len(w) :
         /\ Tells(w[j], t, d, TRUE) => d \in At(hist, Now, t)
         /\ Tells(w[j], t, d, FALSE) => d \notin At(hist, Now, t) /\ ~Counted(t)
  <2> SUFFICES ASSUME NEW t \in Targets, NEW d \in Docs, NEW j \in 1..Len(w)
      PROVE  /\ Tells(w[j], t, d, TRUE) => d \in At(hist, Now, t)
             /\ Tells(w[j], t, d, FALSE) => d \notin At(hist, Now, t) /\ ~Counted(t)
    OBVIOUS
  <2>1. w[j].kind \in {"in", "out"} => w[j] \in AllNews
    BY <1>14
  <2>2. w[j] \in AllNews => /\ w[j].kind = "in" => w[j].d \in At(hist, Now, w[j].t)
                            /\ w[j].kind = "out" => w[j].d \notin At(hist, Now, w[j].t) /\ ~Counted(w[j].t)
    BY WhatIsPushed
  <2> QED BY <2>1, <2>2 DEF Tells
<1>18. Now # No
  BY WhatIsPushed DEF Versions, No
<1>19. ASSUME NEW t \in ServedTargets, ~Counted(t) PROVE Brings(hist, serving[t], Brought, w, t)
  <2> PICK v : v = Now
    OBVIOUS
  <2>1. t \in Targets /\ Brought.at = v
    BY DEF ServedTargets, Brought
  <2>2. \A d \in Docs, j \in 1..Len(w) : ~Tells(w[j], t, d, d \notin At(hist, v, t))
    <3> SUFFICES ASSUME NEW d \in Docs, NEW j \in 1..Len(w) PROVE ~Tells(w[j], t, d, d \notin At(hist, v, t))
      OBVIOUS
    <3>1. CASE d \in At(hist, v, t)
      BY <1>17, <2>1, <3>1 DEF Tells
    <3>2. CASE d \notin At(hist, v, t)
      BY <1>17, <2>1, <3>2 DEF Tells
    <3> QED BY <3>1, <3>2
  <2>3. \A d \in Docs : \/ d \in At(hist, v, t) <=> d \in At(hist, serving[t].at, t)
                        \/ \E j \in 1..(Len(w) - 1) : Tells(w[j], t, d, d \in At(hist, v, t))
    <3> SUFFICES ASSUME NEW d \in Docs
        PROVE  \/ d \in At(hist, v, t) <=> d \in At(hist, serving[t].at, t)
               \/ \E j \in 1..(Len(w) - 1) : Tells(w[j], t, d, d \in At(hist, v, t))
      OBVIOUS
    <3>1. CASE d \in At(hist, v, t)
      <4>1. d \in At(hist, serving[t].at, t) \/ \E m \in AllNews : Tells(m, t, d, TRUE)
        BY <3>1, WhatIsPushed
      <4>2. (\E m \in AllNews : Tells(m, t, d, TRUE)) => \E j \in 1..(Len(w) - 1) : Tells(w[j], t, d, TRUE)
        BY <1>9
      <4> QED BY <3>1, <4>1, <4>2 DEF Tells
    <3>2. CASE d \notin At(hist, v, t)
      <4>1. d \notin At(hist, serving[t].at, t) \/ \E m \in AllNews : Tells(m, t, d, FALSE)
        BY <1>19, <3>2, WhatIsPushed
      <4>2. (\E m \in AllNews : Tells(m, t, d, FALSE)) => \E j \in 1..(Len(w) - 1) : Tells(w[j], t, d, FALSE)
        BY <1>9
      <4> QED BY <3>2, <4>1, <4>2 DEF Tells
    <3> QED BY <3>1, <3>2
  <2>4. \A j \in 1..Len(w) : w[j].kind = "snapshot" => w[j].n = v /\ j = Len(w)
    BY <1>14
  <2> QED BY <1>18, <2>1, <2>2, <2>3, <2>4 DEF Brings
<1>20. ASSUME NEW t \in ServedTargets, Counted(t)
       PROVE  \E f \in 1..Len(w) : BringsCount(hist, serving[t], Brought, w, f, Len(w), t)
  <2> DEFINE m == Msg("filter", t, AnyDoc, Cardinality(Matching(Now, t)))
             counted == At(hist, Now, t)
  <2>1. t \in Targets /\ serving[t].at # No /\ serving[t].fresh
        /\ Brought.at = Now /\ Brought.fresh = FALSE
    BY <1>20 DEF ServedTargets, Brought, Counted
  <2>2. counted \subseteq Docs /\ Matching(Now, t) = counted
    BY <2>1, WhatIsPushed
  <2>3. m \in AllCounts
    BY <1>20, WhatIsPushed
  <2>4. m.kind = "filter" /\ m.t = t /\ m.n = Cardinality(counted)
    BY <2>2 DEF Msg
  <2> HIDE DEF m, counted
  <2>5. PICK f \in 1..Len(w) : f > n /\ f < Len(w) /\ w[f] = m
    BY <1>10, <2>3
  <2>6. \A k \in 1..Len(w) : Counts(w[k], t) => k = f
    <3> SUFFICES ASSUME NEW k \in 1..Len(w), Counts(w[k], t) PROVE k = f
      OBVIOUS
    <3>1. w[k] \in AllCounts /\ w[k].t = t
      BY <1>14 DEF Counts
    <3>2. w[k] = m
      BY <3>1, WhatIsPushed DEF m
    <3> QED BY <1>12, <2>3, <2>5, <3>2
  <2>7. \A k \in 1..Len(w) : w[k].kind = "snapshot" => k = Len(w)
    BY <1>14
  <2>8. Silent(w, f, Len(w), t)
    <3>1. w[Len(w)].kind = "snapshot"
      BY <1>6, <1>13
    <3>2. ASSUME NEW k \in 1..Len(w), f < k, k < Len(w) PROVE w[k].t # t /\ w[k].kind # "snapshot"
      <4>1. w[k] \in AllCounts
        BY <1>7, <1>11, <2>5, <3>2
      <4>2. w[k].kind = "filter"
        BY <4>1, WhatIsPushed
      <4>3. k # f
        BY <3>2
      <4> QED BY <2>6, <4>2, <4>3 DEF Counts
    <3> QED BY <2>5, <3>1, <3>2 DEF Silent
  <2>9. \A d \in Docs, k \in 1..Len(w) : ~Tells(w[k], t, d, FALSE)
    BY <1>17, <1>20, <2>1
  <2>10. \A d \in counted : \/ d \in At(hist, serving[t].at, t)
                            \/ \E j \in 1..Len(w) : j < f /\ Tells(w[j], t, d, TRUE)
    <3> SUFFICES ASSUME NEW d \in counted, d \notin At(hist, serving[t].at, t)
        PROVE  \E j \in 1..Len(w) : j < f /\ Tells(w[j], t, d, TRUE)
      OBVIOUS
    <3>1. PICK y \in AllNews : Tells(y, t, d, TRUE)
      BY <2>2, WhatIsPushed DEF counted
    <3>2. PICK j \in 1..Len(a) : j \in 1..Len(w) /\ w[j] = y
      BY <1>9
    <3>3. j < f
      BY <1>6, <1>7, <2>5
    <3> QED BY <3>1, <3>2, <3>3
  <2>11. w[Len(w)].n = Now
    BY <1>6, <1>13
  <2>12. Counts(w[f], t) /\ w[f].n = Cardinality(counted)
    BY <2>4, <2>5 DEF Counts
  <2> QED BY <1>18, <2>1, <2>2, <2>6, <2>7, <2>8, <2>9, <2>10, <2>11, <2>12 DEF BringsCount, counted
<1>21. \A j \in 1..Len(w) : w[j].kind \in {"in", "out"} /\ w[j].t \in Documents => w[j].d = Key[w[j].t]
  BY <1>14, WhatIsPushed
<1>22. Pushed(w)
  BY <1>6, <1>14, <1>15, <1>16, <1>19, <1>20, <1>21 DEF Pushed
<1> QED BY <1>3, <1>6, <1>22

\* After a push every served target is told of now.
LEMMA ServerPushesInv ==
  ASSUME Inv, ServerPushes
  PROVE  Inv'
<1>1. PICK w : Pushed(w) /\ down' = down \o w
  BY ServerPushesNews
<1>2. w \in Seq(Message) /\ down \in Seq(Message) /\ Now \in Versions \ {0} /\ Now # No
  <2>1. w \in Seq(Message)
    BY <1>1 DEF Pushed
  <2>2. down \in Seq(Message)
    BY DEF Inv, Types
  <2>3. Now \in Versions \ {0}
    BY WhatIsPushed
  <2>4. Now # No
    BY <2>3 DEF Versions, No
  <2> QED BY <2>1, <2>2, <2>3, <2>4
<1>3. /\ UNCHANGED <<mode, hist, up, open, listen, agg, resets, data, saved, keys, last, synced, doubt>>
      /\ serving' = [t \in Targets |-> IF serving[t].at # No THEN [at |-> Now, fresh |-> FALSE] ELSE serving[t]]
  BY DEF ServerPushes, disk
<1>4. \A t \in Targets : serving'[t] = IF t \in ServedTargets THEN Brought ELSE serving[t]
  BY <1>3 DEF ServedTargets, Brought
<1>5. /\ \A t, j : j \in 1..Len(w) => w[j] \notin Answers(t) /\ ~Rejects(w[j], t)
      /\ \A j \in 1..Len(w) : /\ w[j].kind = "filter" => mode = "filters"
                              /\ w[j].kind = "rejected" => mode = "rejects"
                              /\ w[j].kind = "snapshot" => w[j].n = Now /\ j = Len(w)
  BY <1>1 DEF Pushed, Answers, Rejects
<1>6. Says' /\ down' \in Seq(Message)
  BY <1>1, <1>2, <1>3, <1>5, SaysOn DEF Inv
<1>7. Types'
  <2>1. serving' \in [Targets -> Service]
    BY <1>2, <1>3 DEF Inv, Types, Service
  <2> QED BY <1>3, <1>6, <2>1 DEF Inv, Types, Service, Versions, Now
<1>8. open
  <2>1. ~open => \A t \in Targets : serving[t].at = No
    BY DEF Inv, Quiet, Unserved
  <2> QED BY <2>1 DEF ServerPushes
<1>9. Quiet' /\ Noted' /\ Exact' /\ Keyed'
  <2>1. Quiet' /\ Noted'
    BY <1>3, <1>8 DEF Inv, Quiet, Noted
  <2>2. Exact'
    BY <1>3 DEF Inv, Exact, Kept, Matching
  <2>3. \A t \in Documents, j \in 1..Len(w) : w[j].t = t /\ w[j].kind \in {"in", "out"} => w[j].d = Key[t]
    BY <1>1 DEF Pushed
  <2>4. Keyed'
    BY <1>1, <1>2, <1>3, <2>3, KeyedOn DEF Inv
  <2> QED BY <2>1, <2>2, <2>4
<1>11. Awaited'
  <2> SUFFICES ASSUME NEW t \in Targets, Kept(t)
      PROVE  agg'[t].outstanding = Number(up', Requests(t)) + Number(down', Answers(t))
    BY <1>3 DEF Awaited, Kept, Requests, Answers
  <2>1. Number(down \o w, Answers(t)) = Number(down, Answers(t)) + Number(w, Answers(t))
    BY <1>2, NumberConcat
  <2>2. Number(w, Answers(t)) = 0 /\ Number(down, Answers(t)) \in Nat
    BY <1>2, <1>5, NumberType
  <2>3. Number(down', Answers(t)) = Number(down, Answers(t))
    BY <1>1, <2>1, <2>2
  <2> QED BY <1>3, <2>3 DEF Inv, Awaited
<1>12. Covered'
  <2> SUFFICES ASSUME NEW t \in Targets, Kept(t), listen[t] # No
      PROVE IF t \in resets THEN Pending(t)' ELSE Asked(t)' \/ Followed(t)'
    BY <1>3 DEF Covered, Kept
  <2>1. Unasked(t) => Unasked(t)'
    BY <1>3 DEF Unasked
  <2>2. Asked(t) => Asked(t)'
    BY <1>3 DEF Asked, LastAsked, Watch
  <2>3. Pending(t) => Pending(t)'
    <3> SUFFICES ASSUME Pending(t) PROVE Pending(t)'
      OBVIOUS
    <3>1. Unasked(t)' /\ UNCHANGED <<agg[t], keys[t]>>
      BY <1>3, <2>1 DEF Pending
    <3> QED BY <1>1, <1>2, <1>5, <3>1, PendingOn DEF Inv
  <2>4. ASSUME NEW p \in 0..Len(down), FollowedFrom(t, p) PROVE Followed(t)'
    <3>1. Unasked(t)' /\ Follows(hist, serving[t], down, p, t, Held(p, t)) /\ UNCHANGED <<hist, agg[t], keys[t]>>
      BY <1>3, <2>1, <2>4 DEF FollowedFrom
    <3>2. CASE t \in ServedTargets /\ Counted(t)
      <4>1. PICK f \in 1..Len(w) : BringsCount(hist, serving[t], Brought, w, f, Len(w), t)
        BY <1>1, <3>2 DEF Pushed
      <4>2. Len(w) \in 1..Len(w)
        BY <1>2, LenProperties
      <4>3. Follows(hist, Brought, down \o w, p, t, Held(p, t))
        BY <1>2, <1>5, <3>1, <4>1, <4>2, FollowsCounted
      <4>4. serving'[t] = Brought
        BY <1>4, <3>2
      <4> QED BY <1>1, <1>2, <3>1, <4>3, <4>4, FollowedOn DEF Inv
    <3>3. CASE ~(t \in ServedTargets /\ Counted(t))
      <4> DEFINE sv2 == serving'[t]
      <4>1. \A j \in 1..Len(w) : w[j] \notin Answers(t) /\ ~Counts(w[j], t) /\ ~Rejects(w[j], t)
        BY <1>1, <1>5, <3>3 DEF Pushed
      <4>2. serving[t].at # No => Brings(hist, serving[t], sv2, w, t) /\ (sv2.fresh => serving[t].fresh)
        <5> SUFFICES ASSUME serving[t].at # No
            PROVE  Brings(hist, serving[t], sv2, w, t) /\ (sv2.fresh => serving[t].fresh)
          OBVIOUS
        <5>1. t \in ServedTargets
          BY DEF ServedTargets
        <5>2. ~Counted(t)
          BY <3>3, <5>1
        <5>3. sv2 = Brought /\ Brought.fresh = FALSE
          BY <1>4, <5>1 DEF Brought
        <5>4. Brings(hist, serving[t], Brought, w, t)
          BY <1>1, <5>1, <5>2 DEF Pushed
        <5> HIDE DEF sv2
        <5> QED BY <5>3, <5>4
      <4>3. serving[t].at = No => sv2.at = No
        BY <1>4 DEF ServedTargets
      <4> HIDE DEF sv2
      <4>4. Follows(hist, sv2, down \o w, p, t, Held(p, t))
        BY <1>2, <3>1, <4>1, <4>2, <4>3, FollowsConcat
      <4> QED BY <1>1, <1>2, <3>1, <4>4, FollowedOn DEF Inv, sv2
    <3> QED BY <3>2, <3>3
  <2> QED BY <1>8, <2>2, <2>3, <2>4 DEF Inv, Covered, Followed
<1> QED BY <1>6, <1>7, <1>9, <1>11, <1>12 DEF Inv

-----------------------------------------------------------------------------
(***************************************************************************)
(* Every step, and what follows.                                           *)
(***************************************************************************)

\* Nothing is listened to, nothing on disk.
LEMMA InitInv == Init => Inv
<1> SUFFICES ASSUME Init PROVE Inv
  OBVIOUS
<1>1. /\ up \in Seq(Request) /\ down \in Seq(Message) /\ Len(up) = 0 /\ Len(down) = 0
      /\ up = <<>> /\ down = <<>> /\ resets = {} /\ ~open
  BY EmptySeq DEF Init
<1>2. Types
  <2>1. PICK m \in Results : hist = <<m>>
    BY DEF Init
  <2>2. hist \in Seq(Results) /\ Now = 1 /\ 0 \in Versions
    BY <2>1 DEF Now, Versions
  <2>3. agg \in [Targets -> Target] /\ serving \in [Targets -> Service]
    BY DEF Init, NewState, Target, Change, Unserved, Service
  <2>4. \A i \in 1..Len(up) : up[i].token \in Versions
    BY <1>1
  <2>5. /\ listen \in [Targets -> Versions \cup {No}] /\ data \in [Targets -> Versions]
        /\ saved \in [Targets -> Versions] /\ synced \in [Targets -> Versions] /\ last \in Versions
        /\ keys \in [Targets -> SUBSET Docs] /\ open \in BOOLEAN /\ mode \in Modes
        /\ resets \in SUBSET Targets /\ doubt \in [Targets -> {"none", "mismatch", "lost"}]
    BY <2>2 DEF Init
  <2> QED BY <1>1, <2>2, <2>3, <2>4, <2>5 DEF Types
<1>3. Says
  BY <1>1 DEF Says
<1>4. Quiet /\ Noted /\ Exact /\ Covered
  <2>1. Documents \subseteq Targets
    BY WatchAssumption
  <2> QED BY <2>1 DEF Init, Quiet, Noted, Exact, Covered, Matching, NewState
<1>5. Awaited
  BY NumberEmpty DEF Init, Awaited, NewState
<1>6. Keyed
  <2>1. Documents \subseteq Targets
    BY WatchAssumption
  <2> QED BY <1>1, <2>1 DEF Init, Keyed, NewState
<1> QED BY <1>2, <1>3, <1>4, <1>5, <1>6 DEF Inv

\* The bounds' counters are not spoken of.
LEMMA StutterInv ==
  ASSUME Inv, UNCHANGED vars
  PROVE  Inv'
<1>1. UNCHANGED <<mode, hist, serving, up, down, open, listen, agg, resets, data, saved, keys, last, synced, doubt>>
  BY DEF vars, server, disk
<1>2. Types'
  BY <1>1 DEF Inv, Types, Versions, Service, Now
<1>3. Says' /\ Quiet' /\ Noted' /\ Keyed' /\ Exact' /\ Awaited'
  <2>1. Says' /\ Quiet' /\ Noted' /\ Keyed'
    BY <1>1 DEF Inv, Says, Versions, Now, Quiet, NewState, Unserved, Noted, Keyed
  <2> QED BY <1>1, <2>1 DEF Inv, Exact, Kept, Matching, Awaited, Requests, Answers
<1>4. Covered'
  <2> SUFFICES ASSUME NEW t \in Targets
      PROVE  /\ Asked(t) => Asked(t)'
             /\ Followed(t) => Followed(t)'
             /\ Pending(t) => Pending(t)'
    BY <1>1 DEF Inv, Covered, Kept
  <2>1. Asked(t) => Asked(t)'
    BY <1>1 DEF Asked, LastAsked, Watch
  <2>2. Followed(t) => Followed(t)'
    BY <1>1 DEF Followed, FollowedFrom, Held, OfKind, Unasked
  <2>3. Pending(t) => Pending(t)'
    BY <1>1 DEF Pending, Unasked
  <2> QED BY <2>1, <2>2, <2>3
<1> QED BY <1>2, <1>3, <1>4 DEF Inv

\* One step per action.
LEMMA NextInv == Inv /\ [Next]_vars => Inv'
<1> SUFFICES ASSUME Inv, [Next]_vars PROVE Inv'
  OBVIOUS
<1>1. CASE UNCHANGED vars
  BY <1>1, StutterInv
<1>2. CASE Next
  <2>1. ASSUME NEW t \in Targets, Listen(t) PROVE Inv'
    BY <2>1, ListenInv
  <2>2. ASSUME NEW t \in Targets, StopListening(t) PROVE Inv'
    BY <2>2, StopInv
  <2>3. ASSUME NEW t \in Targets, ServerRejects(t) PROVE Inv'
    BY <2>3, ServerRejectsInv
  <2>4. CASE Open
    BY <2>4, OpenInv
  <2>5. CASE Break \/ Restart
    BY <2>5, CutInv
  <2>6. CASE Receive
    BY <2>6, ReceiveInv
  <2>7. CASE ServerChange
    BY <2>7, ServerChangeInv
  <2>8. CASE ServerTakes
    BY <2>8, ServerTakesInv
  <2>9. CASE ServerPushes
    BY <2>9, ServerPushesInv
  <2> QED BY <1>2, <2>1, <2>2, <2>3, <2>4, <2>5, <2>6, <2>7, <2>8, <2>9 DEF Next
<1> QED BY <1>1, <1>2

\* What the invariant says of tokens and of views.
LEMMA InvSuffices == Inv => HonestToken /\ SyncedIsExact
<1>1. Inv => HonestToken
  BY DEF Inv, Exact, Kept, HonestToken
<1>2. Inv => SyncedIsExact
  <2> SUFFICES ASSUME Inv, NEW t \in Targets, Kept(t), synced[t] # 0 PROVE keys[t] = Matching(synced[t], t)
    BY DEF SyncedIsExact, Kept
  <2>1. synced[t] = listen[t] /\ synced[t] \in Versions
    BY DEF Inv, Exact, Types
  <2>2. listen[t] # No
    BY <2>1 DEF Versions, No
  <2> QED BY <2>1, <2>2 DEF Inv, Exact
<1> QED BY <1>1, <1>2

\* Which targets the code never loses track of: all where the server tells what was
\* removed, the document queries where it counts.
NeverLost ==
  /\ mode = "removals" => \A t \in Targets : doubt[t] # "lost"
  /\ mode = "filters" => \A t \in Documents : doubt[t] # "lost"

\* So the invariant says.
LEMMA InvNeverLost == Inv => NeverLost
BY DEF Inv, Noted, NeverLost

\* What a target is resumed from says exactly what is on disk, whatever was listened to,
\* asked, counted, rejected and broken before, but for a target that was listened to
\* again before a mismatch was repaired, or rejected for what an earlier listen had
\* asked (local_store.cc:280-298, 330-360).
THEOREM TokenIsHonest == Spec => []HonestToken
BY InitInv, NextInv, InvSuffices, PTL DEF Spec

\* And a view that was told it is current has exactly the documents that matched then,
\* with the same exception (remote_event.cc:127-186, 208-243; remote_store.cc:272-352).
THEOREM CurrentIsExact == Spec => []SyncedIsExact
BY InitInv, NextInv, InvSuffices, PTL DEF Spec

\* The exception is void where the server tells what was removed, and for a document
\* query where it counts: there both hold for any number of targets, documents,
\* listens, breaks and restarts, in any order (remote_event.cc:218-234).
THEOREM DocumentsAreNeverLost == Spec => []NeverLost
BY InitInv, NextInv, InvNeverLost, PTL DEF Spec
=============================================================================

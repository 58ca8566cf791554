--------------------------- MODULE SessionProofs ---------------------------
(***************************************************************************)
(* Proofs about Session, for every set of devices and accounts.            *)
(***************************************************************************)
EXTENDS Session, TLAPS

\* What the pages of one device imply about each other.
Control ==
  \A d \in Devices :
    /\ page[d] = "closed" => form[d] = "idle" /\ ~out[d]
    /\ mounted[d] => page[d] # "closed" /\ form[d] = "idle" /\ ~out[d]
    /\ check[d] # "off" \/ tapped[d] => mounted[d]
    /\ check[d] \in {"get", "home", "log"} => auth[d] # None
    /\ page[d] = "splash" => mounted[d]
    /\ page[d] = "home" => auth[d] # None /\ form[d] = "idle" /\ ~out[d]
    /\ form[d] \in {"id", "created"} => auth[d] # None /\ ~out[d]

\* Every place an identifier of d can be read from vouches for d's own claims.
Vouched ==
  \A d \in Devices, u \in Users :
    /\ doc[u] = d \/ cache[d][u] = d \/ queue[d][u] # <<>> => u \in claimed[d]
    /\ \A i \in 1..Len(queue[d][u]) : queue[d][u][i].id \in {d, NullId}
    /\ auth[d] = u /\ (check[d] = "home" \/ Admitted(d)) => u \in claimed[d]

\* What Deliver, Acknowledge and Reject take from a queue, and what they leave.
LEMMA OldestWrite ==
  ASSUME TypeOK, NEW d \in Devices, NEW u \in Users, queue[d][u] # <<>>
  PROVE  LET q == queue[d][u]
         IN  /\ Head(q) \in Write /\ Head(q) = q[1]
             /\ Tail(q) \in Seq(Write)
             /\ Len(q) \in Nat \ {0} /\ Len(Tail(q)) = Len(q) - 1
             /\ \A i \in 1..Len(Tail(q)) : Tail(q)[i] = q[i + 1]
<1>1. queue[d][u] \in Seq(Write)
  BY DEF TypeOK
<1> QED
  BY <1>1

\* Enqueue keeps the types of what it changes.
LEMMA EnqueueType ==
  ASSUME TypeOK, NEW d \in Devices, NEW u \in Users, NEW w \in Write,
         Enqueue(d, u, w)
  PROVE  /\ queue' \in [Devices -> [Users -> Seq(Write)]]
         /\ claimed' \in [Devices -> SUBSET Users]
<1> DEFINE qd == [queue[d] EXCEPT ![u] = Append(@, w)]
<1>1. queue[d] \in [Users -> Seq(Write)] /\ queue[d][u] \in Seq(Write)
  BY DEF TypeOK
<1>2. Append(queue[d][u], w) \in Seq(Write)
  BY <1>1
<1>3. qd \in [Users -> Seq(Write)]
  BY <1>1, <1>2
<1>4. queue' = [queue EXCEPT ![d] = qd]
  BY DEF Enqueue
<1>5. queue' \in [Devices -> [Users -> Seq(Write)]]
  <2> HIDE DEF qd
  <2> QED
    BY <1>3, <1>4 DEF TypeOK
<1>6. claimed' \in [Devices -> SUBSET Users]
  BY DEF Enqueue, TypeOK
<1> QED
  BY <1>5, <1>6

\* Every step keeps the types.
LEMMA TypeStep ==
  ASSUME TypeOK, Control, [Next]_vars
  PROVE  TypeOK'
<1> USE ConstantsAssumption DEF TypeOK, cloudVars, sdkVars, splashVars, Ids
<1>1. ASSUME NEW d \in Devices, Start(d)
      PROVE  TypeOK'
  BY <1>1 DEF Start
<1>2. ASSUME NEW d \in Devices, Kill(d)
      PROVE  TypeOK'
  BY <1>2 DEF Kill
<1>3. ASSUME NEW d \in Devices, AuthEvent(d)
      PROVE  TypeOK'
  BY <1>3 DEF AuthEvent
<1>4. ASSUME NEW d \in Devices, FetchFromServer(d)
      PROVE  TypeOK'
  <2>1. auth[d] \in Users
    BY <1>4 DEF FetchFromServer, Control
  <2>2. doc[auth[d]] \in Ids \cup {NoDoc}
    BY <2>1
  <2>3. cache' \in [Devices -> [Users -> Ids \cup {NoDoc, NotCached}]]
    BY <1>4, <2>1, <2>2 DEF FetchFromServer, CacheSnapshot
  <2> QED
    BY <1>4, <2>3 DEF FetchFromServer, CacheSnapshot, Compare
<1>5. ASSUME NEW d \in Devices, FetchFromCache(d)
      PROVE  TypeOK'
  BY <1>5 DEF FetchFromCache, Compare
<1>6. ASSUME NEW d \in Devices, TimerFires(d)
      PROVE  TypeOK'
  BY <1>6 DEF TimerFires
<1>7. ASSUME NEW d \in Devices, Tap(d)
      PROVE  TypeOK'
  BY <1>7 DEF Tap
<1>8. ASSUME NEW d \in Devices, TapEvent(d)
      PROVE  TypeOK'
  BY <1>8 DEF TapEvent
<1>9. ASSUME NEW d \in Devices, SplashDisposed(d)
      PROVE  TypeOK'
  BY <1>9 DEF SplashDisposed
<1>10. ASSUME NEW d \in Devices, FollowLink(d)
      PROVE  TypeOK'
  BY <1>10 DEF FollowLink, Idle
<1>11. ASSUME NEW d \in Devices, Submit(d)
      PROVE  TypeOK'
  BY <1>11 DEF Submit, Idle
<1>12. ASSUME NEW d \in Devices, AccountRefused(d)
      PROVE  TypeOK'
  BY <1>12 DEF AccountRefused
<1>13. ASSUME NEW d \in Devices, WriteProfile(d)
      PROVE  TypeOK'
  <2>1. auth[d] \in Users
    BY <1>13 DEF WriteProfile, Control
  <2>2. PICK id \in {d, NullId} : Enqueue(d, auth[d], ProfileWrite(id))
    BY <1>13 DEF WriteProfile
  <2>3. queue' \in [Devices -> [Users -> Seq(Write)]] /\ claimed' \in [Devices -> SUBSET Users]
    <3>1. ProfileWrite(id) \in Write
      BY DEF ProfileWrite, Write
    <3> QED
      BY <2>1, <2>2, <3>1, EnqueueType
  <2> QED
    BY <1>13, <2>3 DEF WriteProfile
<1>14. ASSUME NEW d \in Devices, SignInFails(d)
      PROVE  TypeOK'
  BY <1>14 DEF SignInFails
<1>15. ASSUME NEW d \in Devices, LoginUser(d)
      PROVE  TypeOK'
  <2>1. auth[d] \in Users
    BY <1>15 DEF LoginUser, Control
  <2>2. queue' \in [Devices -> [Users -> Seq(Write)]] /\ claimed' \in [Devices -> SUBSET Users]
    <3>1. LoginWrite(d) \in Write
      BY DEF LoginWrite, Write
    <3> QED
      BY <1>15, <2>1, <3>1, EnqueueType DEF LoginUser
  <2> QED
    BY <1>15, <2>2 DEF LoginUser
<1>16. ASSUME NEW d \in Devices, RefreshProfile(d)
      PROVE  TypeOK'
  <2>1. auth[d] \in Users
    BY <1>16 DEF RefreshProfile
  <2>2. doc[auth[d]] \in Ids \cup {NoDoc}
    BY <2>1
  <2>3. cache' \in [Devices -> [Users -> Ids \cup {NoDoc, NotCached}]]
    BY <1>16, <2>1, <2>2 DEF RefreshProfile, CacheSnapshot
  <2> QED
    BY <1>16, <2>3 DEF RefreshProfile, CacheSnapshot
<1>17. ASSUME NEW d \in Devices, SignOut(d)
      PROVE  TypeOK'
  BY <1>17 DEF SignOut
<1>18. ASSUME NEW d \in Devices, SignedOut(d)
      PROVE  TypeOK'
  BY <1>18 DEF SignedOut
<1>19. ASSUME NEW d \in Devices, LoseAnswer(d)
      PROVE  TypeOK'
  BY <1>19 DEF LoseAnswer
<1>20. ASSUME NEW d \in Devices, NEW u \in Users, AccountCreated(d, u)
      PROVE  TypeOK'
  BY <1>20 DEF AccountCreated, Authenticate
<1>21. ASSUME NEW d \in Devices, NEW u \in Users, SignedIn(d, u)
      PROVE  TypeOK'
  BY <1>21 DEF SignedIn, Authenticate
<1>22. ASSUME NEW d \in Devices, NEW u \in Users, Deliver(d, u)
      PROVE  TypeOK'
  <2>1. Head(queue[d][u]) \in Write
    BY <1>22, OldestWrite DEF Deliver, Sending
  <2> QED
    BY <1>22, <2>1 DEF Deliver, Write
<1>23. ASSUME NEW d \in Devices, NEW u \in Users, Acknowledge(d, u)
      PROVE  TypeOK'
  <2>1. Head(queue[d][u]) \in Write /\ Tail(queue[d][u]) \in Seq(Write)
    BY <1>23, OldestWrite DEF Acknowledge, Sending
  <2>2. AfterAck(cache[d][u], Head(queue[d][u])) \in Ids \cup {NoDoc, NotCached}
    BY <2>1 DEF AfterAck, Write
  <2>3. cache' \in [Devices -> [Users -> Ids \cup {NoDoc, NotCached}]]
    BY <1>23, <2>2 DEF Acknowledge
  <2>4. queue' \in [Devices -> [Users -> Seq(Write)]]
    BY <1>23, <2>1 DEF Acknowledge
  <2>5. form' \in [Devices -> {"idle", "signing", "id", "creating", "created",
                                "writing", "stuck"}]
        /\ page' \in [Devices -> {"closed", "splash", "register", "log", "home"}]
    BY <1>23 DEF Acknowledge, RegistrationAnswered
  <2> QED
    BY <1>23, <2>3, <2>4, <2>5 DEF Acknowledge
<1>24. ASSUME NEW d \in Devices, NEW u \in Users, Reject(d, u)
      PROVE  TypeOK'
  <2>1. Tail(queue[d][u]) \in Seq(Write)
    BY <1>24, OldestWrite DEF Reject, Sending
  <2>2. queue' \in [Devices -> [Users -> Seq(Write)]]
    BY <1>24, <2>1 DEF Reject
  <2>3. form' \in [Devices -> {"idle", "signing", "id", "creating", "created",
                                "writing", "stuck"}]
        /\ page' \in [Devices -> {"closed", "splash", "register", "log", "home"}]
    BY <1>24 DEF Reject, RegistrationAnswered
  <2> QED
    BY <1>24, <2>2, <2>3 DEF Reject
<1>25. CASE UNCHANGED vars
  BY <1>25 DEF vars
<1> QED
  BY <1>1, <1>2, <1>3, <1>4, <1>5, <1>6, <1>7, <1>8, <1>9, <1>10, <1>11, <1>12, <1>13, <1>14, <1>15, <1>16, <1>17, <1>18, <1>19, <1>20, <1>21, <1>22, <1>23, <1>24, <1>25
     DEF Next, Device, DeviceUser

\* Every step keeps Control.
LEMMA ControlStep ==
  ASSUME TypeOK, Control, [Next]_vars
  PROVE  Control'
<1> USE ConstantsAssumption DEF TypeOK, Control, cloudVars, sdkVars, splashVars
<1>1. ASSUME NEW d \in Devices, Start(d)
      PROVE  Control'
  BY <1>1 DEF Start
<1>2. ASSUME NEW d \in Devices, Kill(d)
      PROVE  Control'
  BY <1>2 DEF Kill
<1>3. ASSUME NEW d \in Devices, AuthEvent(d)
      PROVE  Control'
  BY <1>3 DEF AuthEvent
<1>4. ASSUME NEW d \in Devices, FetchFromServer(d)
      PROVE  Control'
  BY <1>4 DEF FetchFromServer, CacheSnapshot, Compare
<1>5. ASSUME NEW d \in Devices, FetchFromCache(d)
      PROVE  Control'
  BY <1>5 DEF FetchFromCache, Compare
<1>6. ASSUME NEW d \in Devices, TimerFires(d)
      PROVE  Control'
  BY <1>6 DEF TimerFires
<1>7. ASSUME NEW d \in Devices, Tap(d)
      PROVE  Control'
  BY <1>7 DEF Tap
<1>8. ASSUME NEW d \in Devices, TapEvent(d)
      PROVE  Control'
  BY <1>8 DEF TapEvent
<1>9. ASSUME NEW d \in Devices, SplashDisposed(d)
      PROVE  Control'
  BY <1>9 DEF SplashDisposed
<1>10. ASSUME NEW d \in Devices, FollowLink(d)
      PROVE  Control'
  BY <1>10 DEF FollowLink, Idle
<1>11. ASSUME NEW d \in Devices, Submit(d)
      PROVE  Control'
  BY <1>11 DEF Submit, Idle
<1>12. ASSUME NEW d \in Devices, AccountRefused(d)
      PROVE  Control'
  BY <1>12 DEF AccountRefused
<1>13. ASSUME NEW d \in Devices, WriteProfile(d)
      PROVE  Control'
  BY <1>13 DEF WriteProfile, Enqueue, ProfileWrite
<1>14. ASSUME NEW d \in Devices, SignInFails(d)
      PROVE  Control'
  BY <1>14 DEF SignInFails
<1>15. ASSUME NEW d \in Devices, LoginUser(d)
      PROVE  Control'
  BY <1>15 DEF LoginUser, Enqueue, LoginWrite
<1>16. ASSUME NEW d \in Devices, RefreshProfile(d)
      PROVE  Control'
  BY <1>16 DEF RefreshProfile, CacheSnapshot
<1>17. ASSUME NEW d \in Devices, SignOut(d)
      PROVE  Control'
  BY <1>17 DEF SignOut
<1>18. ASSUME NEW d \in Devices, SignedOut(d)
      PROVE  Control'
  BY <1>18 DEF SignedOut
<1>19. ASSUME NEW d \in Devices, LoseAnswer(d)
      PROVE  Control'
  BY <1>19 DEF LoseAnswer
<1>20. ASSUME NEW d \in Devices, NEW u \in Users, AccountCreated(d, u)
      PROVE  Control'
  BY <1>20 DEF AccountCreated, Authenticate
<1>21. ASSUME NEW d \in Devices, NEW u \in Users, SignedIn(d, u)
      PROVE  Control'
  BY <1>21 DEF SignedIn, Authenticate
<1>22. ASSUME NEW d \in Devices, NEW u \in Users, Deliver(d, u)
      PROVE  Control'
  BY <1>22 DEF Deliver, Applies, Sending
<1>23. ASSUME NEW d \in Devices, NEW u \in Users, Acknowledge(d, u)
      PROVE  Control'
  BY <1>23 DEF Acknowledge, RegistrationAnswered, Sending
<1>24. ASSUME NEW d \in Devices, NEW u \in Users, Reject(d, u)
      PROVE  Control'
  BY <1>24 DEF Reject, RegistrationAnswered, Sending
<1>25. CASE UNCHANGED vars
  BY <1>25 DEF vars
<1> QED
  BY <1>1, <1>2, <1>3, <1>4, <1>5, <1>6, <1>7, <1>8, <1>9, <1>10, <1>11, <1>12, <1>13, <1>14, <1>15, <1>16, <1>17, <1>18, <1>19, <1>20, <1>21, <1>22, <1>23, <1>24, <1>25
     DEF Next, Device, DeviceUser

\* Every step keeps Vouched.
LEMMA VouchedStep ==
  ASSUME TypeOK, Control, Vouched, [Next]_vars
  PROVE  Vouched'
<1> USE ConstantsAssumption DEF TypeOK, Control, Vouched, Admitted, cloudVars, sdkVars, splashVars
<1>1. ASSUME NEW d \in Devices, Start(d)
      PROVE  Vouched'
  BY <1>1 DEF Start
<1>2. ASSUME NEW d \in Devices, Kill(d)
      PROVE  Vouched'
  BY <1>2 DEF Kill
<1>3. ASSUME NEW d \in Devices, AuthEvent(d)
      PROVE  Vouched'
  BY <1>3 DEF AuthEvent
<1>4. ASSUME NEW d \in Devices, FetchFromServer(d)
      PROVE  Vouched'
  BY <1>4 DEF FetchFromServer, CacheSnapshot, Compare, DevIdFrom, View, Ids
<1>5. ASSUME NEW d \in Devices, FetchFromCache(d)
      PROVE  Vouched'
  BY <1>5 DEF FetchFromCache, Compare, DevIdFrom, View, Ids
<1>6. ASSUME NEW d \in Devices, TimerFires(d)
      PROVE  Vouched'
  BY <1>6 DEF TimerFires
<1>7. ASSUME NEW d \in Devices, Tap(d)
      PROVE  Vouched'
  BY <1>7 DEF Tap
<1>8. ASSUME NEW d \in Devices, TapEvent(d)
      PROVE  Vouched'
  BY <1>8 DEF TapEvent
<1>9. ASSUME NEW d \in Devices, SplashDisposed(d)
      PROVE  Vouched'
  BY <1>9 DEF SplashDisposed
<1>10. ASSUME NEW d \in Devices, FollowLink(d)
      PROVE  Vouched'
  BY <1>10 DEF FollowLink, Idle
<1>11. ASSUME NEW d \in Devices, Submit(d)
      PROVE  Vouched'
  BY <1>11 DEF Submit, Idle
<1>12. ASSUME NEW d \in Devices, AccountRefused(d)
      PROVE  Vouched'
  BY <1>12 DEF AccountRefused
<1>13. ASSUME NEW d \in Devices, WriteProfile(d)
      PROVE  Vouched'
  BY <1>13 DEF WriteProfile, Enqueue, ProfileWrite
<1>14. ASSUME NEW d \in Devices, SignInFails(d)
      PROVE  Vouched'
  BY <1>14 DEF SignInFails
<1>15. ASSUME NEW d \in Devices, LoginUser(d)
      PROVE  Vouched'
  BY <1>15 DEF LoginUser, Enqueue, LoginWrite
<1>16. ASSUME NEW d \in Devices, RefreshProfile(d)
      PROVE  Vouched'
  BY <1>16 DEF RefreshProfile, CacheSnapshot
<1>17. ASSUME NEW d \in Devices, SignOut(d)
      PROVE  Vouched'
  BY <1>17 DEF SignOut
<1>18. ASSUME NEW d \in Devices, SignedOut(d)
      PROVE  Vouched'
  BY <1>18 DEF SignedOut
<1>19. ASSUME NEW d \in Devices, LoseAnswer(d)
      PROVE  Vouched'
  BY <1>19 DEF LoseAnswer
<1>20. ASSUME NEW d \in Devices, NEW u \in Users, AccountCreated(d, u)
      PROVE  Vouched'
  BY <1>20 DEF AccountCreated, Authenticate
<1>21. ASSUME NEW d \in Devices, NEW u \in Users, SignedIn(d, u)
      PROVE  Vouched'
  BY <1>21 DEF SignedIn, Authenticate
<1>22. ASSUME NEW d \in Devices, NEW u \in Users, Deliver(d, u)
      PROVE  Vouched'
  <2>1. Head(queue[d][u]) = queue[d][u][1] /\ 1 \in 1..Len(queue[d][u])
    BY <1>22, OldestWrite DEF Deliver, Sending
  <2>2. Head(queue[d][u]).id \in {d, NullId} /\ u \in claimed[d]
    BY <1>22, <2>1 DEF Deliver, Sending
  <2>3. \A e \in Devices : doc'[u] = e => u \in claimed[e]
    BY <1>22, <2>2 DEF Deliver
  <2>4. \A v \in Users \ {u} : doc'[v] = doc[v]
    BY <1>22 DEF Deliver
  <2> QED
    BY <1>22, <2>3, <2>4 DEF Deliver
<1>23. ASSUME NEW d \in Devices, NEW u \in Users, Acknowledge(d, u)
      PROVE  Vouched'
  BY <1>23, OldestWrite DEF Acknowledge, RegistrationAnswered, Sending, AfterAck
<1>24. ASSUME NEW d \in Devices, NEW u \in Users, Reject(d, u)
      PROVE  Vouched'
  BY <1>24, OldestWrite DEF Reject, RegistrationAnswered, Sending
<1>25. CASE UNCHANGED vars
  BY <1>25 DEF vars
<1> QED
  BY <1>1, <1>2, <1>3, <1>4, <1>5, <1>6, <1>7, <1>8, <1>9, <1>10, <1>11, <1>12, <1>13, <1>14, <1>15, <1>16, <1>17, <1>18, <1>19, <1>20, <1>21, <1>22, <1>23, <1>24, <1>25
     DEF Next, Device, DeviceUser

-----------------------------------------------------------------------------
Inv == TypeOK /\ Control /\ Vouched

\* Inv holds at the start.
LEMMA InitInv == Init => Inv
  BY ConstantsAssumption
     DEF Init, Inv, TypeOK, Control, Vouched, Admitted, Ids, Write

\* Inv holds in every reachable state.
LEMMA SpecInv == Spec => []Inv
<1>1. Init => Inv
  BY InitInv
<1>2. Inv /\ [Next]_vars => Inv'
  BY TypeStep, ControlStep, VouchedStep DEF Inv
<1> QED
  BY <1>1, <1>2, PTL DEF Spec

\* The state of Session stays typed.
THEOREM TypeCorrect == Spec => []TypeOK
<1>1. Inv => TypeOK
  BY DEF Inv
<1> QED
  BY <1>1, SpecInv, PTL

\* The home page never shows without a user in the keychain.
THEOREM HomeIsSignedIn == Spec => []HomeSignedIn
<1>1. Inv => HomeSignedIn
  BY DEF Inv, Control, HomeSignedIn
<1> QED
  BY <1>1, SpecInv, PTL

\* The home page shows only accounts this device claimed, unless the splash
\* button opened it.
THEOREM HomeIsClaimed == Spec => []HomeClaimed
<1>1. Inv => HomeClaimed
  <2> SUFFICES ASSUME Inv, NEW d \in Devices, Admitted(d)
               PROVE  auth[d] \in claimed[d]
    BY DEF HomeClaimed
  <2>1. auth[d] \in Users
    BY DEF Inv, TypeOK, Control, Admitted
  <2> QED
    BY <2>1 DEF Inv, Vouched
<1> QED
  BY <1>1, SpecInv, PTL

-----------------------------------------------------------------------------
(***************************************************************************)
(* The users/{uid} documents: a profile is set by one registration, an     *)
(* account left without one stays without, a displaced device stays out,   *)
(* and the fields behave as DeviceBinding says.                            *)
(***************************************************************************)

\* A set of u's document waits on d.
SetPending(d, u) == \E i \in 1..Len(queue[d][u]) : queue[d][u][i].kind = "set"

\* Nothing but the registration of an account prepares its document: before
\* it and until it queues its set, the document is missing and no set waits.
Fresh ==
  /\ \A u \in Users : u \notin accounts => doc[u] = NoDoc
  /\ \A d, e \in Devices, u \in Users :
       auth[d] = u /\ form[d] = "created" => doc[u] = NoDoc /\ ~SetPending(e, u)

Registrations == SingleRegistration /\ Fresh

\* The steps that neither touch the documents and the writes to them nor begin
\* or end a registration.
Quiet(d) ==
  \/ Start(d) \/ Kill(d)
  \/ AuthEvent(d) \/ FetchFromServer(d) \/ FetchFromCache(d) \/ TimerFires(d)
  \/ Tap(d) \/ TapEvent(d) \/ SplashDisposed(d)
  \/ FollowLink(d) \/ Submit(d) \/ AccountRefused(d) \/ SignInFails(d)
  \/ RefreshProfile(d) \/ SignOut(d) \/ SignedOut(d) \/ LoseAnswer(d)
  \/ \E u \in Users : SignedIn(d, u)

\* Quiet steps create accounts at most, and leave a registration as it is or
\* end it with the process.
LEMMA QuietStep ==
  ASSUME TypeOK, Control, NEW d \in Devices, Quiet(d)
  PROVE  /\ UNCHANGED <<doc, queue>>
         /\ accounts \subseteq accounts'
         /\ \A e \in Devices :
              form'[e] = "created" => form[e] = "created" /\ auth'[e] = auth[e]
<1> USE DEF TypeOK, Control, cloudVars, sdkVars, splashVars
<1>1. CASE Start(d) \/ Kill(d)
  BY <1>1 DEF Start, Kill
<1>2. CASE AuthEvent(d) \/ TimerFires(d) \/ Tap(d) \/ TapEvent(d) \/ SplashDisposed(d)
  BY <1>2 DEF AuthEvent, TimerFires, Tap, TapEvent, SplashDisposed
<1>3. CASE FetchFromServer(d) \/ FetchFromCache(d) \/ RefreshProfile(d)
  BY <1>3 DEF FetchFromServer, FetchFromCache, RefreshProfile
<1>4. CASE FollowLink(d) \/ Submit(d) \/ AccountRefused(d) \/ SignInFails(d)
  BY <1>4 DEF FollowLink, Submit, AccountRefused, SignInFails
<1>5. CASE SignOut(d) \/ SignedOut(d) \/ LoseAnswer(d)
  BY <1>5 DEF SignOut, SignedOut, LoseAnswer
<1>6. ASSUME NEW u \in Users, SignedIn(d, u)
      PROVE  /\ UNCHANGED <<doc, queue, accounts>>
             /\ \A e \in Devices :
                  form'[e] = "created" => form[e] = "created" /\ auth'[e] = auth[e]
  BY <1>6 DEF SignedIn, Authenticate
<1> QED
  BY <1>1, <1>2, <1>3, <1>4, <1>5, <1>6 DEF Quiet

\* Every step keeps Registrations.
LEMMA RegistrationsStep ==
  ASSUME Inv, Registrations, [Next]_vars
  PROVE  Registrations'
<1> USE DEF Registrations, SingleRegistration, Registering, Fresh, SetPending
<1>1. TypeOK /\ Control
  BY DEF Inv
<1>2. ASSUME NEW d \in Devices, Quiet(d)
      PROVE  Registrations'
  BY <1>1, <1>2, QuietStep DEF TypeOK
<1>3. ASSUME NEW d \in Devices, NEW u \in Users, AccountCreated(d, u)
      PROVE  Registrations'
  BY <1>1, <1>3 DEF AccountCreated, Authenticate, TypeOK
<1>4. ASSUME NEW d \in Devices, WriteProfile(d)
      PROVE  Registrations'
  BY <1>1, <1>4 DEF WriteProfile, Enqueue, ProfileWrite, TypeOK, cloudVars
<1>5. ASSUME NEW d \in Devices, LoginUser(d)
      PROVE  Registrations'
  <2>1. \A e \in Devices, u \in Users : SetPending(e, u)' => SetPending(e, u)
    <3> SUFFICES ASSUME NEW e \in Devices, NEW u \in Users,
                        NEW i \in 1..Len(queue'[e][u]), queue'[e][u][i].kind = "set"
                 PROVE  SetPending(e, u)
      OBVIOUS
    <3> DEFINE w == LoginWrite(d)
    <3>1. w.kind = "update" /\ queue \in [Devices -> [Users -> Seq(Write)]]
          /\ queue' = [queue EXCEPT ![d][auth[d]] = Append(@, w)]
      BY <1>1, <1>5 DEF LoginUser, Enqueue, LoginWrite, TypeOK
    <3> HIDE DEF w
    <3>2. CASE e = d /\ u = auth[d]
      <4>1. queue'[e][u] = Append(queue[e][u], w) /\ queue[e][u] \in Seq(Write)
        BY <3>1, <3>2
      <4>2. i \in 1..Len(queue[e][u]) /\ queue[e][u][i].kind = "set"
        BY <3>1, <4>1
      <4> QED BY <4>2
    <3>3. CASE ~(e = d /\ u = auth[d])
      BY <3>1, <3>3
    <3> QED BY <3>2, <3>3
  <2>2. /\ UNCHANGED <<accounts, doc, auth>>
        /\ \A e \in Devices : form'[e] = "created" => form[e] = "created"
    BY <1>5 DEF LoginUser, TypeOK, cloudVars
  <2> QED
    BY <2>1, <2>2
<1>6. ASSUME NEW d \in Devices, NEW u \in Users, Deliver(d, u)
      PROVE  Registrations'
  BY <1>1, <1>6, OldestWrite DEF Deliver, Applies, Sending, TypeOK
<1>7. ASSUME NEW d \in Devices, NEW u \in Users, Acknowledge(d, u)
      PROVE  Registrations'
  BY <1>1, <1>7, OldestWrite
     DEF Acknowledge, RegistrationAnswered, Sending, TypeOK, cloudVars
<1>8. ASSUME NEW d \in Devices, NEW u \in Users, Reject(d, u)
      PROVE  Registrations'
  BY <1>1, <1>8, OldestWrite
     DEF Reject, RegistrationAnswered, Sending, TypeOK, cloudVars
<1>9. CASE UNCHANGED vars
  BY <1>9 DEF vars
<1> QED
  BY <1>2, <1>3, <1>4, <1>5, <1>6, <1>7, <1>8, <1>9
     DEF Next, Device, DeviceUser, Quiet

\* Registrations holds in every reachable state.
LEMMA SpecRegistrations == Spec => [](Inv /\ Registrations)
<1>1. Init => Registrations
  BY DEF Init, Registrations, SingleRegistration, Registering, Fresh, SetPending
<1> QED
  BY <1>1, SpecInv, RegistrationsStep, PTL DEF Spec

\* The set of a profile, resent or not, never meets the set of another
\* registration of the same account, on any number of devices.
THEOREM ProfileSetOnce == Spec => []SingleRegistration
<1>1. Registrations => SingleRegistration
  BY DEF Registrations
<1> QED
  BY <1>1, SpecRegistrations, PTL

\* An account whose registration stopped halfway never gets a profile.
THEOREM OrphansStay == Spec => OrphanStays
<1>1. ASSUME Inv, Registrations, [Next]_vars, NEW u \in Users, Orphan(u)
      PROVE  Orphan(u)'
  <2> USE <1>1 DEF Orphan, Registering
  <2>1. TypeOK /\ Control
    BY DEF Inv
  <2>2. ASSUME NEW d \in Devices, Quiet(d)
        PROVE  Orphan(u)'
    BY <2>1, <2>2, QuietStep DEF TypeOK
  <2>3. ASSUME NEW d \in Devices, NEW v \in Users, AccountCreated(d, v)
        PROVE  Orphan(u)'
    BY <2>1, <2>3 DEF AccountCreated, Authenticate, TypeOK
  <2>4. ASSUME NEW d \in Devices, WriteProfile(d)
        PROVE  Orphan(u)'
    BY <2>1, <2>4 DEF WriteProfile, Enqueue, ProfileWrite, TypeOK, cloudVars
  <2>5. ASSUME NEW d \in Devices, LoginUser(d)
        PROVE  Orphan(u)'
    BY <2>1, <2>5 DEF LoginUser, Enqueue, LoginWrite, TypeOK, cloudVars
  <2>6. ASSUME NEW d \in Devices, NEW v \in Users, Deliver(d, v)
        PROVE  Orphan(u)'
    BY <2>1, <2>6, OldestWrite DEF Deliver, Applies, Sending, TypeOK
  <2>7. ASSUME NEW d \in Devices, NEW v \in Users, Acknowledge(d, v)
        PROVE  Orphan(u)'
    BY <2>1, <2>7, OldestWrite
       DEF Acknowledge, RegistrationAnswered, Sending, TypeOK, cloudVars
  <2>8. ASSUME NEW d \in Devices, NEW v \in Users, Reject(d, v)
        PROVE  Orphan(u)'
    BY <2>1, <2>8, OldestWrite
       DEF Reject, RegistrationAnswered, Sending, TypeOK, cloudVars
  <2>9. CASE UNCHANGED vars
    BY <2>9 DEF vars
  <2> QED
    BY <2>2, <2>3, <2>4, <2>5, <2>6, <2>7, <2>8, <2>9
       DEF Next, Device, DeviceUser, Quiet
<1>2. Inv /\ Registrations /\ [Next]_vars
      => [\A u \in Users : Orphan(u) => Orphan(u)']_vars
  BY <1>1
<1> QED
  BY <1>2, SpecRegistrations, PTL DEF Spec, OrphanStays
-----------------------------------------------------------------------------
\* What a step may do to a displaced device.
StaysOut(d, u) ==
  /\ Displaced(d, u)' \/ (auth'[d] = u /\ form'[d] \in {"id", "created"})
  /\ auth[d] = u /\ Admitted(d)' => Admitted(d)

\* No step lets a displaced device back in, short of a login of its own.
LEMMA DisplacedStep ==
  ASSUME Inv, [Next]_vars, NEW d \in Devices, NEW u \in Users, Displaced(d, u)
  PROVE  StaysOut(d, u)
<1>1. TypeOK /\ Control /\ Vouched
  BY DEF Inv
<1> USE <1>1, ConstantsAssumption
    DEF TypeOK, Control, Displaced, Admitted, StaysOut, cloudVars, sdkVars, splashVars
<1>2. ASSUME NEW e \in Devices, Start(e) \/ Kill(e) \/ AuthEvent(e)
      PROVE  StaysOut(d, u)
  BY <1>2 DEF Start, Kill, AuthEvent
<1>3. ASSUME NEW e \in Devices, FetchFromServer(e) \/ FetchFromCache(e) \/ RefreshProfile(e)
      PROVE  StaysOut(d, u)
  <2>1. UNCHANGED <<doc, auth, queue, page, form, mounted, unchecked>>
    BY <1>3 DEF FetchFromServer, FetchFromCache, RefreshProfile
  <2>2. cache'[d][u] # d
    <3>1. CacheSnapshot(e) \/ UNCHANGED cache
      BY <1>3 DEF FetchFromServer, FetchFromCache, RefreshProfile
    <3>2. CASE CacheSnapshot(e)
      <4>1. cache'[d][u] \in {cache[d][u], doc[u]}
        BY ONLY <3>2, d \in Devices, u \in Users, TypeOK DEF TypeOK, CacheSnapshot
      <4> QED
        BY <4>1
    <3> QED
      BY <3>1, <3>2
  <2>3. ~(auth[d] = u /\ mounted[d] /\ check'[d] = "home")
    <3>1. auth[d] = u => DevIdFrom(d, doc[u]) # d /\ DevIdFrom(d, cache[d][u]) # d
      BY DEF DevIdFrom, View
    <3> QED
      BY <1>3, <3>1 DEF FetchFromServer, FetchFromCache, RefreshProfile, Compare
  <2> QED
    BY <2>1, <2>2, <2>3
<1>4. ASSUME NEW e \in Devices, TimerFires(e) \/ Tap(e) \/ TapEvent(e) \/ SplashDisposed(e)
      PROVE  StaysOut(d, u)
  BY <1>4 DEF TimerFires, Tap, TapEvent, SplashDisposed
<1>5. ASSUME NEW e \in Devices, FollowLink(e) \/ Submit(e) \/ AccountRefused(e) \/ SignInFails(e)
      PROVE  StaysOut(d, u)
  BY <1>5 DEF FollowLink, Submit, AccountRefused, SignInFails
<1>6. ASSUME NEW e \in Devices, SignOut(e) \/ SignedOut(e) \/ LoseAnswer(e)
      PROVE  StaysOut(d, u)
  BY <1>6 DEF SignOut, SignedOut, LoseAnswer
<1>7. ASSUME NEW e \in Devices, WriteProfile(e)
      PROVE  StaysOut(d, u)
  BY <1>7 DEF WriteProfile, Enqueue
<1>8. ASSUME NEW e \in Devices, LoginUser(e)
      PROVE  StaysOut(d, u)
  BY <1>8 DEF LoginUser, Enqueue
<1>9. ASSUME NEW e \in Devices, NEW v \in Users, AccountCreated(e, v) \/ SignedIn(e, v)
      PROVE  StaysOut(d, u)
  BY <1>9 DEF AccountCreated, SignedIn, Authenticate
<1>10. ASSUME NEW e \in Devices, NEW v \in Users, Deliver(e, v)
      PROVE  StaysOut(d, u)
  <2>1. Head(queue[e][v]) = queue[e][v][1] /\ 1 \in 1..Len(queue[e][v])
    BY <1>10, OldestWrite DEF Deliver, Sending
  <2>2. Head(queue[e][v]).id \in {e, NullId}
    BY ONLY <1>1, <2>1, d \in Devices, e \in Devices, v \in Users DEF Vouched
  <2>3. doc'[u] # d
    BY <1>10, <2>2 DEF Deliver, Sending
  <2> QED
    BY <1>10, <2>3 DEF Deliver
<1>11. ASSUME NEW e \in Devices, NEW v \in Users, Acknowledge(e, v)
      PROVE  StaysOut(d, u)
  BY <1>11 DEF Acknowledge, Sending, RegistrationAnswered
<1>12. ASSUME NEW e \in Devices, NEW v \in Users, Reject(e, v)
      PROVE  StaysOut(d, u)
  BY <1>12 DEF Reject, Sending, RegistrationAnswered
<1>13. CASE UNCHANGED vars
  BY <1>13 DEF vars
<1> QED
  BY <1>2, <1>3, <1>4, <1>5, <1>6, <1>7, <1>8, <1>9, <1>10, <1>11, <1>12, <1>13 DEF Next, Device, DeviceUser

\* However reads, answers, resent writes and restarts fall, the splash check
\* does not let a displaced device in before its user logs in on it again.
THEOREM DisplacedIsOut == Spec => DisplacedStaysOut
<1>1. Inv /\ [Next]_vars
      => [\A d \in Devices, u \in Users : Displaced(d, u) => StaysOut(d, u)]_vars
  BY DisplacedStep
<1> QED
  BY <1>1, SpecInv, PTL DEF Spec, DisplacedStaysOut, StaysOut

-----------------------------------------------------------------------------
(***************************************************************************)
(* Session implements DeviceBinding, for every set of devices and accounts.*)
(***************************************************************************)

\* w waits for u on some device.
Waits(w, u) == \E d \in Devices : \E i \in 1..Len(queue[d][u]) : w = queue[d][u][i]

\* What Unanswered is, entry by entry.
LEMMA UnansweredIs ==
  ASSUME queue \in [Devices -> [Users -> Seq(Write)]], NEW u \in Users, NEW w
  PROVE  w \in Unanswered(u) <=> Waits(w, u)
<1>1. \A d \in Devices : DOMAIN queue[d][u] = 1..Len(queue[d][u])
  OBVIOUS
<1> QED
  BY <1>1 DEF Unanswered, Range, Waits

\* The same after a step.
LEMMA UnansweredIsNext ==
  ASSUME queue' \in [Devices -> [Users -> Seq(Write)]], NEW u \in Users, NEW w
  PROVE  w \in Unanswered(u)' <=> Waits(w, u)'
<1>1. \A d \in Devices : DOMAIN queue'[d][u] = 1..Len(queue'[d][u])
  OBVIOUS
<1> QED
  BY <1>1 DEF Unanswered, Range, Waits

\* A login or a registration opens one claim.
LEMMA EnqueueOpens ==
  ASSUME TypeOK, NEW d \in Devices, NEW u \in Users, NEW w \in Write, Enqueue(d, u, w)
  PROVE  \A v \in Users :
           Unanswered(v)' = IF v = u THEN Unanswered(u) \cup {w} ELSE Unanswered(v)
<1>1. /\ queue \in [Devices -> [Users -> Seq(Write)]]
      /\ queue' \in [Devices -> [Users -> Seq(Write)]]
  BY EnqueueType DEF TypeOK
<1>2. /\ queue'[d][u] = Append(queue[d][u], w)
      /\ \A e \in Devices, v \in Users : e # d \/ v # u => queue'[e][v] = queue[e][v]
  BY <1>1 DEF Enqueue
<1>3. /\ Len(queue[d][u]) \in Nat /\ Len(queue'[d][u]) = Len(queue[d][u]) + 1
      /\ queue'[d][u][Len(queue[d][u]) + 1] = w
      /\ \A i \in 1..Len(queue[d][u]) : queue'[d][u][i] = queue[d][u][i]
  <2>1. queue[d][u] \in Seq(Write)
    BY <1>1
  <2> QED
    BY <1>2, <2>1
<1>4. ASSUME NEW v \in Users, NEW x
      PROVE  Waits(x, v)' <=> Waits(x, v) \/ (v = u /\ x = w)
  <2>1. CASE v # u
    BY <1>2, <2>1 DEF Waits
  <2>2. CASE v = u
    <3>1. Waits(x, u) => Waits(x, u)'
      BY <1>2, <1>3 DEF Waits
    <3>2. Waits(w, u)'
      <4>1. Len(queue[d][u]) + 1 \in 1..Len(queue'[d][u])
        BY <1>3
      <4> QED
        BY <1>3, <4>1 DEF Waits
    <3>3. ASSUME NEW e \in Devices, NEW i \in 1..Len(queue'[e][u]), x = queue'[e][u][i]
          PROVE  Waits(x, u) \/ x = w
      <4>1. CASE e # d
        BY <1>2, <3>3, <4>1 DEF Waits
      <4>2. CASE e = d
        <5>1. i \in 1..Len(queue[d][u]) \/ i = Len(queue[d][u]) + 1
          BY <1>3, <4>2
        <5> QED
          BY <1>3, <3>3, <4>2, <5>1 DEF Waits
      <4> QED
        BY <4>1, <4>2
    <3> QED
      BY <2>2, <3>1, <3>2, <3>3 DEF Waits
  <2> QED
    BY <2>1, <2>2
<1> QED
  BY <1>1, <1>4, UnansweredIs, UnansweredIsNext

\* An answer closes one claim, unless an equal one still waits.
LEMMA TailCloses ==
  ASSUME TypeOK, NEW d \in Devices, NEW u \in Users, queue[d][u] # <<>>,
         queue' \in [Devices -> [Users -> Seq(Write)]],
         queue' = [queue EXCEPT ![d][u] = Tail(@)]
  PROVE  /\ Head(queue[d][u]) \in Unanswered(u)
         /\ \A v \in Users \ {u} : Unanswered(v)' = Unanswered(v)
         /\ \/ Unanswered(u)' = Unanswered(u)
            \/ Unanswered(u)' = Unanswered(u) \ {Head(queue[d][u])}
<1> DEFINE h == Head(queue[d][u])
<1>1. queue \in [Devices -> [Users -> Seq(Write)]]
  BY DEF TypeOK
<1>2. /\ queue'[d][u] = Tail(queue[d][u])
      /\ \A e \in Devices, v \in Users : e # d \/ v # u => queue'[e][v] = queue[e][v]
  BY <1>1
<1>3. /\ h = queue[d][u][1]
      /\ Len(queue[d][u]) \in Nat \ {0} /\ Len(queue'[d][u]) = Len(queue[d][u]) - 1
      /\ \A i \in 1..Len(queue'[d][u]) : queue'[d][u][i] = queue[d][u][i + 1]
  <2>1. queue[d][u] \in Seq(Write) /\ queue[d][u] # <<>>
    BY <1>1
  <2> QED
    BY <1>2, <2>1
<1> HIDE DEF h
<1>4. ASSUME NEW v \in Users \ {u}, NEW x
      PROVE  Waits(x, v)' <=> Waits(x, v)
  BY <1>2 DEF Waits
<1>5. ASSUME NEW x
      PROVE  Waits(x, u) <=> Waits(x, u)' \/ x = h
  <2>1. Waits(h, u)
    <3>1. 1 \in 1..Len(queue[d][u])
      BY <1>3
    <3> QED
      BY <1>3, <3>1 DEF Waits
  <2>2. ASSUME NEW e \in Devices, NEW i \in 1..Len(queue'[e][u]), x = queue'[e][u][i]
        PROVE  Waits(x, u)
    <3>1. CASE e # d
      BY <1>2, <2>2, <3>1 DEF Waits
    <3>2. CASE e = d
      <4>1. i + 1 \in 1..Len(queue[d][u]) /\ x = queue[d][u][i + 1]
        BY <1>3, <2>2, <3>2
      <4> QED
        BY <4>1 DEF Waits
    <3> QED
      BY <3>1, <3>2
  <2>3. ASSUME NEW e \in Devices, NEW i \in 1..Len(queue[e][u]), x = queue[e][u][i]
        PROVE  Waits(x, u)' \/ x = h
    <3>1. CASE e # d
      BY <1>2, <2>3, <3>1 DEF Waits
    <3>2. CASE e = d /\ i # 1
      <4>1. i - 1 \in 1..Len(queue'[d][u]) /\ queue'[d][u][i - 1] = queue[d][u][(i - 1) + 1]
        BY <1>3, <3>2
      <4>2. x = queue'[d][u][i - 1]
        BY <2>3, <3>2, <4>1
      <4> QED
        BY <4>1, <4>2 DEF Waits
    <3>3. CASE e = d /\ i = 1
      BY <1>3, <2>3, <3>3
    <3> QED
      BY <3>1, <3>2, <3>3
  <2> QED
    BY <2>1, <2>2, <2>3 DEF Waits
<1>6. \A v \in Users \ {u} : Unanswered(v)' = Unanswered(v)
  BY <1>1, <1>4, UnansweredIs, UnansweredIsNext
<1>7. \A x : x \in Unanswered(u) <=> x \in Unanswered(u)' \/ x = h
  BY <1>1, <1>5, UnansweredIs, UnansweredIsNext
<1> QED
  BY <1>6, <1>7 DEF h

-----------------------------------------------------------------------------
Claims == [u \in Users |-> Unanswered(u)]

\* The initial states are initial states of DeviceBinding.
LEMMA BindingInit ==
  ASSUME Init
  PROVE  Binding!Init
<1>1. TypeOK
  BY InitInv DEF Inv
<1>2. ASSUME NEW u \in Users
      PROVE  Unanswered(u) = {}
  <2>1. \A w : ~Waits(w, u)
    BY DEF Init, Waits
  <2> QED
    BY <1>1, <2>1, UnansweredIs DEF TypeOK
<1> QED
  BY <1>2 DEF Init, Binding!Init

\* A login or registration opens a claim; a registration finds neither a
\* document nor another registration's claim.
LEMMA EnqueueIsOpen ==
  ASSUME TypeOK, NEW d \in Devices, NEW u \in Users, NEW w \in Write,
         Enqueue(d, u, w), UNCHANGED doc,
         w.kind = "set" => doc[u] = NoDoc /\ \A e \in Devices : ~SetPending(e, u)
  PROVE  Binding!Open(u, w)
<1>1. Claims' = [Claims EXCEPT ![u] = @ \cup {w}]
  BY EnqueueOpens DEF Claims
<1>2. w.kind = "set" => \A o \in Unanswered(u) : o.kind # "set"
  <2> SUFFICES ASSUME w.kind = "set", NEW o \in Unanswered(u)
               PROVE  o.kind # "set"
    OBVIOUS
  <2>1. queue \in [Devices -> [Users -> Seq(Write)]]
    BY DEF TypeOK
  <2>2. Waits(o, u)
    BY <2>1, UnansweredIs
  <2> QED
    BY <2>2 DEF SetPending, Waits
<1> QED
  BY <1>1, <1>2 DEF Binding!Open, Claims

\* An answer, good or bad, closes a claim or is one of several equal ones.
LEMMA TailIsClose ==
  ASSUME TypeOK, NEW d \in Devices, NEW u \in Users, queue[d][u] # <<>>,
         queue' \in [Devices -> [Users -> Seq(Write)]],
         queue' = [queue EXCEPT ![d][u] = Tail(@)], UNCHANGED doc
  PROVE  Binding!Close(u, Head(queue[d][u])) \/ UNCHANGED Binding!vars
<1>1. CASE Unanswered(u)' = Unanswered(u)
  <2>1. \A v \in Users : Unanswered(v)' = Unanswered(v)
    BY <1>1, TailCloses
  <2> QED
    BY <2>1 DEF Binding!vars
<1>2. CASE Unanswered(u)' = Unanswered(u) \ {Head(queue[d][u])}
  <2>1. Claims' = [Claims EXCEPT ![u] = @ \ {Head(queue[d][u])}]
    BY <1>2, TailCloses DEF Claims
  <2>2. Head(queue[d][u]) \in Unanswered(u)
    BY TailCloses
  <2> QED
    BY <2>1, <2>2 DEF Binding!Close, Claims
<1> QED
  BY <1>1, <1>2, TailCloses

\* Every step is a step of DeviceBinding or leaves it alone.
LEMMA BindingStep ==
  ASSUME Inv, Inv', Registrations, [Next]_vars
  PROVE  [Binding!Next]_(Binding!vars)
<1> USE DEF Binding!Claim, Write
<1>1. TypeOK /\ Control /\ TypeOK'
  BY DEF Inv
<1>2. queue' \in [Devices -> [Users -> Seq(Write)]]
  BY <1>1 DEF TypeOK
<1>3. ASSUME UNCHANGED <<doc, queue>>
      PROVE  UNCHANGED Binding!vars
  BY <1>3 DEF Binding!vars, Unanswered
<1>4. ASSUME NEW d \in Devices, Quiet(d)
      PROVE  UNCHANGED Binding!vars
  BY <1>1, <1>3, <1>4, QuietStep
<1>5. ASSUME NEW d \in Devices, NEW u \in Users, AccountCreated(d, u)
      PROVE  UNCHANGED Binding!vars
  BY <1>3, <1>5 DEF AccountCreated
<1>6. ASSUME NEW d \in Devices, WriteProfile(d)
      PROVE  Binding!Next
  <2>1. auth[d] \in Users
    BY <1>1, <1>6 DEF WriteProfile, TypeOK, Control
  <2>2. PICK id \in {d, NullId} : Enqueue(d, auth[d], ProfileWrite(id))
    BY <1>6 DEF WriteProfile
  <2>3. ProfileWrite(id) \in Write
    BY DEF ProfileWrite, Ids
  <2>4. doc[auth[d]] = NoDoc /\ \A e \in Devices : ~SetPending(e, auth[d])
    BY <1>6, <2>1 DEF WriteProfile, Registrations, Fresh
  <2>5. UNCHANGED doc
    BY <1>6 DEF WriteProfile, cloudVars
  <2>6. Binding!Open(auth[d], ProfileWrite(id))
    BY <1>1, <2>1, <2>2, <2>3, <2>4, <2>5, EnqueueIsOpen
  <2> QED
    BY <2>1, <2>3, <2>6 DEF Binding!Next
<1>7. ASSUME NEW d \in Devices, LoginUser(d)
      PROVE  Binding!Next
  <2>1. auth[d] \in Users
    BY <1>1, <1>7 DEF LoginUser, TypeOK, Control
  <2>2. LoginWrite(d) \in Write /\ LoginWrite(d).kind # "set"
    BY DEF LoginWrite, Ids
  <2>3. Enqueue(d, auth[d], LoginWrite(d)) /\ UNCHANGED doc
    BY <1>7 DEF LoginUser, cloudVars
  <2>4. Binding!Open(auth[d], LoginWrite(d))
    BY <1>1, <2>1, <2>2, <2>3, EnqueueIsOpen
  <2> QED
    BY <2>1, <2>2, <2>4 DEF Binding!Next
<1>8. ASSUME NEW d \in Devices, NEW u \in Users, Deliver(d, u)
      PROVE  Binding!Next
  <2> DEFINE w == Head(queue[d][u])
  <2>1. queue[d][u] # <<>> /\ Applies(u, w) /\ doc' = [doc EXCEPT ![u] = w.id]
    BY <1>8 DEF Deliver, Sending
  <2>2. w \in Write /\ Waits(w, u)
    <3>1. w \in Write /\ w = queue[d][u][1] /\ 1 \in 1..Len(queue[d][u])
      BY <1>1, <2>1, OldestWrite
    <3> QED
      BY <3>1 DEF Waits
  <2>3. w \in Unanswered(u)
    BY <1>1, <2>2, UnansweredIs DEF TypeOK
  <2>4. \A v \in Users : Unanswered(v)' = Unanswered(v)
    BY <1>8 DEF Deliver, Unanswered
  <2>5. Binding!Settle(u, w)
    <3> HIDE DEF w
    <3> QED
      BY <2>1, <2>3, <2>4 DEF Binding!Settle, Applies
  <2> QED
    BY <2>2, <2>5 DEF Binding!Next
<1>9. ASSUME NEW d \in Devices, NEW u \in Users, Acknowledge(d, u) \/ Reject(d, u)
      PROVE  Binding!Next \/ UNCHANGED Binding!vars
  <2>1. /\ queue[d][u] # <<>> /\ UNCHANGED doc
        /\ queue' = [queue EXCEPT ![d][u] = Tail(@)]
    BY <1>9 DEF Acknowledge, Reject, Sending, cloudVars
  <2>2. Head(queue[d][u]) \in Write
    BY <1>1, <2>1, OldestWrite
  <2> QED
    BY <1>1, <1>2, <2>1, <2>2, TailIsClose DEF Binding!Next
<1>10. CASE UNCHANGED vars
  BY <1>3, <1>10 DEF vars
<1> QED
  BY <1>4, <1>5, <1>6, <1>7, <1>8, <1>9, <1>10
     DEF Next, Device, DeviceUser, Quiet

\* Registrations, logins, answers, resends and restarts on any devices amount
\* to claims of DeviceBinding being opened, settled and closed.
THEOREM Implements == Spec => BindingSpec
<1>1. Init => Binding!Init
  BY BindingInit
<1>2. (Inv /\ Registrations) /\ (Inv /\ Registrations)' /\ [Next]_vars
      => [Binding!Next]_(Binding!vars)
  BY BindingStep
<1> QED
  BY <1>1, <1>2, SpecRegistrations, PTL DEF Spec, BindingSpec, Binding!Spec
=============================================================================

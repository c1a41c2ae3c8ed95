------------------------ MODULE CheckoutAttemptsProofs ------------------------
(***************************************************************************)
(* One session per Idempotency-Key, the right one, opened by one request   *)
(* at a time: for any number of requests, orders and sessions.             *)
(***************************************************************************)
EXTENDS CheckoutAttempts, TLAPS

USE DEF rowVars, requestVars, stripeVars

Writing == {"stripe", "saveCreated", "saveFailed"}

(* Once the row is there its order stands, and all that is known of the key *)
(* is about that order: the requests that write, the sessions opened, and   *)
(* those that a row, an entity, Stripe or a client remembers.               *)
Remembered(s) == s # None => sessionOrder[s] # None

OrderInv ==
    /\ status = "absent" => session = None /\ keySession = None
    /\ \A s \in Sessions : sessionOrder[s] # None => sessionOrder[s] = order
    /\ Remembered(session) /\ Remembered(keySession)
    /\ \A r \in Requests :
          /\ pc[r] \in Writing \cup {"reuse"} => status # "absent" /\ wants[r] = order
          /\ Remembered(copy[r]) /\ Remembered(answer[r])
          /\ answer[r] # None => wants[r] = order

(* While Stripe remembers the key, nobody knows another session than it does. *)
KeyInv ==
    ~forgotten =>
        /\ session \in {None, keySession}
        /\ \A r \in Requests : {copy[r], answer[r]} \subseteq {None, keySession}

(* A row that was never old was never taken over: its creator inserted it.    *)
CreatorInv ==
    ~aged =>
        /\ status # "absent" => recent
        /\ \A r \in Requests : pc[r] # "reuse"
        /\ status = "absent" => \A r \in Requests : pc[r] \notin Writing
        /\ OneCreator

AttemptInv == TypeOK /\ OrderInv

-----------------------------------------------------------------------------
(* None is neither an order nor a session.                                   *)
LEMMA NoneFacts == None \notin Orders /\ None \notin Sessions
BY NoneAssumption DEF Sessions

(* A request writes values of the types it read.                             *)
LEMMA TypeStep == TypeOK /\ OrderInv /\ [Next]_vars => TypeOK'
<1> SUFFICES ASSUME TypeOK, OrderInv, [Next]_vars
             PROVE  TypeOK'
    OBVIOUS
<1> USE NoneFacts DEF TypeOK
<1>1. ASSUME NEW r \in Requests, NEW o \in Orders, Begin(r, o)
      PROVE  TypeOK'
  <2>1. fresh' \in [Requests -> BOOLEAN]
    BY <1>1, Zenon DEF Begin
  <2>2. QED BY <1>1, <2>1, BoundAssumption DEF Begin, Goto
<1>2. ASSUME NEW r \in Requests, Insert(r)
      PROVE  TypeOK'
  <2>1. CASE status = "absent"
    BY <1>2, <2>1 DEF Insert, Goto
  <2>2. CASE status # "absent"
    BY <1>2, <2>2 DEF Insert, Goto
  <2>3. QED BY <2>1, <2>2
<1>3. ASSUME NEW r \in Requests, Reuse(r)
      PROVE  TypeOK'
  BY <1>3 DEF Reuse, Save, Written, Goto, OrderInv
<1>4. ASSUME NEW r \in Requests, Create(r)
      PROVE  TypeOK'
  BY <1>4 DEF Create, OpenSession, Goto
<1>5. ASSUME NEW r \in Requests, CreateFails(r)
      PROVE  TypeOK'
  BY <1>5 DEF CreateFails, OpenSession, Goto
<1>6. ASSUME NEW r \in Requests, SaveCreated(r)
      PROVE  TypeOK'
  BY <1>6 DEF SaveCreated, Save, Written, Goto, OrderInv, Writing
<1>7. ASSUME NEW r \in Requests, SaveFailed(r)
      PROVE  TypeOK'
  BY <1>7 DEF SaveFailed, Save, Written, Goto, OrderInv, Writing
<1>8. ASSUME NEW r \in Requests, SaveCreatedFails(r) \/ Crash(r)
      PROVE  TypeOK'
  BY <1>8 DEF SaveCreatedFails, Crash, Goto
<1>9. CASE Age \/ SessionEnds \/ ForgetKey
  BY <1>9 DEF Age, SessionEnds, ForgetKey, OrderInv
<1>10. CASE UNCHANGED vars
  BY <1>10 DEF vars
<1>11. QED
  BY <1>1, <1>2, <1>3, <1>4, <1>5, <1>6, <1>7, <1>8, <1>9, <1>10 DEF Next

(* Opening a session leaves those that were open as they were.               *)
LEMMA Opened ==
    ASSUME TypeOK, OrderInv, NEW r \in Requests, pc[r] \in Writing, OpenSession(r)
    PROVE  /\ \A s \in Sessions : /\ sessionOrder[s] # None
                                     => sessionOrder'[s] = sessionOrder[s]
                                  /\ sessionOrder'[s] # None
                                     => sessionOrder'[s] = order
           /\ keySession' # None /\ sessionOrder'[keySession'] # None
BY NoneFacts DEF TypeOK, OrderInv, OpenSession, Remembered, Writing

(* A row keeps its order, and what a request has read is true of its row.    *)
LEMMA OrderStep == TypeOK /\ TypeOK' /\ OrderInv /\ [Next]_vars => OrderInv'
<1> SUFFICES ASSUME TypeOK, TypeOK', OrderInv, [Next]_vars
             PROVE  OrderInv'
    OBVIOUS
<1> USE NoneFacts DEF TypeOK, OrderInv, Remembered, Writing
<1>1. ASSUME NEW r \in Requests, NEW o \in Orders, Begin(r, o)
      PROVE  OrderInv'
  BY <1>1 DEF Begin, Goto, Matching, HasSession
<1>2. ASSUME NEW r \in Requests, Insert(r)
      PROVE  OrderInv'
  BY <1>2 DEF Insert, Goto, Matching, HasSession
<1>3. ASSUME NEW r \in Requests, Reuse(r)
      PROVE  OrderInv'
  BY <1>3 DEF Reuse, Save, Written, Goto
<1>4. ASSUME NEW r \in Requests, Create(r)
      PROVE  OrderInv'
  BY <1>4, Opened DEF Create, Goto
<1>5. ASSUME NEW r \in Requests, CreateFails(r)
      PROVE  OrderInv'
  <2>1. CASE OpenSession(r)
    BY <1>5, <2>1, Opened DEF CreateFails, Goto
  <2>2. CASE UNCHANGED stripeVars
    BY <1>5, <2>2 DEF CreateFails, Goto
  <2>3. QED BY <1>5, <2>1, <2>2 DEF CreateFails
<1>6. ASSUME NEW r \in Requests, SaveCreated(r)
      PROVE  OrderInv'
  BY <1>6 DEF SaveCreated, Save, Written, Goto
<1>7. ASSUME NEW r \in Requests, SaveFailed(r)
      PROVE  OrderInv'
  BY <1>7 DEF SaveFailed, Save, Written, Goto
<1>8. ASSUME NEW r \in Requests, SaveCreatedFails(r) \/ Crash(r)
      PROVE  OrderInv'
  BY <1>8 DEF SaveCreatedFails, Crash, Goto
<1>9. CASE Age \/ SessionEnds \/ ForgetKey
  BY <1>9 DEF Age, SessionEnds, ForgetKey
<1>10. CASE UNCHANGED vars
  BY <1>10 DEF vars
<1>11. QED
  BY <1>1, <1>2, <1>3, <1>4, <1>5, <1>6, <1>7, <1>8, <1>9, <1>10 DEF Next

(* The inductive invariant holds at all times.                               *)
LEMMA AttemptInvariant == Spec => []AttemptInv
<1>1. Init => AttemptInv
  <2>1. Init => TypeOK
    <3>1. Init => fresh \in [Requests -> BOOLEAN]
      BY Zenon DEF Init
    <3>2. Init => requests \in 0..MaxRequests
      BY BoundAssumption DEF Init
    <3>3. QED BY <3>1, <3>2, ZenonT(30) DEF Init, TypeOK
  <2>2. Init => OrderInv
    BY DEF Init, OrderInv, Remembered, Writing
  <2>3. QED BY <2>1, <2>2 DEF AttemptInv
<1>2. AttemptInv /\ [Next]_vars => AttemptInv'
  BY TypeStep, OrderStep DEF AttemptInv
<1>3. QED BY <1>1, <1>2, PTL DEF Spec

-----------------------------------------------------------------------------
(* Types, for any number of requests, orders and sessions.                   *)
THEOREM TypeCorrect == Spec => []TypeOK
<1>1. AttemptInv => TypeOK
  BY DEF AttemptInv
<1>2. QED BY <1>1, AttemptInvariant, PTL

(* createCheckoutSession never answers with a session opened for another     *)
(* organisation, user or product (assertMatchingAttempt).                    *)
THEOREM OwnCorrect == Spec => []OwnSession
<1>1. AttemptInv => OwnSession
  BY NoneFacts DEF AttemptInv, TypeOK, OrderInv, OwnSession, Remembered
<1>2. QED BY <1>1, AttemptInvariant, PTL

(* Whoever takes over, fails or crashes, all requests with the key are       *)
(* answered with one session while Stripe remembers it.                      *)
THEOREM OneSessionCorrect == Spec => []OneSession
<1>1. Init => KeyInv
  BY DEF Init, KeyInv
<1>2. AttemptInv /\ KeyInv /\ [Next]_vars => KeyInv'
  <2> SUFFICES ASSUME AttemptInv, KeyInv, [Next]_vars, ~forgotten'
               PROVE  KeyInv'
    BY DEF KeyInv
  <2> USE NoneFacts DEF AttemptInv, TypeOK, KeyInv
  <2>1. ASSUME NEW r \in Requests, NEW o \in Orders, Begin(r, o)
        PROVE  KeyInv'
    BY <2>1 DEF Begin, HasSession
  <2>2. ASSUME NEW r \in Requests, Insert(r)
        PROVE  KeyInv'
    BY <2>2 DEF Insert, HasSession
  <2>3. ASSUME NEW r \in Requests, Reuse(r) \/ SaveCreated(r) \/ SaveFailed(r)
        PROVE  KeyInv'
    BY <2>3 DEF Reuse, SaveCreated, SaveFailed, Save, Written
  <2>4. ASSUME NEW r \in Requests, Create(r)
        PROVE  KeyInv'
    BY <2>4 DEF Create, OpenSession
  <2>5. ASSUME NEW r \in Requests, CreateFails(r)
        PROVE  KeyInv'
    BY <2>5 DEF CreateFails, OpenSession
  <2>6. ASSUME NEW r \in Requests, SaveCreatedFails(r) \/ Crash(r)
        PROVE  KeyInv'
    BY <2>6 DEF SaveCreatedFails, Crash
  <2>7. CASE Age \/ SessionEnds \/ ForgetKey \/ UNCHANGED vars
    BY <2>7 DEF Age, SessionEnds, ForgetKey, vars
  <2>8. QED
    BY <2>1, <2>2, <2>3, <2>4, <2>5, <2>6, <2>7 DEF Next
<1>3. KeyInv => OneSession
  BY DEF KeyInv, OneSession
<1>4. QED BY <1>1, <1>2, <1>3, AttemptInvariant, PTL DEF Spec

(* Until the row was once left alone for ten minutes, its unique key lets    *)
(* one request at most open the session and record it.                       *)
THEOREM CreatorCorrect == Spec => []OneCreator
<1>1. Init => CreatorInv
  BY DEF Init, CreatorInv, OneCreator, Writing
<1>2. AttemptInv /\ CreatorInv /\ [Next]_vars => CreatorInv'
  <2> SUFFICES ASSUME AttemptInv, CreatorInv, [Next]_vars, ~aged'
               PROVE  CreatorInv'
    BY DEF CreatorInv
  <2> USE DEF AttemptInv, TypeOK, CreatorInv, OneCreator, Writing
  <2>1. ASSUME NEW r \in Requests, NEW o \in Orders, Begin(r, o)
        PROVE  CreatorInv'
    BY <2>1 DEF Begin, Goto
  <2>2. ASSUME NEW r \in Requests, Insert(r)
        PROVE  CreatorInv'
    BY <2>2 DEF Insert, Goto
  <2>3. ASSUME NEW r \in Requests, Reuse(r) \/ SaveCreated(r) \/ SaveFailed(r)
        PROVE  CreatorInv'
    BY <2>3 DEF Reuse, SaveCreated, SaveFailed, Save, Goto
  <2>4. ASSUME NEW r \in Requests, Create(r) \/ CreateFails(r)
        PROVE  CreatorInv'
    BY <2>4 DEF Create, CreateFails, Goto
  <2>5. ASSUME NEW r \in Requests, SaveCreatedFails(r) \/ Crash(r)
        PROVE  CreatorInv'
    BY <2>5 DEF SaveCreatedFails, Crash, Goto
  <2>6. CASE Age \/ SessionEnds \/ ForgetKey \/ UNCHANGED vars
    BY <2>6 DEF Age, SessionEnds, ForgetKey, vars, OrderInv
  <2>7. QED
    BY <2>1, <2>2, <2>3, <2>4, <2>5, <2>6 DEF Next
<1>3. CreatorInv => OneCreator
  BY DEF CreatorInv, OneCreator
<1>4. QED BY <1>1, <1>2, <1>3, AttemptInvariant, PTL DEF Spec
=============================================================================

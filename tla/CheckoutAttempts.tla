-------------------------- MODULE CheckoutAttempts --------------------------
(***************************************************************************)
(* SecureStripeCheckoutService.createCheckoutSession: the requests that    *)
(* carry one Idempotency-Key, each a process of its own, and the           *)
(* stripe_checkout_attempt row they share.  The unique index on the key    *)
(* makes keys independent, so the model has one.                           *)
(*                                                                         *)
(* Stripe is external: it remembers the key for a day and answers a second *)
(* request with it by the session of the first.                            *)
(*                                                                         *)
(* repository.save(entity) writes the columns in which the entity differs  *)
(* from the row as it is then; an entity read earlier writes its old       *)
(* values back, and one that differs in nothing leaves updatedDate alone.  *)
(***************************************************************************)
EXTENDS Naturals

CONSTANTS
    Requests,     \* HTTP requests in progress at once
    Orders,       \* organisation, user and product a request asks for
    None,         \* no order, no session
    MaxSessions,  \* bound: sessions Stripe creates under the key
    MaxRequests   \* bound: requests made

ASSUME NoneAssumption == None \notin Orders \cup Nat

ASSUME BoundAssumption == MaxSessions \in Nat /\ MaxRequests \in Nat

Sessions == 1..MaxSessions

VARIABLES
    status,       \* the row: "absent", "creating", "created" or "failed"
    order,        \* the order it was inserted for
    session,      \* its stripeSessionId
    recent,       \* is updatedDate within the last ten minutes
    pc,           \* where each request is
    wants,        \* the order it is for
    copy,         \* stripeSessionId in the entity it holds, as null or a value
    fresh,        \* did it create the entity: stripeSessionId is undefined
    keySession,   \* the session Stripe remembers the key for
    sessionOrder, \* the order of each session created
    requests,     \* requests made
    answer,       \* the session each request was last answered with
    aged,         \* history: the row has once been older than ten minutes
    forgotten     \* history: Stripe has once forgotten the key

rowVars     == <<status, order, session, recent>>
requestVars == <<pc, wants, copy, fresh>>
stripeVars  == <<keySession, sessionOrder>>
vars == <<rowVars, requestVars, stripeVars, requests, answer, aged, forgotten>>

TypeOK ==
    /\ status \in {"absent", "creating", "created", "failed"}
    /\ order \in Orders \cup {None}
    /\ session \in Sessions \cup {None}
    /\ recent \in BOOLEAN
    /\ pc \in [Requests -> {"idle", "insert", "reuse", "stripe", "saveCreated",
                            "saveFailed"}]
    /\ wants \in [Requests -> Orders \cup {None}]
    /\ copy \in [Requests -> Sessions \cup {None}]
    /\ fresh \in [Requests -> BOOLEAN]
    /\ keySession \in Sessions \cup {None}
    /\ sessionOrder \in [Sessions -> Orders \cup {None}]
    /\ requests \in 0..MaxRequests
    /\ answer \in [Requests -> Sessions \cup {None}]
    /\ aged \in BOOLEAN
    /\ forgotten \in BOOLEAN
    /\ status = "absent" <=> order = None
    /\ \A r \in Requests : pc[r] # "idle" => wants[r] # None

Init ==
    /\ status = "absent"
    /\ order = None
    /\ session = None
    /\ recent = FALSE
    /\ pc = [r \in Requests |-> "idle"]
    /\ wants = [r \in Requests |-> None]
    /\ copy = [r \in Requests |-> None]
    /\ fresh = [r \in Requests |-> FALSE]
    /\ keySession = None
    /\ sessionOrder = [s \in Sessions |-> None]
    /\ requests = 0
    /\ answer = [r \in Requests |-> None]
    /\ aged = FALSE
    /\ forgotten = FALSE

Goto(r, step) == pc' = [pc EXCEPT ![r] = step]

-----------------------------------------------------------------------------
(* The row as a request finds it, before its own save or in place of it.   *)

\* Mutant: the key alone identifies the checkout.
MatchingKey(o) == TRUE

\* assertMatchingAttempt.
Matching(o) == order = o

HasSession == status = "created" /\ session # None

\* A request arrives, already allowed and with a known product, and reads the
\* row: it is answered at once, sent away, or goes on to write.
Begin(r, o) ==
    /\ pc[r] = "idle"
    /\ requests < MaxRequests
    /\ requests' = requests + 1
    /\ wants' = [wants EXCEPT ![r] = o]
    /\ copy' = [copy EXCEPT ![r] = session]
    /\ fresh' = [fresh EXCEPT ![r] = status = "absent"]
    /\ answer' = [answer EXCEPT ![r] =
                     IF status # "absent" /\ Matching(o) /\ HasSession
                     THEN session ELSE None]
    /\ \/ status = "absent" /\ Goto(r, "insert")
       \/ /\ status # "absent" /\ Matching(o) /\ ~HasSession /\ ~recent
          /\ Goto(r, "reuse")
       \/ /\ status # "absent" /\ (Matching(o) => HasSession \/ recent)
          /\ UNCHANGED pc
    /\ UNCHANGED <<rowVars, stripeVars, aged, forgotten>>

\* Mutant: the loser of the insert goes on as if it had won.
InsertAnyway(r) ==
    /\ pc[r] = "insert"
    /\ IF status = "absent"
       THEN /\ status' = "creating" /\ order' = wants[r] /\ recent' = TRUE
       ELSE UNCHANGED <<status, order, recent>>
    /\ Goto(r, "stripe")
    /\ UNCHANGED <<session, wants, copy, fresh, stripeVars, requests, answer,
                   aged, forgotten>>

\* Mutant: the insert leaves the columns that name the order out.
InsertKeyOnly(r) ==
    /\ pc[r] = "insert"
    /\ status = "absent"
    /\ status' = "creating"
    /\ recent' = TRUE
    /\ Goto(r, "stripe")
    /\ UNCHANGED <<order, session, wants, copy, fresh, stripeVars, requests,
                   answer, aged, forgotten>>

\* save of a new entity: the insert, or its unique violation, which ends in the
\* other request's session or in a conflict.
Insert(r) ==
    /\ pc[r] = "insert"
    /\ \/ /\ status = "absent"
          /\ status' = "creating"
          /\ order' = wants[r]
          /\ recent' = TRUE
          /\ Goto(r, "stripe")
          /\ UNCHANGED answer
       \/ /\ status # "absent"
          /\ answer' = [answer EXCEPT ![r] =
                           IF Matching(wants[r]) /\ HasSession THEN session
                                                              ELSE None]
          /\ Goto(r, "idle")
          /\ UNCHANGED <<status, order, recent>>
    /\ UNCHANGED <<session, wants, copy, fresh, stripeVars, requests, aged,
                   forgotten>>

-----------------------------------------------------------------------------
(* The entity's saves.                                                     *)

\* What r's entity writes to stripeSessionId: nothing while it is undefined.
Written(r) == IF fresh[r] /\ copy[r] = None THEN session ELSE copy[r]

\* save(attempt) with this status; a failure's errorMessage may differ too.
Save(r, newStatus) ==
    /\ status' = newStatus
    /\ session' = Written(r)
    /\ \/ recent' = (recent \/ status # newStatus \/ session # Written(r))
       \/ newStatus = "failed" /\ recent' = TRUE
    /\ UNCHANGED order

\* An attempt that failed or was left behind is taken over, without a lock.
Reuse(r) ==
    /\ pc[r] = "reuse"
    /\ Save(r, "creating")
    /\ Goto(r, "stripe")
    /\ UNCHANGED <<wants, copy, fresh, stripeVars, requests, answer, aged,
                   forgotten>>

\* Stripe opens a session for the key, or has one already.
OpenSession(r) ==
    IF keySession # None
    THEN UNCHANGED stripeVars
    ELSE \E s \in Sessions :
            /\ sessionOrder[s] = None
            /\ \A t \in Sessions : t < s => sessionOrder[t] # None
            /\ keySession' = s
            /\ sessionOrder' = [sessionOrder EXCEPT ![s] = wants[r]]

\* Mutant: the request to Stripe carries no idempotency key.
CreateWithoutKey(r) ==
    /\ pc[r] = "stripe"
    /\ \E s \in Sessions :
          /\ sessionOrder[s] = None
          /\ keySession' = s
          /\ sessionOrder' = [sessionOrder EXCEPT ![s] = wants[r]]
          /\ copy' = [copy EXCEPT ![r] = s]
    /\ Goto(r, "saveCreated")
    /\ UNCHANGED <<rowVars, wants, fresh, requests, answer, aged, forgotten>>

\* sessions.create answers with the session.
Create(r) ==
    /\ pc[r] = "stripe"
    /\ OpenSession(r)
    /\ copy' = [copy EXCEPT ![r] = keySession']
    /\ Goto(r, "saveCreated")
    /\ UNCHANGED <<rowVars, wants, fresh, requests, answer, aged, forgotten>>

\* sessions.create fails, or its answer is lost after the session was opened.
CreateFails(r) ==
    /\ pc[r] = "stripe"
    /\ OpenSession(r) \/ UNCHANGED stripeVars
    /\ Goto(r, "saveFailed")
    /\ UNCHANGED <<rowVars, wants, copy, fresh, requests, answer, aged, forgotten>>

\* The session is recorded and returned.
SaveCreated(r) ==
    /\ pc[r] = "saveCreated"
    /\ Save(r, "created")
    /\ answer' = [answer EXCEPT ![r] = copy[r]]
    /\ Goto(r, "idle")
    /\ UNCHANGED <<wants, copy, fresh, stripeVars, requests, aged, forgotten>>

\* The database fails: into the catch block, the session in the entity.
SaveCreatedFails(r) ==
    /\ pc[r] = "saveCreated"
    /\ Goto(r, "saveFailed")
    /\ UNCHANGED <<rowVars, wants, copy, fresh, stripeVars, requests, answer,
                   aged, forgotten>>

\* The catch block: the attempt is marked failed, the client gets a 503.
SaveFailed(r) ==
    /\ pc[r] = "saveFailed"
    /\ Save(r, "failed")
    /\ Goto(r, "idle")
    /\ UNCHANGED <<wants, copy, fresh, stripeVars, requests, answer, aged,
                   forgotten>>

\* A save fails for good, the process dies or the client goes away.
Crash(r) ==
    /\ pc[r] # "idle"
    /\ Goto(r, "idle")
    /\ UNCHANGED <<rowVars, wants, copy, fresh, stripeVars, requests, answer,
                   aged, forgotten>>

-----------------------------------------------------------------------------
\* Ten minutes pass without a change to the row.
Age ==
    /\ status # "absent"
    /\ recent
    /\ recent' = FALSE
    /\ aged' = TRUE
    /\ UNCHANGED <<status, order, session, requestVars, stripeVars, requests,
                   answer, forgotten>>

\* markCheckoutAttemptFailed: the session expired or its payment failed.
SessionEnds ==
    /\ session # None
    /\ status' = "failed"
    /\ recent' = TRUE
    /\ UNCHANGED <<order, session, requestVars, stripeVars, requests, answer,
                   aged, forgotten>>

\* A day later Stripe forgets the key; no request lives that long.
ForgetKey ==
    /\ keySession # None
    /\ ~recent
    /\ \A r \in Requests : pc[r] = "idle"
    /\ keySession' = None
    /\ forgotten' = TRUE
    /\ UNCHANGED <<rowVars, requestVars, sessionOrder, requests, answer, aged>>

Next ==
    \/ \E r \in Requests :
          \/ \E o \in Orders : Begin(r, o)
          \/ Insert(r) \/ Reuse(r)
          \/ Create(r) \/ CreateFails(r)
          \/ SaveCreated(r) \/ SaveCreatedFails(r) \/ SaveFailed(r)
          \/ Crash(r)
    \/ Age \/ SessionEnds \/ ForgetKey

Spec == Init /\ [][Next]_vars

-----------------------------------------------------------------------------
\* All requests with the key that are answered are answered with one session,
\* whoever took over, failed or crashed on the way, for as long as Stripe
\* remembers the key (68-87, 130-138, 152-165).
OneSession ==
    ~forgotten => \A q, r \in Requests :
        answer[q] # None /\ answer[r] # None => answer[q] = answer[r]

\* Nobody is answered with a session that was opened for another organisation,
\* user or product under the same key (assertMatchingAttempt, 252-268).
OwnSession ==
    \A r \in Requests : answer[r] # None => sessionOrder[answer[r]] = wants[r]

\* Until the row has once been left alone for ten minutes, one request at most
\* is between its first save and its last.
OneCreator ==
    ~aged => \A q, r \in Requests :
        pc[q] \in {"stripe", "saveCreated", "saveFailed"}
        /\ pc[r] \in {"stripe", "saveCreated", "saveFailed"} => q = r
=============================================================================

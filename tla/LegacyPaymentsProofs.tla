------------------------- MODULE LegacyPaymentsProofs -------------------------
(***************************************************************************)
(* One purchase through the deprecated client has one record, for its own  *)
(* organisation, no longer valid than what is billed, and is announced     *)
(* once: for any number of workers, deliveries, retries, stalls, periods   *)
(* and interventions of administrators.                                    *)
(***************************************************************************)
EXTENDS LegacyPayments, SequenceTheorems, FiniteSetTheorems, TLAPS

USE DEF shop

Job == [type : Types, status : {"waiting", "active", "completed", "failed"},
        tries : 0..MaxAttempts, stalls : 0..MaxStalls]
Steps  == {"idle", "retrieve", "find", "insert", "update", "tell"}
AtWork == [pc : Steps, job : Nat, org : Orgs \cup {None}, untils : Seq(Untils),
           item : Nat \ {0}, checkout : BOOLEAN, running : BOOLEAN]

(* A job is of an event that Stripe has emitted, has an attempt left while it *)
(* waits or runs, and is run by one worker at a time.                         *)
QueueInv ==
    /\ jobs \in Seq(Job)
    /\ \A j \in DOMAIN jobs :
          /\ jobs[j].type \in emitted
          /\ jobs[j].status \in {"waiting", "active"} => jobs[j].tries < MaxAttempts
    /\ worker \in [Workers -> AtWork]
    /\ \A v, w \in Workers : worker[v].job = worker[w].job /\ worker[v].job # 0 => v = w

(* Nothing happens before the session is opened, the reference is fixed by    *)
(* then, and only a session with a recurring item has a subscription.         *)
ShopInv ==
    /\ session = NoSession =>
          /\ stripe.period = 0 /\ record.status = "absent"
          /\ \A w \in Workers : worker[w].pc = "idle"
    /\ stripe.period = 0 => emitted = {}
    /\ stripe.status # "none" \/ emitted \cap {"updated", "deleted"} # {}
          => session.mode = "subscription"

(* What a worker brings to the record.                                        *)
Brings(here) ==
    /\ here.item \in DOMAIN here.untils
    /\ here.job # 0 =>
          \A i \in DOMAIN here.untils :
             /\ session.mode = "subscription" => here.untils[i] <= stripe.period
             /\ here.checkout \/ here.running \/ here.untils[i] = Revoked

WorkOf(here) ==
    /\ here.pc = "retrieve" => here.job # 0 /\ here.item = 1
    /\ here.pc \notin {"idle", "retrieve"} => Brings(here)
    /\ here.pc # "idle" /\ here.job = 0 => here.org \in Orgs
    /\ here.pc = "insert" =>
          /\ here.org \in Orgs
          /\ here.job # 0 /\ session.cites = "ours" /\ reference \in Orgs
                => here.org = reference
    /\ here.pc = "update" => record.status # "absent"

WorkInv == \A w \in Workers : WorkOf(worker[w])

(* Nobody has written a record that is not there.                             *)
LastsInv == NoLifetime /\ (record.status = "absent" => record.by # "stripe")

(* One worker has inserted the record; until it has told, nobody has.         *)
ToldInv ==
    /\ record.status = "absent" =>
          told = 0 /\ \A w \in Workers : worker[w].pc # "tell"
    /\ \A v, w \in Workers : worker[v].pc = "tell" /\ worker[w].pc = "tell" => v = w
    /\ \A w \in Workers : worker[w].pc = "tell" => told = 0
    /\ ToldOnce

TypeInv == TypeOK /\ QueueInv /\ ShopInv /\ WorkInv
IInv == TypeInv /\ OwnOrganisation /\ LastsInv /\ ToldInv /\ CompletedWasTold

-----------------------------------------------------------------------------
(* What is retrieved from Stripe and mapped.                                 *)

(* A subscription has one recurring item in either cart.                      *)
LEMMA OneRecurring ==
    ASSUME session.mode = "subscription", session.items \in Carts[session.mode]
    PROVE  Cardinality(SubscriptionItems) = 1
<1>1. session.items \in {<<"recurring">>, <<"once", "recurring">>}
  BY DEF Carts
<1>2. SubscriptionItems = {1} \/ SubscriptionItems = {2}
  BY <1>1 DEF SubscriptionItems
<1>3. QED BY <1>2, FS_Singleton

(* What a type of payment is valid for; a subscription, for what is billed.   *)
LEMMA Validity ==
    ASSUME TypeOK, NEW type \in {"subscription", "payment"}, NEW isActive \in BOOLEAN
    PROVE  /\ NewValidUntil(type, isActive) \in Untils
           /\ type = "subscription" => NewValidUntil(type, isActive) <= stripe.period
           /\ type = "subscription" /\ ~isActive => NewValidUntil(type, isActive) = Revoked
BY LegacyBounds DEF TypeOK, NewValidUntil, Untils, Revoked, Forever

(* Every event but an unpaid session's leads to line items to save; those of  *)
(* a subscription last no longer than its period, and one that has ended is   *)
(* revoked.                                                                   *)
LEMMA MapsAll ==
    ASSUME TypeOK, ShopInv, NEW type \in Types, type \in emitted, type # "completedUnpaid"
    PROVE  /\ UntilsFor(type) \in Seq(Untils) /\ 1 \in DOMAIN UntilsFor(type)
           /\ \A i \in DOMAIN UntilsFor(type) :
                 /\ session.mode = "subscription" => UntilsFor(type)[i] <= stripe.period
                 /\ \/ type \in {"completed", "async"} \/ Running
                    \/ UntilsFor(type)[i] = Revoked
<1>1. session # NoSession /\ session.items \in Carts[session.mode]
      /\ session.mode \in {"payment", "subscription"}
  BY LegacyBounds DEF TypeOK, ShopInv, Carts
<1>2. PICK n \in {1, 2} : DOMAIN session.items = 1..n
  BY <1>1 DEF Carts
<1>3. CASE type \in {"completed", "async"}
  <2>1. UntilsFor(type) = [i \in 1..n |-> NewValidUntil(PaymentType(session.items[i]), TRUE)]
    BY <1>2, <1>3 DEF UntilsFor, MapSession
  <2>2. \A i \in 1..n : PaymentType(session.items[i]) \in {"subscription", "payment"}
    BY DEF PaymentType
  <2>3. session.mode = "subscription" =>
           \A i \in 1..n : PaymentType(session.items[i]) = "subscription"
    BY DEF PaymentType
  <2>4. UntilsFor(type) \in [1..n -> Untils]
    BY <2>1, <2>2, Validity
  <2>5. UntilsFor(type) \in Seq(Untils) /\ DOMAIN UntilsFor(type) = 1..n
    BY <2>4, SeqDef
  <2>6. \A i \in 1..n : session.mode = "subscription" => UntilsFor(type)[i] <= stripe.period
    BY <2>1, <2>2, <2>3, Validity
  <2>7. QED BY <1>3, <2>5, <2>6
<1>4. CASE type \in {"updated", "deleted"}
  <2>1. session.mode = "subscription"
    BY <1>4 DEF ShopInv
  <2>2. Cardinality(SubscriptionItems) = 1
    BY <1>1, <2>1, OneRecurring
  <2>3. PICK isActive \in BOOLEAN :
           /\ isActive => Running
           /\ UntilsFor(type) = [i \in 1..1 |-> NewValidUntil("subscription", isActive)]
    BY <1>4, <2>2 DEF UntilsFor, MapSubscription, Running
  <2>4. UntilsFor(type) \in [1..1 -> Untils]
    BY <2>3, Validity
  <2>5. UntilsFor(type) \in Seq(Untils) /\ DOMAIN UntilsFor(type) = 1..1
    BY <2>4, SeqDef
  <2>6. /\ UntilsFor(type)[1] <= stripe.period
        /\ Running \/ UntilsFor(type)[1] = Revoked
    BY <2>3, Validity
  <2>7. QED BY <2>5, <2>6
<1>5. QED BY <1>3, <1>4 DEF Types

-----------------------------------------------------------------------------
(* Steps.                                                                    *)

(* Those of the shop and of Stripe, and those of a worker or a request.       *)
ShopStep ==
    \/ \E org \in Orgs \cup {None} : CreateReference(org)
    \/ \E mode \in DOMAIN Carts, cites \in {"ours", "unknown", "nothing"} :
          \E items \in Carts[mode] : OpenSession(mode, items, cites)
    \/ \E paid \in BOOLEAN : Complete(paid)
    \/ PaidLater
    \/ \E status \in {"active", "pastDue", "canceled"}, period \in 1..MaxPeriod :
          Change(status, period)

WorkStep(w) ==
    \/ \E org \in Orgs : AddSubscription(w, org, Forever)
    \/ Retrieve(w) \/ Find(w) \/ Insert(w) \/ Update(w) \/ Tell(w)
    \/ Fail(w) \/ Crash(w)

(* Every step is of the shop, a delivery, a start, a deletion, or a worker's. *)
LEMMA StepKinds ==
    ASSUME [Next]_vars
    PROVE  \/ ShopStep
           \/ \E type \in Types : Deliver(type)
           \/ \E w \in Workers : \E j \in DOMAIN jobs : Start(w, j)
           \/ Delete
           \/ \E w \in Workers : WorkStep(w)
           \/ UNCHANGED vars
BY DEF Next, ShopStep, WorkStep, OwnerCheckout, AnonymousCheckout, Administer

(* What the type of a worker says of its job.                                 *)
LEMMA WorkerFacts ==
    ASSUME TypeInv, NEW w \in Workers
    PROVE  /\ worker[w] \in AtWork /\ worker[w].job \in 0..Len(jobs) /\ Len(jobs) \in Nat
           /\ worker[w].pc = "idle" => worker[w] = Resting
           /\ Resting \in AtWork /\ DOMAIN jobs = 1..Len(jobs) /\ WorkOf(Resting)'
<1>1. Resting \in AtWork
  BY EmptySeq DEF Resting, AtWork, Steps
<1>2. DOMAIN jobs = 1..Len(jobs) /\ Len(jobs) \in Nat
  BY LenProperties DEF TypeInv, QueueInv
<1>3. QED BY <1>1, <1>2 DEF TypeInv, TypeOK, QueueInv, WorkOf, Resting

(* How a job may be left: completed, failed or to be tried again.             *)
Left(j, job) ==
    /\ job \in Job /\ job.type = jobs[j].type /\ job.status # "active"
    /\ job.status = "waiting" => job.tries < MaxAttempts

(* The three ways to leave a job are ways in which it may be left.            *)
LEMMA Outcomes ==
    ASSUME TypeInv, NEW w \in Workers, worker[w].job # 0
    PROVE  LET j == worker[w].job IN
           /\ j \in 1..Len(jobs) /\ jobs[j] \in Job
           /\ Left(j, Finished(w)) /\ Finished(w).status = "completed"
           /\ Left(j, Thrown(w)) /\ Thrown(w).status # "completed"
           /\ jobs[j].stalls < MaxStalls =>
                 Left(j, [jobs[j] EXCEPT !.stalls = jobs[j].stalls + 1, !.status = "waiting"])
           /\ Left(j, [jobs[j] EXCEPT !.status = "failed"])
<1> DEFINE j == worker[w].job
<1>1. j \in 1..Len(jobs) /\ DOMAIN jobs = 1..Len(jobs)
  BY WorkerFacts
<1>2. jobs[j] \in Job
  BY <1>1, ElementOfSeq DEF TypeInv, QueueInv
<1>3. jobs[j].status = "active" /\ jobs[j].tries < MaxAttempts
  BY <1>1 DEF TypeInv, TypeOK, QueueInv
<1>4. /\ jobs[j].tries \in 0..MaxAttempts /\ jobs[j].tries + 1 \in 0..MaxAttempts
      /\ jobs[j].stalls \in 0..MaxStalls
      /\ jobs[j].stalls < MaxStalls => jobs[j].stalls + 1 \in 0..MaxStalls
  BY <1>2, <1>3, LegacyBounds DEF Job
<1>5. Left(j, Finished(w)) /\ Finished(w).status = "completed"
  BY <1>2 DEF Left, Finished, Job
<1>6. Left(j, Thrown(w)) /\ Thrown(w).status # "completed"
  <2>1. CASE jobs[j].tries + 1 < MaxAttempts
    <3>1. Thrown(w) = [jobs[j] EXCEPT !.tries = jobs[j].tries + 1, !.status = "waiting"]
      BY <2>1 DEF Thrown
    <3>2. QED BY <1>2, <1>4, <2>1, <3>1 DEF Left, Job
  <2>2. CASE ~(jobs[j].tries + 1 < MaxAttempts)
    <3>1. Thrown(w) = [jobs[j] EXCEPT !.tries = jobs[j].tries + 1, !.status = "failed"]
      BY <2>2 DEF Thrown
    <3>2. QED BY <1>2, <1>4, <3>1 DEF Left, Job
  <2>3. QED BY <2>1, <2>2
<1>7. /\ jobs[j].stalls < MaxStalls =>
            Left(j, [jobs[j] EXCEPT !.stalls = jobs[j].stalls + 1, !.status = "waiting"])
      /\ Left(j, [jobs[j] EXCEPT !.status = "failed"])
  BY <1>2, <1>3, <1>4 DEF Left, Job
<1>8. QED BY <1>1, <1>2, <1>5, <1>6, <1>7

(* A worker or request leaves, its job as it may be left, or goes on.         *)
GoesAway(w) ==
    /\ worker[w].pc # "idle" /\ worker' = [worker EXCEPT ![w] = Resting]
    /\ \/ worker[w].job = 0 /\ jobs' = jobs
       \/ \E job \in Job : /\ Left(worker[w].job, job) /\ worker[w].job # 0
                           /\ jobs' = [jobs EXCEPT ![worker[w].job] = job]
                           /\ job.status = "completed" =>
                                 Tell(w) \/ job.type = "completedUnpaid"

GoesOn(w) ==
    /\ jobs' = jobs /\ worker' = [worker EXCEPT ![w] = worker'[w]]
    /\ worker'[w] \in AtWork /\ worker'[w].pc # "idle" /\ worker'[w].job = worker[w].job
    /\ WorkOf(worker[w])'

(* A worker whose job throws goes away.                                       *)
LEMMA Throws ==
    ASSUME TypeInv, NEW w \in Workers, worker[w].pc # "idle", Leave(w, Thrown(w))
    PROVE  GoesAway(w)
BY Outcomes DEF Leave, GoesAway, Left

(* A request that adds a subscription: for an organisation, one item.         *)
LEMMA AddSteps ==
    ASSUME TypeInv, NEW w \in Workers, NEW org \in Orgs, AddSubscription(w, org, Forever)
    PROVE  UNCHANGED shop /\ GoesOn(w)
<1>1. PICK here : here = worker[w]
  OBVIOUS
<1>2. here = Resting
  BY <1>1, WorkerFacts DEF AddSubscription
<1>3. PICK next : next = [here EXCEPT !.pc = "find", !.org = org, !.untils = <<Forever>>]
  OBVIOUS
<1>4. next = [Resting EXCEPT !.pc = "find", !.org = org, !.untils = <<Forever>>]
  BY <1>2, <1>3
<1>5. next = [pc |-> "find", job |-> 0, org |-> org, untils |-> <<Forever>>, item |-> 1,
              checkout |-> FALSE, running |-> FALSE]
  BY <1>4 DEF Resting
<1>6. <<Forever>> \in Seq(Untils) /\ DOMAIN <<Forever>> = 1..1
  BY LegacyBounds DEF Forever, Untils
<1>7. next \in AtWork /\ next.pc = "find" /\ next.job = 0 /\ next.org \in Orgs
      /\ next.item \in DOMAIN next.untils
  BY <1>5, <1>6 DEF AtWork, Steps
<1>8. worker' = [worker EXCEPT ![w] = next] /\ worker'[w] = next
  BY <1>1, <1>3 DEF AddSubscription, TypeInv, QueueInv
<1>9. here.job = 0
  BY <1>2 DEF Resting
<1>10. WorkOf(worker[w])'
  BY <1>7, <1>8 DEF WorkOf, Brings
<1>11. UNCHANGED shop /\ jobs' = jobs
  BY DEF AddSubscription
<1>12. QED BY <1>1, <1>7, <1>8, <1>9, <1>10, <1>11 DEF GoesOn

(* An unpaid session's job is done; another's line items are all mapped.      *)
LEMMA RetrieveSteps ==
    ASSUME TypeInv, NEW w \in Workers, Retrieve(w)
    PROVE  UNCHANGED shop /\ (GoesAway(w) \/ GoesOn(w))
<1>1. PICK here \in AtWork : here = worker[w] /\ WorkOf(here)
  BY WorkerFacts DEF TypeInv, WorkInv
<1>2. PICK type : type = jobs[here.job].type
  OBVIOUS
<1>3. /\ here.job # 0 /\ here.pc = "retrieve" /\ here.item = 1
      /\ type \in Types /\ type \in emitted
  BY <1>1, <1>2, Outcomes, WorkerFacts DEF Retrieve, WorkOf, Job, TypeInv, QueueInv
<1>4. CASE type = "completedUnpaid"
  <2>1. Leave(w, Finished(w)) /\ UNCHANGED shop
    BY <1>1, <1>2, <1>4 DEF Retrieve
  <2>2. Left(here.job, Finished(w)) /\ Finished(w).type = "completedUnpaid"
    BY <1>1, <1>2, <1>3, <1>4, Outcomes DEF Left
  <2>3. QED BY <1>1, <1>3, <2>1, <2>2 DEF Leave, GoesAway, Left
<1>5. CASE type # "completedUnpaid"
  <2>1. PICK untils \in Seq(Untils) :
           /\ untils = UntilsFor(type) /\ 1 \in DOMAIN untils
           /\ \A i \in DOMAIN untils :
                 /\ session.mode = "subscription" => untils[i] <= stripe.period
                 /\ type \in {"completed", "async"} \/ Running \/ untils[i] = Revoked
    BY <1>3, <1>5, MapsAll DEF TypeInv
  <2>2. PICK checkout : checkout = (type \in {"completed", "async"})
    OBVIOUS
  <2>3. PICK running : running = (stripe.status = "active")
    OBVIOUS
  <2>4. PICK next : next = [here EXCEPT !.pc = "find", !.untils = untils,
                                        !.checkout = checkout, !.running = running]
    OBVIOUS
  <2>5. /\ next \in AtWork /\ next.pc = "find" /\ next.job = here.job
        /\ next.item = 1 /\ next.untils = untils
        /\ next.checkout = checkout /\ next.running = running
    <3>1. checkout \in BOOLEAN /\ running \in BOOLEAN
      BY <2>2, <2>3
    <3>2. next \in AtWork
      BY <2>4, <3>1 DEF AtWork, Steps
    <3>3. /\ next.pc = "find" /\ next.job = here.job /\ next.item = 1
          /\ next.untils = untils
      BY <1>3, <2>4 DEF AtWork
    <3>4. next.checkout = checkout /\ next.running = running
      BY <2>4 DEF AtWork
    <3>5. QED BY <3>2, <3>3, <3>4
  <2>6. worker' = [worker EXCEPT ![w] = next] /\ worker'[w] = next /\ jobs' = jobs
        /\ UNCHANGED shop
    BY <1>1, <1>2, <1>5, <2>1, <2>2, <2>3, <2>4 DEF Retrieve, TypeInv, QueueInv
  <2>7. WorkOf(worker[w])'
    BY <1>3, <2>1, <2>2, <2>3, <2>5, <2>6 DEF WorkOf, Brings, Running
  <2>8. QED BY <1>1, <2>5, <2>6, <2>7 DEF GoesOn
<1>6. QED BY <1>4, <1>5

(* A worker goes on to update a live record, to insert one for an             *)
(* organisation it found, or throws.                                          *)
LEMMA FindSteps ==
    ASSUME TypeInv, NEW w \in Workers, Find(w)
    PROVE  UNCHANGED <<shop, record>> /\ (GoesAway(w) \/ GoesOn(w))
<1>1. PICK here \in AtWork : here = worker[w] /\ WorkOf(here)
  BY WorkerFacts DEF TypeInv, WorkInv
<1>2. here.pc = "find" /\ UNCHANGED <<shop, record>>
  BY <1>1 DEF Find
<1>3. CASE Leave(w, Thrown(w))
  BY <1>1, <1>2, <1>3, Throws
<1>4. CASE record.status = "live" /\ worker' = [worker EXCEPT ![w].pc = "update"] /\ jobs' = jobs
  <2>1. PICK next : next = [here EXCEPT !.pc = "update"]
    OBVIOUS
  <2>2. /\ next \in AtWork /\ next.pc = "update" /\ next.job = here.job
        /\ next.org = here.org /\ next.untils = here.untils /\ next.item = here.item
        /\ next.checkout = here.checkout /\ next.running = here.running
    BY <2>1 DEF AtWork, Steps
  <2>3. worker' = [worker EXCEPT ![w] = next] /\ worker'[w] = next
    BY <1>1, <1>4, <2>1 DEF TypeInv, QueueInv
  <2>4. WorkOf(worker[w])'
    BY <1>1, <1>2, <1>4, <2>2, <2>3 DEF WorkOf, Brings
  <2>5. QED BY <1>1, <1>2, <1>4, <2>2, <2>3, <2>4 DEF GoesOn
<1>5. CASE /\ worker' = [worker EXCEPT ![w].pc = "insert", ![w].org = OrganisationFor(w)]
           /\ jobs' = jobs
  <2>1. PICK org : org = OrganisationFor(w)
    OBVIOUS
  <2>2. /\ org \in Orgs
        /\ here.job # 0 /\ session.cites = "ours" /\ reference \in Orgs => org = reference
    BY <1>1, <1>2, <2>1, LegacyBounds DEF OrganisationFor, WorkOf
  <2>3. PICK next : next = [here EXCEPT !.pc = "insert", !.org = org]
    OBVIOUS
  <2>4. /\ next \in AtWork /\ next.pc = "insert" /\ next.job = here.job
        /\ next.org = org /\ next.untils = here.untils /\ next.item = here.item
        /\ next.checkout = here.checkout /\ next.running = here.running
    BY <2>2, <2>3 DEF AtWork, Steps
  <2>5. worker' = [worker EXCEPT ![w] = next] /\ worker'[w] = next
    BY <1>1, <1>5, <2>1, <2>3 DEF TypeInv, QueueInv
  <2>6. WorkOf(worker[w])'
    BY <1>1, <1>2, <2>2, <2>4, <2>5 DEF WorkOf, Brings
  <2>7. QED BY <1>1, <1>2, <1>5, <2>4, <2>5, <2>6 DEF GoesOn
<1>6. QED BY <1>2, <1>3, <1>4, <1>5 DEF Find

(* A worker inserts a record only where there is none, and goes on to tell.   *)
LEMMA InsertSteps ==
    ASSUME TypeInv, NEW w \in Workers, Insert(w)
    PROVE  /\ UNCHANGED shop
           /\ \/ GoesAway(w) /\ record' = record
              \/ GoesOn(w) /\ record.status = "absent" /\ worker'[w].pc = "tell"
<1>1. PICK here \in AtWork : here = worker[w] /\ WorkOf(here)
  BY WorkerFacts DEF TypeInv, WorkInv
<1>2. here.pc = "insert" /\ UNCHANGED shop
  BY <1>1 DEF Insert
<1>3. CASE Leave(w, Thrown(w)) /\ record' = record
  BY <1>1, <1>2, <1>3, Throws
<1>4. CASE TransactionFree /\ worker' = [worker EXCEPT ![w].pc = "tell"] /\ jobs' = jobs
  <2>1. PICK next : next = [here EXCEPT !.pc = "tell"]
    OBVIOUS
  <2>2. /\ next \in AtWork /\ next.pc = "tell" /\ next.job = here.job
        /\ next.org = here.org /\ next.untils = here.untils /\ next.item = here.item
        /\ next.checkout = here.checkout /\ next.running = here.running
    BY <2>1 DEF AtWork, Steps
  <2>3. worker' = [worker EXCEPT ![w] = next] /\ worker'[w] = next
    BY <1>1, <1>4, <2>1 DEF TypeInv, QueueInv
  <2>4. WorkOf(worker[w])'
    BY <1>1, <1>2, <2>2, <2>3 DEF WorkOf, Brings
  <2>5. QED BY <1>1, <1>2, <1>4, <2>2, <2>3, <2>4 DEF GoesOn, TransactionFree
<1>5. QED BY <1>2, <1>3, <1>4 DEF Insert

(* With the announcement a job completes, or goes on with its next line item. *)
LEMMA TellSteps ==
    ASSUME TypeInv, NEW w \in Workers, Tell(w)
    PROVE  /\ UNCHANGED <<shop, record>>
           /\ GoesAway(w) \/ (GoesOn(w) /\ worker'[w].pc = "find")
<1>1. PICK here \in AtWork : here = worker[w] /\ WorkOf(here)
  BY WorkerFacts DEF TypeInv, WorkInv
<1>2. here.pc = "tell" /\ UNCHANGED <<shop, record>>
  BY <1>1 DEF Tell
<1>3. CASE Leave(w, Finished(w))
  BY <1>1, <1>2, <1>3, Outcomes DEF Leave, GoesAway, Left
<1>4. CASE /\ here.item < Len(here.untils) /\ jobs' = jobs
           /\ worker' = [worker EXCEPT ![w].pc = "find", ![w].item = worker[w].item + 1]
  <2>1. PICK next : next = [here EXCEPT !.pc = "find", !.item = here.item + 1]
    OBVIOUS
  <2>2. here.item + 1 \in DOMAIN here.untils /\ here.item + 1 \in Nat \ {0}
    BY <1>4, LenProperties DEF AtWork
  <2>3. /\ next \in AtWork /\ next.pc = "find" /\ next.job = here.job
        /\ next.org = here.org /\ next.untils = here.untils /\ next.item = here.item + 1
        /\ next.checkout = here.checkout /\ next.running = here.running
    BY <2>1, <2>2 DEF AtWork, Steps
  <2>4. worker' = [worker EXCEPT ![w] = next] /\ worker'[w] = next
    BY <1>1, <1>4, <2>1 DEF TypeInv, QueueInv
  <2>5. WorkOf(worker[w])'
    BY <1>1, <1>2, <2>2, <2>3, <2>4 DEF WorkOf, Brings
  <2>6. QED BY <1>1, <1>2, <1>4, <2>3, <2>4, <2>5 DEF GoesOn
<1>5. QED BY <1>1, <1>2, <1>3, <1>4 DEF Tell

(* A worker writes the record in two places only.                             *)
LEMMA WorkSteps ==
    ASSUME TypeInv, NEW w \in Workers, WorkStep(w)
    PROVE  /\ UNCHANGED shop /\ (GoesAway(w) \/ GoesOn(w))
           /\ record' = record \/ Insert(w) \/ Update(w)
           /\ told' = told \/ Tell(w)
           /\ worker'[w].pc = "tell" => Insert(w)
<1>1. ASSUME NEW org \in Orgs, AddSubscription(w, org, Forever)
      PROVE  worker'[w].pc = "find"
  BY <1>1 DEF AddSubscription, TypeInv, QueueInv, AtWork
<1>2. Retrieve(w) => worker'[w].pc \in {"find", "idle"}
  BY DEF Retrieve, TypeInv, QueueInv, AtWork, Leave, Resting
<1>3. Find(w) => worker'[w].pc \in {"insert", "update", "idle"}
  BY DEF Find, TypeInv, QueueInv, AtWork, Leave, Resting
<1>4. Tell(w) => worker'[w].pc \in {"find", "idle"}
  BY DEF Tell, TypeInv, QueueInv, AtWork, Leave, Resting
<1>5. CASE Update(w) \/ Fail(w)
  <2>1. UNCHANGED shop /\ worker[w].pc # "idle" /\ Leave(w, Thrown(w)) /\ told' = told
    BY <1>5 DEF Update, Fail
  <2>2. worker'[w].pc = "idle"
    BY <2>1 DEF Leave, TypeInv, QueueInv, Resting
  <2>3. QED BY <1>5, <2>1, <2>2, Throws DEF Fail
<1>6. CASE Crash(w)
  <2>1. UNCHANGED <<shop, record, told>> /\ worker[w].job # 0 /\ worker[w].pc # "idle"
    BY <1>6, WorkerFacts DEF Crash, Resting
  <2>2. PICK job : /\ Left(worker[w].job, job) /\ job.status # "completed"
                   /\ Leave(w, job)
    <3> DEFINE job == jobs[worker[w].job]
               again == [job EXCEPT !.stalls = job.stalls + 1, !.status = "waiting"]
               lost  == [job EXCEPT !.status = "failed"]
    <3>1. CASE job.stalls < MaxStalls
      <4>1. Leave(w, again)
        BY <1>6, <3>1 DEF Crash, Leave
      <4>2. Left(worker[w].job, again) /\ again.status # "completed"
        BY <2>1, <3>1, Outcomes DEF Left, Job
      <4>3. QED BY <4>1, <4>2
    <3>2. CASE ~(job.stalls < MaxStalls)
      <4>1. Leave(w, lost)
        BY <1>6, <3>2 DEF Crash, Leave
      <4>2. Left(worker[w].job, lost) /\ lost.status # "completed"
        BY <2>1, Outcomes DEF Left, Job
      <4>3. QED BY <4>1, <4>2
    <3>3. QED BY <3>1, <3>2
  <2>3. worker'[w].pc = "idle"
    BY <2>2 DEF Leave, TypeInv, QueueInv, Resting
  <2>4. QED BY <2>1, <2>2, <2>3 DEF Leave, GoesAway, Left
<1>7. QED BY <1>1, <1>2, <1>3, <1>4, <1>5, <1>6, AddSteps, RetrieveSteps, FindSteps,
             InsertSteps, TellSteps
          DEF WorkStep, AddSubscription, Retrieve, Find, Insert, Tell

ShopTypeOK ==
    /\ reference \in {"absent", None} \cup Orgs /\ emitted \subseteq Types
    /\ session = NoSession \/
          /\ session.mode \in DOMAIN Carts
          /\ session.items \in Carts[session.mode]
          /\ session.cites \in {"ours", "unknown", "nothing"}
    /\ stripe \in [status : {"none", "active", "pastDue", "canceled"},
                   period : 0..MaxPeriod, paid : BOOLEAN]

(* The session and the reference stay once there is a session, periods and    *)
(* events only become more.                                                   *)
ShopGrows ==
    /\ UNCHANGED <<jobs, record, told, worker, manual>>
    /\ session # NoSession => UNCHANGED <<session, reference>>
    /\ stripe.period <= stripe'.period /\ emitted \subseteq emitted'
    /\ ShopTypeOK' /\ ShopInv'

(* Steps of the shop keep its types, and take nothing back.                   *)
LEMMA ShopSteps == TypeInv /\ ShopStep => ShopGrows
<1> SUFFICES ASSUME TypeInv, ShopStep
             PROVE  ShopGrows
    OBVIOUS
<1>0. ShopTypeOK /\ ShopInv
  BY DEF TypeInv, TypeOK, ShopTypeOK
<1> USE <1>0, LegacyBounds DEF ShopInv, ShopTypeOK, ShopGrows
<1>1. ASSUME NEW org \in Orgs \cup {None}, CreateReference(org)
      PROVE  /\ UNCHANGED <<session, stripe, emitted, jobs, record, told, worker, manual>>
             /\ session = NoSession /\ reference' \in {None} \cup Orgs
  BY <1>1 DEF CreateReference
<1>2. ASSUME NEW mode \in DOMAIN Carts, NEW cites \in {"ours", "unknown", "nothing"},
             NEW items \in Carts[mode], OpenSession(mode, items, cites)
      PROVE  /\ UNCHANGED <<reference, stripe, emitted, jobs, record, told, worker, manual>>
             /\ session = NoSession /\ session'.mode = mode /\ session'.items = items
             /\ session'.cites = cites /\ session'.mode # "none"
  BY <1>2 DEF OpenSession, Carts
<1>3. ASSUME NEW paid \in BOOLEAN, Complete(paid)
      PROVE  /\ UNCHANGED <<reference, session, jobs, record, told, worker, manual>>
             /\ session # NoSession /\ stripe.period = 0 /\ stripe'.period = 1
             /\ stripe' \in [status : {"none", "active"}, period : {1}, paid : BOOLEAN]
             /\ stripe'.status # "none" => session.mode = "subscription"
             /\ emitted' \in {emitted \cup {"completed"}, emitted \cup {"completedUnpaid"}}
  BY <1>3 DEF Complete, Emit
<1>4. ASSUME PaidLater
      PROVE  /\ UNCHANGED <<reference, session, jobs, record, told, worker, manual>>
             /\ session # NoSession /\ stripe.period # 0
             /\ stripe' = [stripe EXCEPT !.paid = TRUE] /\ emitted' = emitted \cup {"async"}
  BY <1>4 DEF PaidLater, Emit
<1>5. ASSUME NEW status \in {"active", "pastDue", "canceled"}, NEW period \in 1..MaxPeriod,
             Change(status, period)
      PROVE  /\ UNCHANGED <<reference, session, jobs, record, told, worker, manual>>
             /\ session.mode = "subscription" /\ period \in {stripe.period, stripe.period + 1}
             /\ stripe' = [stripe EXCEPT !.status = status, !.period = period]
             /\ emitted' \in {emitted \cup {"deleted"}, emitted \cup {"updated"}}
  BY <1>5 DEF Change, Emit
<1>6. session.mode = "subscription" => session # NoSession
  BY DEF NoSession
<1>7. stripe.period \in Nat
  OBVIOUS
<1>8. ASSUME NEW org \in Orgs \cup {None}, CreateReference(org)
      PROVE  ShopGrows
  BY <1>1, <1>6, <1>7, <1>8
<1>9. ASSUME NEW mode \in DOMAIN Carts, NEW cites \in {"ours", "unknown", "nothing"},
             NEW items \in Carts[mode], OpenSession(mode, items, cites)
      PROVE  ShopGrows
  <2>1. stripe.status = "none" /\ emitted = {}
    BY <1>2, <1>9 DEF NoSession
  <2>2. session' # NoSession
    BY <1>2, <1>9 DEF NoSession
  <2>3. QED BY <1>2, <1>7, <1>9, <2>1, <2>2
<1>10. ASSUME NEW paid \in BOOLEAN, Complete(paid)
       PROVE  ShopGrows
  <2>1. emitted' \in {{"completed"}, {"completedUnpaid"}} /\ emitted = {}
    BY <1>3, <1>10
  <2>2. stripe'.period = 1 /\ 1 \in 0..MaxPeriod
        /\ stripe' \in [status : {"none", "active", "pastDue", "canceled"},
                       period : 0..MaxPeriod, paid : BOOLEAN]
    BY <1>3, <1>10
  <2>3. QED BY <1>3, <1>10, <2>1, <2>2 DEF Types
<1>11. ASSUME PaidLater
       PROVE  ShopGrows
  <2>1. emitted' \subseteq Types /\ emitted \subseteq emitted'
        /\ emitted' \cap {"updated", "deleted"} = emitted \cap {"updated", "deleted"}
    BY <1>4, <1>11 DEF Types
  <2>2. stripe'.period = stripe.period /\ stripe'.status = stripe.status
        /\ stripe' \in [status : {"none", "active", "pastDue", "canceled"},
                       period : 0..MaxPeriod, paid : BOOLEAN]
    BY <1>4, <1>11
  <2>3. QED BY <1>4, <1>7, <1>11, <2>1, <2>2
<1>12. ASSUME NEW status \in {"active", "pastDue", "canceled"}, NEW period \in 1..MaxPeriod,
              Change(status, period)
       PROVE  ShopGrows
  <2>1. emitted' \subseteq Types /\ emitted \subseteq emitted'
    BY <1>5, <1>12 DEF Types
  <2>2. stripe'.period = period /\ stripe.period <= period /\ period # 0
        /\ stripe' \in [status : {"none", "active", "pastDue", "canceled"},
                       period : 0..MaxPeriod, paid : BOOLEAN]
    <3>1. stripe' = [stripe EXCEPT !.status = status, !.period = period]
      BY <1>5, <1>12
    <3>2. period \in 0..MaxPeriod /\ period # 0
      OBVIOUS
    <3>3. stripe.period <= period
      <4>1. PICK before \in Nat : before = stripe.period
        BY <1>7
      <4>2. period = before \/ period = before + 1
        BY <1>5, <1>12, <4>1
      <4>3. QED BY <4>1, <4>2
    <3>4. stripe' \in [status : {"none", "active", "pastDue", "canceled"},
                      period : 0..MaxPeriod, paid : BOOLEAN]
      BY <3>1, <3>2
    <3>5. stripe'.period = period
      BY <3>1
    <3>6. QED BY <3>2, <3>3, <3>4, <3>5
  <2>3. QED BY <1>5, <1>6, <1>12, <2>1, <2>2
<1>13. QED BY <1>8, <1>9, <1>10, <1>11, <1>12 DEF ShopStep

-----------------------------------------------------------------------------
(* Types, jobs and workers.                                                  *)

CrewOK ==
    /\ Len(jobs) <= MaxJobs
    /\ \A w \in Workers : /\ worker[w].job \in 0..Len(jobs)
                          /\ worker[w].pc = "idle" => worker[w] = Resting
    /\ \A j \in DOMAIN jobs : jobs[j].status = "active"
          <=> \E w \in Workers : worker[w].job = j

(* A job starts for a worker at rest, and changes in nothing but its status.  *)
LEMMA Starts ==
    ASSUME TypeInv, NEW w \in Workers, NEW j \in DOMAIN jobs, Start(w, j)
    PROVE  /\ j \in 1..Len(jobs) /\ jobs[j].status = "waiting" /\ worker[w] = Resting
           /\ UNCHANGED <<shop, record, told>>
           /\ worker' = [worker EXCEPT ![w] = worker'[w]] /\ worker'[w] \in AtWork
           /\ worker'[w].pc = "retrieve" /\ worker'[w].job = j /\ worker'[w].item = 1
           /\ jobs' = [jobs EXCEPT ![j] = jobs'[j]] /\ jobs'[j] \in Job
           /\ jobs'[j].status = "active" /\ jobs'[j].type = jobs[j].type
           /\ jobs'[j].tries = jobs[j].tries
<1>1. worker[w] = Resting /\ Resting \in AtWork /\ j \in 1..Len(jobs) /\ j # 0
  BY WorkerFacts DEF Start
<1>2. PICK job \in Job : job = jobs[j]
  BY <1>1, ElementOfSeq DEF TypeInv, QueueInv
<1>3. PICK now : now = [job EXCEPT !.status = "active"]
  OBVIOUS
<1>4. now \in Job /\ now.status = "active" /\ now.type = job.type /\ now.tries = job.tries
  BY <1>3 DEF Job
<1>5. jobs' = [jobs EXCEPT ![j] = now] /\ jobs'[j] = now
  BY <1>1, <1>2, <1>3 DEF Start, TypeInv, QueueInv
<1>6. PICK here \in AtWork : here = worker[w] /\ here.item = 1
  BY <1>1 DEF Resting
<1>7. PICK next : next = [here EXCEPT !.pc = "retrieve", !.job = j]
  OBVIOUS
<1>8. next \in AtWork /\ next.pc = "retrieve" /\ next.job = j /\ next.item = 1
  <2>1. j \in Nat
    BY <1>1, WorkerFacts
  <2>2. QED BY <1>6, <1>7, <2>1 DEF AtWork, Steps
<1>9. worker' = [worker EXCEPT ![w] = next] /\ worker'[w] = next
  BY <1>6, <1>7 DEF Start, TypeInv, QueueInv
<1>10. QED BY <1>1, <1>2, <1>4, <1>5, <1>8, <1>9 DEF Start

(* A job is run by one worker, and is active exactly as long.                 *)
LEMMA CrewStep == TypeInv /\ [Next]_vars => QueueInv' /\ CrewOK'
<1> SUFFICES ASSUME TypeInv, [Next]_vars
             PROVE  QueueInv' /\ CrewOK'
    OBVIOUS
<1>0. QueueInv /\ CrewOK /\ DOMAIN jobs = 1..Len(jobs) /\ Len(jobs) \in Nat
  BY LenProperties DEF TypeInv, TypeOK, CrewOK, QueueInv
<1>1. CASE UNCHANGED <<jobs, worker>> /\ emitted \subseteq emitted'
  BY <1>0, <1>1 DEF QueueInv, CrewOK
<1>2. ASSUME NEW type \in Types, Deliver(type)
      PROVE  QueueInv' /\ CrewOK'
  <2>1. PICK job \in Job : /\ jobs' = Append(jobs, job) /\ job.type = type
                           /\ job.status = "waiting" /\ job.tries = 0
    BY <1>2, LegacyBounds DEF Deliver, Job
  <2>2. /\ jobs' \in Seq(Job) /\ Len(jobs') = Len(jobs) + 1 /\ Len(jobs) < MaxJobs
        /\ \A j \in 1..Len(jobs) : jobs'[j] = jobs[j]
        /\ jobs'[Len(jobs) + 1] = job /\ DOMAIN jobs' = 1..(Len(jobs) + 1)
    BY <1>0, <1>2, <2>1, AppendProperties, LenProperties DEF Deliver, QueueInv
  <2>3. UNCHANGED <<worker, emitted>> /\ type \in emitted
    BY <1>2 DEF Deliver
  <2>4. QED BY <1>0, <2>1, <2>2, <2>3, LegacyBounds DEF QueueInv, CrewOK
<1>3. ASSUME NEW w \in Workers, NEW j \in DOMAIN jobs, Start(w, j)
      PROVE  QueueInv' /\ CrewOK'
  <2>1. /\ jobs' \in Seq(Job) /\ Len(jobs') = Len(jobs) /\ DOMAIN jobs' = DOMAIN jobs
        /\ \A k \in DOMAIN jobs \ {j} : jobs'[k] = jobs[k]
    BY <1>0, <1>3, Starts, ExceptSeq DEF QueueInv
  <2>2. \A v \in Workers \ {w} : worker'[v] = worker[v] /\ worker[v].job # j
    BY <1>0, <1>3, Starts DEF QueueInv, CrewOK
  <2>3. /\ worker' \in [Workers -> AtWork] /\ emitted' = emitted
        /\ worker'[w].job = j /\ worker'[w].pc # "idle" /\ worker[w].job = 0
        /\ jobs'[j].status = "active" /\ jobs'[j].type = jobs[j].type
        /\ jobs'[j].tries = jobs[j].tries /\ jobs[j].status = "waiting"
        /\ j \in DOMAIN jobs /\ j # 0
    BY <1>0, <1>3, Starts DEF QueueInv, Resting
  <2>4. QueueInv'
    BY SMTT(30), <1>0, <2>1, <2>2, <2>3 DEF QueueInv
  <2>5. \A k \in DOMAIN jobs' : jobs'[k].status = "active"
          <=> \E v \in Workers : worker'[v].job = k
    <3>1. ASSUME NEW k \in DOMAIN jobs, k # j
          PROVE  (\E v \in Workers : worker'[v].job = k) <=> \E v \in Workers : worker[v].job = k
      BY <1>0, <2>2, <2>3, <3>1
    <3>2. QED BY <1>0, <2>1, <2>3, <3>1 DEF CrewOK
  <2>6. QED BY <1>0, <2>1, <2>2, <2>3, <2>4, <2>5 DEF CrewOK
<1>4. ASSUME NEW w \in Workers, GoesAway(w), UNCHANGED shop
      PROVE  QueueInv' /\ CrewOK'
  <2>1. worker'[w] = Resting /\ \A v \in Workers \ {w} : worker'[v] = worker[v]
    BY <1>0, <1>4 DEF GoesAway, QueueInv
  <2>2. worker' \in [Workers -> AtWork] /\ Resting.job = 0
    BY <1>0, <1>4, WorkerFacts DEF GoesAway, QueueInv, Resting
  <2>3. CASE worker[w].job = 0 /\ jobs' = jobs
    BY <1>0, <1>4, <2>1, <2>2, <2>3 DEF QueueInv, CrewOK
  <2>4. ASSUME NEW job \in Job, Left(worker[w].job, job), worker[w].job # 0,
               jobs' = [jobs EXCEPT ![worker[w].job] = job]
        PROVE  QueueInv' /\ CrewOK'
    <3>1. PICK j \in 1..Len(jobs) : j = worker[w].job
      BY <2>4, WorkerFacts
    <3>2. /\ jobs' \in Seq(Job) /\ Len(jobs') = Len(jobs) /\ DOMAIN jobs' = DOMAIN jobs
          /\ \A k \in DOMAIN jobs \ {j} : jobs'[k] = jobs[k]
          /\ jobs'[j] = job
      BY <1>0, <2>4, <3>1, ExceptSeq DEF QueueInv
    <3>3. \A v \in Workers : worker'[v].job # j
      BY <1>0, <2>1, <2>2, <3>1 DEF QueueInv
    <3>4. QED BY SMTT(30), <1>0, <1>4, <2>1, <2>2, <2>4, <3>1, <3>2, <3>3 DEF QueueInv, CrewOK, Left
  <2>5. QED BY <1>4, <2>3, <2>4 DEF GoesAway
<1>5. ASSUME NEW w \in Workers, GoesOn(w), UNCHANGED shop
      PROVE  QueueInv' /\ CrewOK'
  <2>1. \A v \in Workers \ {w} : worker'[v] = worker[v]
    BY <1>0, <1>5 DEF GoesOn, QueueInv
  <2>2. worker' \in [Workers -> AtWork] /\ \A v \in Workers : worker'[v].job = worker[v].job
    BY <1>0, <1>5, <2>1 DEF GoesOn, QueueInv
  <2>3. QED BY <1>0, <1>5, <2>1, <2>2 DEF GoesOn, QueueInv, CrewOK
<1>6. QED BY <1>1, <1>2, <1>3, <1>4, <1>5, StepKinds, ShopSteps, WorkSteps
          DEF ShopGrows, Delete, vars

-----------------------------------------------------------------------------
(* The record.                                                               *)

RecordOK ==
    /\ record \in [status : {"absent", "live", "deleted"}, org : Orgs \cup {None},
                  until : Untils, by : Writers, inserted : Writers]
    /\ record.status = "absent" <=> record.org = None

(* Whoever writes the record makes it last as long as the item he is at;      *)
(* its organisation is given to it once, when it is inserted.                 *)
Written(w) ==
    /\ record'.status = "live" /\ record'.by = Writer(w)
    /\ Brings(worker[w]) /\ record'.until = worker[w].untils[worker[w].item]
    /\ \/ /\ worker[w].pc = "insert" /\ record.status = "absent"
          /\ record'.org = worker[w].org /\ record'.inserted = Writer(w)
       \/ /\ worker[w].pc = "update" /\ record.status # "absent"
          /\ record'.org = record.org /\ record'.inserted = record.inserted

(* An insertion or an update writes the record as Written says, or throws.    *)
LEMMA Writes ==
    ASSUME TypeInv, NEW w \in Workers, Insert(w) \/ Update(w)
    PROVE  RecordOK' /\ (Written(w) \/ (GoesAway(w) /\ record' = record))
<1>1. RecordOK
  BY DEF TypeInv, TypeOK, RecordOK
<1>2. PICK here \in AtWork : here = worker[w] /\ WorkOf(here)
  BY WorkerFacts DEF TypeInv, WorkInv
<1>3. here.pc \in {"insert", "update"} /\ Brings(here)
  BY <1>2 DEF Insert, Update, WorkOf
<1>4. here.untils[here.item] \in Untils
  BY <1>3, LenProperties, ElementOfSeq DEF Brings, AtWork
<1>5. PICK before \in [status : {"absent", "live", "deleted"}, org : Orgs \cup {None},
                       until : Untils, by : Writers, inserted : Writers] :
         before = record
  BY <1>1 DEF RecordOK
<1>6. PICK until \in Untils : until = here.untils[here.item]
  BY <1>4
<1>7. PICK writer \in Writers \ {"nobody"} : writer = Writer(w)
  BY DEF Writer, Writers
<1>8. PICK saved : saved = [before EXCEPT !.status = "live", !.by = writer, !.until = until]
  OBVIOUS
<1>9. Saved(w) = saved
  BY <1>2, <1>5, <1>6, <1>7, <1>8 DEF Saved
<1>10. /\ saved \in [status : {"live"}, org : Orgs \cup {None},
                      until : Untils, by : Writers, inserted : Writers]
       /\ saved.by = writer /\ saved.until = until /\ saved.org = before.org
       /\ saved.inserted = before.inserted
  BY <1>8
<1>11. CASE Update(w)
  <2>1. record' = saved /\ here.pc = "update" /\ record.status # "absent"
    BY <1>2, <1>9, <1>11 DEF Update, WorkOf
  <2>2. QED BY <1>1, <1>2, <1>3, <1>5, <1>6, <1>7, <1>10, <2>1 DEF RecordOK, Written
<1>12. CASE Insert(w) /\ TransactionFree
  <2>1. PICK org \in Orgs : org = here.org
    BY <1>2, <1>12 DEF Insert, WorkOf
  <2>2. PICK new : new = [saved EXCEPT !.org = org, !.inserted = writer]
    OBVIOUS
  <2>3. record' = new /\ here.pc = "insert" /\ record.status = "absent"
    BY <1>2, <1>7, <1>9, <1>12, <2>1, <2>2 DEF Insert, TransactionFree
  <2>4. /\ new \in [status : {"live"}, org : Orgs, until : Untils, by : Writers,
                    inserted : Writers]
        /\ new.by = writer /\ new.until = until /\ new.org = org /\ new.inserted = writer
    BY <1>10, <2>2
  <2>5. QED BY <1>2, <1>3, <1>6, <1>7, <2>1, <2>3, <2>4, LegacyBounds DEF RecordOK, Written
<1>13. CASE Insert(w) /\ ~TransactionFree
  <2>1. Leave(w, Thrown(w)) /\ record' = record /\ worker[w].pc # "idle"
    BY <1>13 DEF Insert
  <2>2. QED BY <1>1, <2>1, Throws DEF RecordOK
<1>14. QED BY <1>11, <1>12, <1>13

(* Nothing else but a deletion changes the record.                            *)
LEMMA RecordSteps ==
    ASSUME TypeInv, [Next]_vars
    PROVE  /\ RecordOK'
           /\ \/ record' = record
              \/ Delete /\ record' = [record EXCEPT !.status = "deleted"]
                     /\ record.status = "live"
              \/ \E w \in Workers : /\ Written(w) /\ WorkStep(w)
                                    /\ Insert(w) \/ Update(w)
<1>1. RecordOK
  BY DEF TypeInv, TypeOK, RecordOK
<1>2. CASE record' = record
  BY <1>1, <1>2 DEF RecordOK
<1>3. CASE Delete
  <2>1. record' = [record EXCEPT !.status = "deleted"] /\ record.status = "live"
    BY <1>3 DEF Delete
  <2>2. RecordOK'
    BY <1>1, <2>1 DEF RecordOK
  <2>3. QED BY <1>3, <2>1, <2>2
<1>4. ASSUME NEW w \in Workers, WorkStep(w), Insert(w) \/ Update(w)
      PROVE  RecordOK' /\ (Written(w) \/ record' = record)
  BY <1>4, Writes
<1>5. QED BY <1>2, <1>3, <1>4, StepKinds, ShopSteps, Starts, WorkSteps
          DEF ShopGrows, Deliver, vars

(* What a worker brings stays true while others, and the shop, go on.         *)
LEMMA WorkInvStep == TypeInv /\ [Next]_vars => WorkInv'
<1> SUFFICES ASSUME TypeInv, [Next]_vars, NEW v \in Workers
             PROVE  WorkOf(worker[v])'
    BY DEF WorkInv
<1>0. /\ WorkOf(worker[v]) /\ worker[v] \in AtWork
      /\ record.status # "absent" => record'.status # "absent"
  BY WorkerFacts, RecordSteps DEF TypeInv, TypeOK, WorkInv, Written, RecordOK
<1>1. CASE UNCHANGED <<shop, worker>>
  BY <1>0, <1>1 DEF WorkOf, Brings
<1>2. CASE ShopStep
  <2>1. ShopGrows
    BY <1>2, ShopSteps
  <2>2. CASE session = NoSession
    <3>1. worker'[v] = Resting
      BY <2>1, <2>2, WorkerFacts DEF TypeInv, ShopInv, ShopGrows
    <3>2. QED BY <3>1 DEF WorkOf, Resting
  <2>3. CASE session # NoSession
    <3>1. UNCHANGED <<session, reference, worker>> /\ stripe.period <= stripe'.period
          /\ stripe.period \in Nat /\ stripe'.period \in Nat
      BY <2>1, <2>3, LegacyBounds DEF ShopGrows, ShopTypeOK, TypeInv, TypeOK
    <3>2. \A i \in DOMAIN worker[v].untils : worker[v].untils[i] \in Nat
      BY <1>0, LegacyBounds, LenProperties, ElementOfSeq DEF AtWork, Untils, Forever
    <3>3. Brings(worker[v]) => Brings(worker[v])'
      BY <3>1, <3>2 DEF Brings
    <3>4. QED BY <1>0, <3>1, <3>3 DEF WorkOf
  <2>4. QED BY <2>2, <2>3
<1>3. ASSUME NEW w \in Workers, NEW j \in DOMAIN jobs, Start(w, j)
      PROVE  WorkOf(worker[v])'
  <2>1. CASE v = w
    BY <1>3, <2>1, Starts DEF WorkOf
  <2>2. CASE v # w
    <3>1. worker'[v] = worker[v] /\ UNCHANGED <<shop, record>>
      BY <1>3, <2>2, Starts DEF TypeInv, QueueInv
    <3>2. QED BY <1>0, <3>1 DEF WorkOf, Brings
  <2>3. QED BY <2>1, <2>2
<1>4. ASSUME NEW w \in Workers, WorkStep(w)
      PROVE  WorkOf(worker[v])'
  <2>1. UNCHANGED shop /\ (GoesAway(w) \/ GoesOn(w))
    BY <1>4, WorkSteps
  <2>2. CASE v = w
    <3>1. CASE GoesAway(w)
      <4>1. worker'[v] = Resting
        BY <2>2, <3>1 DEF GoesAway, TypeInv, QueueInv
      <4>2. QED BY <4>1 DEF WorkOf, Resting
    <3>2. QED BY <2>1, <2>2, <3>1 DEF GoesOn
  <2>3. CASE v # w
    <3>1. worker'[v] = worker[v]
      BY <2>1, <2>3 DEF GoesAway, GoesOn, TypeInv, QueueInv
    <3>2. QED BY <1>0, <2>1, <3>1 DEF WorkOf, Brings
  <2>4. QED BY <2>2, <2>3
<1>5. QED BY <1>1, <1>2, <1>3, <1>4, StepKinds DEF Deliver, Delete, vars

(* The purchase's own organisation.                                           *)
LEMMA OwnStep == TypeInv /\ OwnOrganisation /\ [Next]_vars => OwnOrganisation'
<1> SUFFICES ASSUME TypeInv, OwnOrganisation, [Next]_vars,
                    record'.status # "absent", session'.cites = "ours", reference' \in Orgs
             PROVE  record'.org = reference' \/ record'.inserted = "admin"
    BY DEF OwnOrganisation
<1>1. RecordOK
  BY DEF TypeInv, TypeOK, RecordOK
<1>2. UNCHANGED <<session, reference>> \/ (session = NoSession /\ ShopStep)
  BY StepKinds, ShopSteps, Starts, WorkSteps DEF ShopGrows, Deliver, Delete, vars
<1>3. ASSUME NEW w \in Workers, Written(w), WorkStep(w)
      PROVE  record'.org = reference' \/ record'.inserted = "admin"
  <2>1. UNCHANGED shop /\ WorkOf(worker[w])
    BY <1>3, WorkSteps DEF TypeInv, WorkInv
  <2>2. QED BY <1>3, <2>1 DEF Written, WorkOf, Writer, OwnOrganisation
<1>4. CASE record' = record
  <2>1. session # NoSession
    BY <1>4 DEF TypeInv, ShopInv
  <2>2. QED BY <1>2, <1>4, <2>1 DEF OwnOrganisation
<1>5. CASE Delete /\ record' = [record EXCEPT !.status = "deleted"] /\ record.status = "live"
  BY <1>1, <1>5 DEF RecordOK, Delete, OwnOrganisation
<1>6. QED BY <1>3, <1>4, <1>5, RecordSteps

(* The validity a worker brings is billed, and periods only grow.             *)
LEMMA LastsStep == TypeInv /\ LastsInv /\ [Next]_vars => LastsInv'
<1> SUFFICES ASSUME TypeInv, LastsInv, [Next]_vars
             PROVE  LastsInv'
    OBVIOUS
<1>1. RecordOK /\ RecordOK' /\ stripe.period \in Nat
  BY RecordSteps DEF TypeInv, TypeOK, RecordOK
<1>2. \/ UNCHANGED <<session, stripe>>
      \/ session = NoSession
      \/ session' = session /\ stripe.period <= stripe'.period /\ stripe'.period \in Nat
  <2>1. CASE ShopStep
    <3>1. ShopGrows
      BY <2>1, ShopSteps
    <3>2. stripe'.period \in Nat
      BY <3>1, LegacyBounds DEF ShopGrows, ShopTypeOK
    <3>3. QED BY <3>1, <3>2 DEF ShopGrows
  <2>2. CASE ~ShopStep
    BY <2>2, StepKinds, Starts, WorkSteps DEF Deliver, Delete, vars
  <2>3. QED BY <2>1, <2>2
<1>3. record.until \in Nat
  BY <1>1, LegacyBounds DEF RecordOK, Untils, Forever
<1>4. ASSUME NEW w \in Workers, Written(w), WorkStep(w)
      PROVE  LastsInv'
  <2>1. UNCHANGED shop
    BY <1>4, WorkSteps
  <2>2. record'.by = "stripe" => worker[w].job # 0
    BY <1>4 DEF Written, Writer
  <2>3. QED BY <1>4, <2>1, <2>2 DEF Written, Brings, LastsInv, NoLifetime
<1>5. CASE record' = record
  <2>1. session = NoSession => record.by # "stripe"
    BY DEF TypeInv, ShopInv, LastsInv
  <2>2. CASE session = NoSession
    BY <1>5, <2>1, <2>2 DEF LastsInv, NoLifetime
  <2>3. CASE session # NoSession
    BY <1>1, <1>2, <1>3, <1>5, <2>3 DEF LastsInv, NoLifetime
  <2>4. QED BY <2>2, <2>3
<1>6. CASE Delete /\ record' = [record EXCEPT !.status = "deleted"] /\ record.status = "live"
  BY <1>1, <1>6 DEF RecordOK, Delete, LastsInv, NoLifetime
<1>7. QED BY <1>4, <1>5, <1>6, RecordSteps

(* The announcement.                                                          *)
LEMMA ToldStep == TypeInv /\ ToldInv /\ [Next]_vars => ToldInv'
<1> SUFFICES ASSUME TypeInv, ToldInv, [Next]_vars
             PROVE  ToldInv'
    OBVIOUS
<1>1. RecordOK /\ worker \in [Workers -> AtWork]
  BY DEF TypeInv, TypeOK, RecordOK, QueueInv
<1>2. CASE UNCHANGED <<record, told, worker>>
  BY <1>2 DEF ToldInv, ToldOnce
<1>3. CASE Delete
  <2>1. record'.status = "deleted" /\ UNCHANGED <<told, worker>> /\ record.status = "live"
    BY <1>1, <1>3 DEF Delete, RecordOK
  <2>2. QED BY <2>1 DEF ToldInv, ToldOnce
<1>4. ASSUME NEW w \in Workers, NEW j \in DOMAIN jobs, Start(w, j)
      PROVE  ToldInv'
  <2>1. /\ UNCHANGED <<record, told>> /\ worker'[w].pc # "tell"
        /\ \A v \in Workers \ {w} : worker'[v] = worker[v]
    BY <1>1, <1>4, Starts
  <2>2. QED BY <2>1 DEF ToldInv, ToldOnce
<1>5. ASSUME NEW w \in Workers, WorkStep(w)
      PROVE  ToldInv'
  <2>1. \A v \in Workers \ {w} : worker'[v] = worker[v]
    BY <1>1, <1>5, WorkSteps DEF GoesAway, GoesOn
  <2>2. CASE worker'[w].pc = "tell"
    <3>1. Insert(w) /\ worker'[w].pc # "idle"
      BY <1>5, <2>2, WorkSteps
    <3>2. ~GoesAway(w)
      BY <1>1, <2>2 DEF GoesAway, Resting
    <3>3. Written(w) /\ record.status = "absent" /\ told' = told
      BY <3>1, <3>2, Writes, InsertSteps DEF Insert
    <3>4. QED BY <2>1, <2>2, <3>3 DEF ToldInv, ToldOnce, Written
  <2>3. CASE Tell(w)
    <3>1. /\ worker[w].pc = "tell" /\ told' = told + 1 /\ record' = record
          /\ worker'[w].pc # "tell"
      BY <2>3, <1>5, WorkSteps DEF Tell, Insert
    <3>2. told = 0 /\ record.status # "absent"
          /\ \A v \in Workers \ {w} : worker[v].pc # "tell"
      BY <3>1 DEF ToldInv
    <3>3. QED BY <2>1, <3>1, <3>2 DEF ToldInv, ToldOnce
  <2>4. CASE worker'[w].pc # "tell" /\ ~Tell(w)
    <3>1. told' = told
      BY <1>5, <2>4, WorkSteps
    <3>2. record'.status = "absent" => record.status = "absent"
      BY <1>1, RecordSteps DEF Written, Delete, RecordOK
    <3>3. QED BY <2>1, <2>4, <3>1, <3>2 DEF ToldInv, ToldOnce
  <2>5. QED BY <2>2, <2>3, <2>4
<1>6. QED BY <1>2, <1>3, <1>4, <1>5, StepKinds, ShopSteps DEF ShopGrows, Deliver, vars

(* Jobs complete with the announcement, which is never taken back.            *)
LEMMA CompletedStep ==
    TypeInv /\ ToldInv /\ CompletedWasTold /\ [Next]_vars => CompletedWasTold'
<1> SUFFICES ASSUME TypeInv, ToldInv, CompletedWasTold, [Next]_vars,
                    NEW k \in DOMAIN jobs', jobs'[k].status = "completed",
                    jobs'[k].type \in {"completed", "async"}
             PROVE  told' > 0
    BY DEF CompletedWasTold
<1>0. told \in Nat /\ jobs \in Seq(Job)
  BY DEF TypeInv, TypeOK, QueueInv
<1>1. told' = told \/ told' = told + 1
  BY StepKinds, ShopSteps, Starts, WorkSteps DEF ShopGrows, Deliver, Delete, Tell, vars
<1>2. CASE k \in DOMAIN jobs /\ jobs'[k] = jobs[k]
  BY <1>0, <1>1, <1>2 DEF CompletedWasTold
<1>3. ASSUME NEW type \in Types, Deliver(type)
      PROVE  k \in DOMAIN jobs /\ jobs'[k] = jobs[k]
  <2>1. PICK job \in Job : jobs' = Append(jobs, job) /\ job.status = "waiting"
    BY <1>3, LegacyBounds DEF Deliver, Job
  <2>2. /\ \A j \in 1..Len(jobs) : jobs'[j] = jobs[j]
        /\ jobs'[Len(jobs) + 1] = job /\ Len(jobs) \in Nat
        /\ DOMAIN jobs' = 1..(Len(jobs) + 1) /\ DOMAIN jobs = 1..Len(jobs)
    BY <1>0, <2>1, AppendProperties, LenProperties
  <2>3. k # Len(jobs) + 1
    BY <2>1, <2>2
  <2>4. QED BY <2>2, <2>3
<1>4. ASSUME NEW w \in Workers, NEW j \in DOMAIN jobs, Start(w, j)
      PROVE  k \in DOMAIN jobs /\ jobs'[k] = jobs[k]
  BY <1>0, <1>4, Starts, ExceptSeq
<1>5. ASSUME NEW w \in Workers, WorkStep(w)
      PROVE  told' > 0
  <2>1. CASE jobs' = jobs
    BY <1>2, <2>1
  <2>2. ASSUME NEW job \in Job, Left(worker[w].job, job), worker[w].job # 0,
               jobs' = [jobs EXCEPT ![worker[w].job] = job],
               job.status = "completed" => Tell(w) \/ job.type = "completedUnpaid"
        PROVE  told' > 0
    <3>1. worker[w].job \in DOMAIN jobs
      BY <2>2, WorkerFacts
    <3>2. k \in DOMAIN jobs /\ (k # worker[w].job => jobs'[k] = jobs[k])
          /\ (k = worker[w].job => jobs'[k] = job)
      BY <1>0, <2>2, <3>1, ExceptSeq
    <3>3. Tell(w) => told' > 0
      BY <1>0 DEF Tell
    <3>4. QED BY <1>2, <2>2, <3>2, <3>3
  <2>3. QED BY <1>5, <2>1, <2>2, WorkSteps DEF GoesAway, GoesOn
<1>6. QED BY <1>2, <1>3, <1>4, <1>5, StepKinds, ShopSteps DEF ShopGrows, Delete, vars

(* Every step keeps the types; that the purchase is told once bounds what is  *)
(* told.                                                                      *)
LEMMA TypeStep == TypeInv /\ ToldInv /\ [Next]_vars => TypeInv'
<1> SUFFICES ASSUME TypeInv, ToldInv, [Next]_vars
             PROVE  TypeInv'
    OBVIOUS
<1>1. QueueInv' /\ CrewOK' /\ RecordOK' /\ WorkInv' /\ ToldInv'
  BY CrewStep, RecordSteps, WorkInvStep, ToldStep
<1>2. ShopTypeOK /\ ShopInv /\ told \in 0..2 /\ manual \in 0..MaxManual
  BY DEF TypeInv, TypeOK, ShopTypeOK
<1>3. ShopTypeOK'
  <2>1. ShopGrows \/ UNCHANGED shop
    BY StepKinds, ShopSteps, Starts, WorkSteps DEF Deliver, Delete, vars
  <2>2. QED BY <1>2, <2>1 DEF ShopGrows, ShopTypeOK
<1>4. ShopInv'
  <2>1. CASE ShopStep
    BY <2>1, ShopSteps DEF ShopGrows
  <2>2. CASE ~ShopStep
    <3>1. UNCHANGED shop
      BY <2>2, StepKinds, Starts, WorkSteps DEF Deliver, Delete, vars
    <3>2. ASSUME session = NoSession
          PROVE  UNCHANGED <<record, worker>>
      <4>1. jobs = <<>>
        <5>1. \A j \in DOMAIN jobs : FALSE
          BY <1>2, <3>2 DEF ShopInv, TypeInv, QueueInv
        <5>2. QED BY <5>1, WorkerFacts, EmptySeq DEF TypeInv, QueueInv
      <4>2. ASSUME NEW w \in Workers, WorkStep(w)
            PROVE  FALSE
        <5>1. worker[w] = Resting
          BY <1>2, <3>2, WorkerFacts DEF ShopInv
        <5>2. QED BY <3>2, <4>2, <5>1 DEF WorkStep, AddSubscription, Retrieve, Find, Insert,
                     Update, Tell, Fail, Crash, Resting
      <4>3. ~Delete
        BY <1>2, <3>2 DEF ShopInv, Delete
      <4>4. QED BY <2>2, <4>1, <4>2, <4>3, StepKinds DEF Deliver, vars
    <3>3. QED BY <1>2, <3>1, <3>2 DEF ShopInv
  <2>3. QED BY <2>1, <2>2
<1>5. told' \in 0..2
  <2>1. told' = told \/ told' = told + 1
    BY StepKinds, ShopSteps, Starts, WorkSteps DEF ShopGrows, Deliver, Delete, Tell, vars
  <2>2. QED BY <1>1, <1>2, <2>1 DEF ToldInv, ToldOnce
<1>6. manual' \in 0..MaxManual
  <2>1. ASSUME NEW w \in Workers, WorkStep(w)
        PROVE  manual' = manual \/ (manual < MaxManual /\ manual' = manual + 1)
    BY <2>1 DEF WorkStep, AddSubscription, Retrieve, Find, Insert, Update, Tell, Fail, Crash
  <2>2. manual' = manual \/ (manual < MaxManual /\ manual' = manual + 1)
    BY <2>1, StepKinds, ShopSteps DEF ShopGrows, Deliver, Start, Delete, vars
  <2>3. QED BY <1>2, <2>2, LegacyBounds
<1>7. TypeOK'
  <2>1. \A w \in Workers : /\ worker'[w].pc \in Steps /\ worker'[w].org \in Orgs \cup {None}
    BY <1>1 DEF QueueInv, AtWork
  <2>2. \A j \in DOMAIN jobs' : jobs'[j] \in Job
    BY <1>1, LenProperties, ElementOfSeq DEF QueueInv
  <2>3. QED BY <1>1, <1>3, <1>5, <1>6, <2>1, <2>2
            DEF TypeOK, ShopTypeOK, CrewOK, RecordOK, Steps, Job
<1>8. QED BY <1>1, <1>4, <1>7 DEF TypeInv

(* A record that was revoked becomes valid again only as EndedStays says.     *)
LEMMA EndedStep ==
    ASSUME TypeInv, [Next]_vars, record.status # "absent", record.until = Revoked,
           record'.until # Revoked
    PROVE  \/ record'.by = "admin"
           \/ \E w \in Workers :
                 /\ worker[w].pc = "update" /\ worker'[w] # worker[w]
                 /\ worker[w].checkout \/ worker[w].running
<1>1. PICK w \in Workers : Written(w) /\ WorkStep(w) /\ (Insert(w) \/ Update(w))
  BY RecordSteps DEF TypeInv, TypeOK
<1>2. worker[w].pc = "update"
  BY <1>1 DEF Written
<1>3. worker[w].job = 0 => record'.by = "admin"
  BY <1>1 DEF Written, Writer
<1>4. worker[w].job # 0 => worker[w].checkout \/ worker[w].running
  BY <1>1 DEF Written, Brings
<1>5. worker'[w] # worker[w]
  <2>1. worker'[w] = Resting
    BY <1>1, <1>2 DEF Insert, Update, Leave, TypeInv, QueueInv
  <2>2. QED BY <1>2, <2>1 DEF Resting
<1>6. QED BY <1>2, <1>3, <1>4, <1>5

-----------------------------------------------------------------------------
(* The theorems.                                                             *)

(* The invariant holds initially, and every step keeps it.                    *)
LEMMA Inductive == (Init => IInv) /\ (IInv /\ [Next]_vars => IInv')
<1>1. ASSUME Init PROVE IInv
  <2>1. /\ worker = [w \in Workers |-> Resting] /\ jobs = <<>> /\ Len(jobs) = 0
        /\ DOMAIN jobs = {} /\ jobs \in Seq(Job)
    BY <1>1, EmptySeq, LenProperties DEF Init
  <2>2. Resting \in AtWork /\ Resting.pc = "idle" /\ Resting.job = 0 /\ Resting.org = None
    BY EmptySeq DEF Resting, AtWork, Steps
  <2>3. /\ session = NoSession /\ reference = "absent" /\ emitted = {} /\ told = 0 /\ manual = 0
        /\ stripe = [status |-> "none", period |-> 0, paid |-> FALSE] /\ record = NoRecord
    BY <1>1 DEF Init
  <2>4. TypeOK
    <3>1. record \in [status : {"absent", "live", "deleted"}, org : Orgs \cup {None},
                      until : Untils, by : Writers, inserted : Writers]
          /\ record.status = "absent" /\ record.org = None
      BY <2>3, LegacyBounds DEF NoRecord, Untils, Revoked, Forever, Writers
    <3>2. QED BY <2>1, <2>2, <2>3, <3>1, LegacyBounds DEF TypeOK
  <2>5. QueueInv
    BY <2>1, <2>2 DEF QueueInv
  <2>6. ShopInv /\ WorkInv
    BY <2>1, <2>2, <2>3 DEF ShopInv, WorkInv, WorkOf, NoRecord
  <2>7. OwnOrganisation /\ LastsInv /\ ToldInv /\ CompletedWasTold
    BY <2>1, <2>2, <2>3 DEF OwnOrganisation, LastsInv, NoLifetime, ToldInv, ToldOnce,
       CompletedWasTold, NoRecord, NoSession
  <2>8. QED BY <2>4, <2>5, <2>6, <2>7 DEF IInv, TypeInv
<1>2. ASSUME IInv, [Next]_vars PROVE IInv'
  BY <1>2, TypeStep, OwnStep, LastsStep, ToldStep, CompletedStep DEF IInv
<1>3. QED BY <1>1, <1>2

(* So it always holds.                                                        *)
LEMMA Invariance == Spec => []IInv
BY Inductive, PTL DEF Spec

(* Every variable keeps to its type; a job is active exactly while a worker   *)
(* holds it.                                                                  *)
THEOREM TypeCorrect == Spec => []TypeOK
<1>1. IInv => TypeOK
  BY DEF IInv, TypeInv
<1>2. QED BY <1>1, Invariance, PTL

(* A purchase whose reference names an organisation is recorded for that one, *)
(* unless an administrator inserted the record (save).                        *)
THEOREM OwnCorrect == Spec => []OwnOrganisation
<1>1. IInv => OwnOrganisation
  BY DEF IInv
<1>2. QED BY <1>1, Invariance, PTL

(* What is bought with a subscription lasts no longer than the period that    *)
(* Stripe has billed (mapPaymentType, mapNewValidUntil).                      *)
THEOREM LifetimeCorrect == Spec => []NoLifetime
<1>1. IInv => NoLifetime
  BY DEF IInv, LastsInv
<1>2. QED BY <1>1, Invariance, PTL

(* One purchase is announced as active once (save).                           *)
THEOREM ToldCorrect == Spec => []ToldOnce
<1>1. IInv => ToldOnce
  BY DEF IInv, ToldInv
<1>2. QED BY <1>1, Invariance, PTL

(* The job of a paid checkout completes only after the purchase has been      *)
(* announced (process, save).                                                 *)
THEOREM CompletedCorrect == Spec => []CompletedWasTold
<1>1. IInv => CompletedWasTold
  BY DEF IInv
<1>2. QED BY <1>1, Invariance, PTL

(* A revoked record is valid again only through a checkout event, a worker    *)
(* that found the subscription running, or an administrator (save).           *)
THEOREM EndedCorrect == Spec => EndedStays
<1>1. IInv /\ [Next]_vars =>
         [(record.status # "absent" /\ record.until = Revoked /\ record'.until # Revoked)
            => \/ record'.by = "admin"
               \/ \E w \in Workers :
                     /\ worker[w].pc = "update" /\ worker'[w] # worker[w]
                     /\ worker[w].checkout \/ worker[w].running]_vars
  BY EndedStep DEF IInv
<1>2. QED BY <1>1, Invariance, PTL DEF Spec, EndedStays
=============================================================================

---------------------------- MODULE LegacyPayments ----------------------------
(***************************************************************************)
(* One purchase through the deprecated Stripe client: StripeCheckoutService *)
(* saves a payment reference and opens a session; StripeWebhookHandler puts *)
(* every delivery of an event on a queue, without a job id; the workers of  *)
(* QueuedPaymentEventHandler retrieve what Stripe has by now, map it to     *)
(* records (SubscriptionRecordMapper) and save them                         *)
(* (OrganisationSubscriptionService), as an administrator does by hand.     *)
(*                                                                          *)
(* All line items of a purchase share its transaction id, so there is one   *)
(* record.  Stripe, BullMQ and TypeORM are external: a where clause on an   *)
(* undefined column is dropped, and finds the first organisation there is.  *)
(* Audit rows, which nothing but a listing reads, are left out.             *)
(***************************************************************************)
EXTENDS Naturals, Sequences, FiniteSets

CONSTANTS
    Orgs, FirstOrg,   \* organisations, and the one an empty query finds
    None,             \* no organisation
    Workers,          \* workers, and requests of administrators, at once
    MaxAttempts,      \* attempts of a job, 2 in the code
    MaxStalls,        \* BullMQ's maxStalledCount, 1 by default
    MaxPeriod,        \* bound: billing periods
    MaxJobs,          \* bound: deliveries
    MaxManual         \* bound: what administrators add and delete

ASSUME LegacyBounds ==
    /\ FirstOrg \in Orgs /\ None \notin Orgs
    /\ MaxAttempts \in Nat \ {0} /\ MaxStalls \in Nat
    /\ MaxPeriod \in Nat \ {0} /\ MaxJobs \in Nat /\ MaxManual \in Nat

VARIABLES
    reference,   \* the payment reference: "absent", its organisation or None
    session,     \* the Stripe session: mode, line items, what it refers to
    stripe,      \* the subscription at Stripe: status and period
    emitted,     \* types of the events Stripe has emitted
    jobs,        \* jobs: type, status, attempts and stalls so far
    record,      \* the subscription record
    told,        \* activations announced
    worker,      \* where each worker is and what it has read
    manual       \* subscriptions added and deleted by hand

shop == <<reference, session, stripe, emitted>>
vars == <<shop, jobs, record, told, worker, manual>>

\* Event types the handler acts on; it ignores the others.
Types  == {"completed", "completedUnpaid", "async", "updated", "deleted"}
Prices == {"recurring", "once"}

\* The validity of a record: revoked (now), until the end of a period and two
\* days, or for 500 years.
Revoked == 0
Forever == MaxPeriod + 1
Untils  == 0..Forever

\* Who has written the record last, and who has inserted it.
Writers == {"nobody", "stripe", "admin"}

\* The line items a session may have, by its mode.
Carts == [payment |-> {<<"once">>},
          subscription |-> {<<"recurring">>, <<"once", "recurring">>}]

NoSession == [mode |-> "none", items |-> <<>>, cites |-> "nothing"]
NoRecord  == [status |-> "absent", org |-> None, until |-> Revoked,
              by |-> "nobody", inserted |-> "nobody"]

\* A worker: its job (0 for a request), the organisation it was given or found,
\* the validity of each line item, the item it is at, whether its type names a
\* reference, and whether Stripe's subscription was running when retrieved.
Resting == [pc |-> "idle", job |-> 0, org |-> None, untils |-> <<>>, item |-> 1,
            checkout |-> FALSE, running |-> FALSE]

TypeOK ==
    /\ reference \in {"absent", None} \cup Orgs
    /\ session = NoSession \/
          /\ session.mode \in DOMAIN Carts
          /\ session.items \in Carts[session.mode]
          /\ session.cites \in {"ours", "unknown", "nothing"}
    /\ stripe \in [status : {"none", "active", "pastDue", "canceled"},
                   period : 0..MaxPeriod, paid : BOOLEAN]
    /\ emitted \subseteq Types
    /\ Len(jobs) <= MaxJobs
    /\ \A j \in DOMAIN jobs : jobs[j] \in
          [type : Types, status : {"waiting", "active", "completed", "failed"},
           tries : 0..MaxAttempts, stalls : 0..MaxStalls]
    /\ record \in [status : {"absent", "live", "deleted"}, org : Orgs \cup {None},
                   until : Untils, by : Writers, inserted : Writers]
    /\ record.status = "absent" <=> record.org = None
    /\ told \in 0..2
    /\ manual \in 0..MaxManual
    /\ \A w \in Workers :
          /\ worker[w].pc \in {"idle", "retrieve", "find", "insert", "update", "tell"}
          /\ worker[w].job \in 0..Len(jobs)
          /\ worker[w].org \in Orgs \cup {None}
          /\ worker[w].pc = "idle" => worker[w] = Resting
    /\ \A j \in DOMAIN jobs : jobs[j].status = "active"
          <=> \E w \in Workers : worker[w].job = j

Init ==
    /\ reference = "absent"
    /\ session = NoSession
    /\ stripe = [status |-> "none", period |-> 0, paid |-> FALSE]
    /\ emitted = {}
    /\ jobs = <<>>
    /\ record = NoRecord
    /\ told = 0
    /\ worker = [w \in Workers |-> Resting]
    /\ manual = 0

-----------------------------------------------------------------------------
(* Checkout, Stripe and the webhook.                                       *)

\* createSession saves the reference.
CreateReference(org) ==
    /\ reference = "absent" /\ session = NoSession
    /\ reference' = org
    /\ UNCHANGED <<session, stripe, emitted, jobs, record, told, worker, manual>>

\* AuthStripeCheckoutService: an owner, for an organisation of his own.
OwnerCheckout(org) == org \in Orgs /\ CreateReference(org)

\* StripeUnauthenticatedCheckoutController: for any organisation, or none.
AnonymousCheckout(org) == CreateReference(org)

\* createCheckoutSession opens the session with the reference; sessions of the
\* same Stripe account that this application did not open name another, or none.
OpenSession(mode, items, cites) ==
    /\ session = NoSession
    /\ cites = "ours" <=> reference # "absent"
    /\ items \in Carts[mode]
    /\ session' = [mode |-> mode, items |-> items, cites |-> cites]
    /\ UNCHANGED <<reference, stripe, emitted, jobs, record, told, worker, manual>>

Emit(type) == emitted' = emitted \cup {type}

\* The session completes, paid or still to be paid.
Complete(paid) ==
    /\ session # NoSession
    /\ stripe.period = 0
    /\ stripe' = [status |-> IF session.mode = "subscription" THEN "active" ELSE "none",
                  period |-> 1, paid |-> paid]
    /\ Emit(IF paid THEN "completed" ELSE "completedUnpaid")
    /\ UNCHANGED <<reference, session, jobs, record, told, worker, manual>>

PaidLater ==
    /\ stripe.period # 0 /\ ~stripe.paid
    /\ stripe' = [stripe EXCEPT !.paid = TRUE]
    /\ Emit("async")
    /\ UNCHANGED <<reference, session, jobs, record, told, worker, manual>>

\* The subscription is renewed, falls behind, recovers, or ends.
Change(status, period) ==
    /\ stripe.status \in {"active", "pastDue"}
    /\ period \in {stripe.period, stripe.period + 1} /\ period <= MaxPeriod
    /\ <<status, period>> # <<stripe.status, stripe.period>>
    /\ stripe' = [stripe EXCEPT !.status = status, !.period = period]
    /\ Emit(IF status = "canceled" THEN "deleted" ELSE "updated")
    /\ UNCHANGED <<reference, session, jobs, record, told, worker, manual>>

\* handleWebhook: each delivery, first or repeated, early or late, is a new job.
Deliver(type) ==
    /\ type \in emitted
    /\ Len(jobs) < MaxJobs
    /\ jobs' = Append(jobs, [type |-> type, status |-> "waiting",
                             tries |-> 0, stalls |-> 0])
    /\ UNCHANGED <<shop, record, told, worker, manual>>

-----------------------------------------------------------------------------
(* SubscriptionRecordMapper.                                               *)

\* Mutant: the mode of the session is not looked at.
MapByPrice(price) == IF price = "recurring" THEN "subscription" ELSE "payment"

\* mapPaymentType
PaymentType(price) ==
    IF price = "recurring" \/ session.mode = "subscription"
    THEN "subscription" ELSE "payment"

\* mapNewValidUntil
NewValidUntil(type, isActive) ==
    CASE type = "payment" -> Forever
      [] type = "subscription" /\ isActive -> stripe.period
      [] OTHER -> Revoked

\* mapCheckoutSessionToSubRecord: whatever has become of the subscription.
MapSession ==
    [i \in DOMAIN session.items |->
        NewValidUntil(PaymentType(session.items[i]), TRUE)]

\* The subscription has the recurring items of its session.
SubscriptionItems ==
    {i \in DOMAIN session.items : session.items[i] = "recurring"}

\* mapSubscriptionToSubRecord, for each of them.
MapSubscription(isActive) ==
    [i \in 1..Cardinality(SubscriptionItems) |-> NewValidUntil("subscription", isActive)]

-----------------------------------------------------------------------------
(* QueuedPaymentEventHandler.process.                                      *)

Start(w, j) ==
    /\ worker[w].pc = "idle"
    /\ jobs[j].status = "waiting"
    /\ jobs' = [jobs EXCEPT ![j].status = "active"]
    /\ worker' = [worker EXCEPT ![w].pc = "retrieve", ![w].job = j]
    /\ UNCHANGED <<shop, record, told, manual>>

\* The worker leaves its job, or the request its handler.
Leave(w, finished) ==
    /\ jobs' = IF worker[w].job = 0 THEN jobs
               ELSE [jobs EXCEPT ![worker[w].job] = finished]
    /\ worker' = [worker EXCEPT ![w] = Resting]

Finished(w) == [jobs[worker[w].job] EXCEPT !.status = "completed"]

\* A job that throws is tried again at once, until its attempts are spent.
Thrown(w) ==
    LET job == jobs[worker[w].job] IN
    [job EXCEPT !.tries = @ + 1,
                !.status = IF job.tries + 1 < MaxAttempts THEN "waiting" ELSE "failed"]

\* Mutant: an updated subscription is taken to be running.
RunningUnlessDeleted == TRUE

Running == stripe.status = "active"

\* What is saved for an event: the session's line items, or the subscription's,
\* revoked once it is deleted or no longer runs.
UntilsFor(type) ==
    CASE type \in {"completed", "async"} -> MapSession
      [] type = "updated"               -> MapSubscription(Running)
      [] OTHER                          -> MapSubscription(FALSE)

\* The session or the subscription is retrieved as it is now, and mapped.
Retrieve(w) ==
    LET type == jobs[worker[w].job].type IN
    /\ worker[w].pc = "retrieve"
    /\ IF type = "completedUnpaid"
       THEN Leave(w, Finished(w))
       ELSE /\ worker' = [worker EXCEPT ![w].pc = "find", ![w].untils = UntilsFor(type),
                             ![w].checkout = type \in {"completed", "async"},
                             ![w].running = stripe.status = "active"]
            /\ UNCHANGED jobs
    /\ UNCHANGED <<shop, record, told, manual>>

\* addSubscription of an administrator, for the organisation of his choice.
AddSubscription(w, org, until) ==
    /\ worker[w].pc = "idle"
    /\ session # NoSession
    /\ manual < MaxManual /\ manual' = manual + 1
    /\ worker' = [worker EXCEPT ![w].pc = "find", ![w].org = org,
                                ![w].untils = <<until>>]
    /\ UNCHANGED <<shop, jobs, record, told>>

-----------------------------------------------------------------------------
(* OrganisationSubscriptionService.                                        *)

\* Mutant: the organisation is not looked up by the reference.
AnyOrganisation(w) == FirstOrg

\* The organisation of the request, or the one the reference names; without a
\* reference, or one that names none, whichever is first.
OrganisationFor(w) ==
    IF worker[w].job = 0 THEN worker[w].org
    ELSE IF session.cites = "ours" /\ reference \in Orgs THEN reference ELSE FirstOrg

\* save, for one line item: the record that is not deleted is looked for, and
\* the organisation if there is none.
Find(w) ==
    LET here == worker[w] IN
    /\ here.pc = "find"
    /\ \/ /\ record.status = "live"
          /\ worker' = [worker EXCEPT ![w].pc = "update"]
          /\ UNCHANGED jobs
       \/ /\ record.status # "live"
          /\ here.job = 0 \/ (here.checkout /\ session.cites # "nothing")
          /\ worker' = [worker EXCEPT ![w].pc = "insert", ![w].org = OrganisationFor(w)]
          /\ UNCHANGED jobs
       \/ /\ record.status # "live"
          /\ here.job # 0 /\ ~(here.checkout /\ session.cites # "nothing")
          /\ Leave(w, Thrown(w))
    /\ UNCHANGED <<shop, record, told, manual>>

Writer(w) == IF worker[w].job = 0 THEN "admin" ELSE "stripe"

\* The columns written for the line item the worker is at.
Saved(w) ==
    [record EXCEPT !.status = "live", !.by = Writer(w),
                   !.until = worker[w].untils[worker[w].item]]

\* Mutant: the transaction id has no unique index.
Insertable == TRUE

\* Deleted records keep their transaction id too.
TransactionFree == record.status = "absent"

\* Mutant: the organisation is not set on the new record.
InsertUnowned(w) ==
    /\ worker[w].pc = "insert"
    /\ record' = [Saved(w) EXCEPT !.inserted = Writer(w)]
    /\ worker' = [worker EXCEPT ![w].pc = "tell"]
    /\ UNCHANGED <<jobs, shop, told, manual>>

\* The new record of the organisation is inserted, if its transaction id is free.
Insert(w) ==
    /\ worker[w].pc = "insert"
    /\ IF TransactionFree
       THEN /\ record' = [Saved(w) EXCEPT !.org = worker[w].org, !.inserted = Writer(w)]
            /\ worker' = [worker EXCEPT ![w].pc = "tell"]
            /\ UNCHANGED jobs
       ELSE Leave(w, Thrown(w)) /\ UNCHANGED record
    /\ UNCHANGED <<shop, told, manual>>

\* Mutant: a validity that has not changed is announced to nobody, and is no
\* error.
UpdateQuietly(w) ==
    /\ worker[w].pc = "update"
    /\ record' = Saved(w)
    /\ Leave(w, Finished(w))
    /\ UNCHANGED <<shop, told, manual>>

\* The record is written over, deleted meanwhile or not; the announcement reads
\* the organisation, which was not loaded, and throws.
Update(w) ==
    /\ worker[w].pc = "update"
    /\ record' = Saved(w)
    /\ Leave(w, Thrown(w))
    /\ UNCHANGED <<shop, told, manual>>

\* "activation-changed" is put on the queue, and the next line item is next.
Tell(w) ==
    /\ worker[w].pc = "tell"
    /\ told' = told + 1
    /\ IF worker[w].item < Len(worker[w].untils)
       THEN /\ worker' = [worker EXCEPT ![w].pc = "find", ![w].item = @ + 1]
            /\ UNCHANGED jobs
       ELSE Leave(w, Finished(w))
    /\ UNCHANGED <<shop, record, manual>>

\* Stripe, the database or the queue fails.
Fail(w) ==
    /\ worker[w].pc # "idle"
    /\ Leave(w, Thrown(w))
    /\ UNCHANGED <<shop, record, told, manual>>

\* The process dies: BullMQ puts the job back, or gives it up.
Crash(w) ==
    LET job == jobs[worker[w].job] IN
    /\ worker[w].job # 0
    /\ Leave(w, IF job.stalls < MaxStalls
                THEN [job EXCEPT !.stalls = @ + 1, !.status = "waiting"]
                ELSE [job EXCEPT !.status = "failed"])
    /\ UNCHANGED <<shop, record, told, manual>>

\* delete soft-deletes the record; what it announces is no activation.
Delete ==
    /\ record.status = "live"
    /\ manual < MaxManual /\ manual' = manual + 1
    /\ record' = [record EXCEPT !.status = "deleted"]
    /\ UNCHANGED <<shop, jobs, told, worker>>

\* What OrganisationSubscriptionsController serves to modify:all callers.
Administer(w) == Delete \/ \E org \in Orgs : AddSubscription(w, org, Forever)

Next ==
    \/ \E org \in Orgs \cup {None} : OwnerCheckout(org) \/ AnonymousCheckout(org)
    \/ \E mode \in DOMAIN Carts, cites \in {"ours", "unknown", "nothing"} :
          \E items \in Carts[mode] : OpenSession(mode, items, cites)
    \/ \E paid \in BOOLEAN : Complete(paid)
    \/ PaidLater
    \/ \E status \in {"active", "pastDue", "canceled"}, period \in 1..MaxPeriod :
          Change(status, period)
    \/ \E type \in Types : Deliver(type)
    \/ \E w \in Workers :
          \/ \E j \in DOMAIN jobs : Start(w, j)
          \/ Administer(w)
          \/ Retrieve(w) \/ Find(w) \/ Insert(w) \/ Update(w) \/ Tell(w)
          \/ Fail(w) \/ Crash(w)

Spec == Init /\ [][Next]_vars

-----------------------------------------------------------------------------
\* A purchase whose reference names an organisation is recorded for that one,
\* unless an administrator inserted the record (save, 114-147).
OwnOrganisation ==
    (record.status # "absent" /\ session.cites = "ours" /\ reference \in Orgs)
        => record.org = reference \/ record.inserted = "admin"

\* What is bought together with a subscription lasts as long as a period of it
\* that Stripe has billed, never for life (mapPaymentType, mapNewValidUntil).
NoLifetime ==
    (session.mode = "subscription" /\ record.by = "stripe")
        => record.until <= stripe.period

\* A record that was revoked is valid again only through a checkout event, a
\* worker that found the subscription running, or an administrator.
EndedStays ==
    [][(record.status # "absent" /\ record.until = Revoked /\ record'.until # Revoked)
         => \/ record'.by = "admin"
            \/ \E w \in Workers :
                  /\ worker[w].pc = "update" /\ worker'[w] # worker[w]
                  /\ worker[w].checkout \/ worker[w].running]_vars

\* One purchase is announced as active once, however often its events are
\* delivered and its jobs run (save, 158-191).
ToldOnce == told <= 1

\* A job of a paid checkout that completes has not left its purchase
\* unannounced: no retry skips what the attempt before it failed to tell.
CompletedWasTold ==
    \A j \in DOMAIN jobs :
        jobs[j].status = "completed" /\ jobs[j].type \in {"completed", "async"}
            => told > 0

\* "Failed to find organisation.  Cannot match this payment to a customer":
\* a payment is recorded for the organisation its reference names, or not at
\* all (save, 114-156).
Matched ==
    record.inserted = "stripe"
        => session.cites = "ours" /\ record.org = reference
=============================================================================

--------------------------- MODULE OneTimePayments ---------------------------
(***************************************************************************)
(* One-time payments of one Stripe customer, and what refunds and disputes *)
(* do to them: StripePaymentFulfillmentService.processCheckoutSession and  *)
(* revokeChargeEntitlement over SecureSubscriptionService.save,            *)
(* revokePayment and revokeCustomerPayments.                               *)
(*                                                                         *)
(* A refund names a charge.  The service follows the charge's payment      *)
(* intent to the checkout attempt and so to the record of the payment; if  *)
(* that leads nowhere it revokes every one-time payment of the customer.   *)
(* Events are processed in any order, several at once, and again after a   *)
(* failure or a replay; of a record that is saved, the row and its         *)
(* ordering state are one step, under the advisory lock.                   *)
(*                                                                         *)
(* Records that others insert or delete are left to SecureSubscription.    *)
(***************************************************************************)
EXTENDS Naturals, FiniteSets

CONSTANTS
    Workers,    \* workers of the "stripe-events" queue
    Payments,   \* Checkout sessions of mode "payment"
    Invoices,   \* charges of the customer's subscriptions
    Known,      \* do the sessions and charges name the customer
    None,       \* no event, no payment
    MaxEvents,  \* bound: events Stripe emits
    MaxSecond,  \* bound: seconds in which it emits them
    MaxTries    \* bound: times one event is processed, replays included

ASSUME BoundsAssumption ==
    MaxEvents \in Nat /\ MaxSecond \in Nat \ {0} /\ MaxTries \in Nat
ASSUME ChargesAssumption == Payments \cap Invoices = {} /\ Known \in BOOLEAN

GrantKinds  == {"completed", "succeeded"}
RevokeKinds == {"refunded", "disputed"}
\* An invoice's dispute does what its refund does.
Events == [charge : Payments, kind : GrantKinds \cup RevokeKinds]
              \cup [charge : Invoices, kind : {"refunded"}]

ASSUME NoneAssumption == None \notin Payments \cup Events

\* validUntil: five hundred years from a moment, or the moment itself.  No two
\* attempts at an event take it at the same millisecond.
Dates == [event : Events, try : 1..MaxTries]

VARIABLES
    traced,     \* payments whose charge leads to their checkout attempt
    paid,       \* payments whose session is paid
    created,    \* the second each event was created in, 0 if it was not
    second,     \* the second of the last event
    active,     \* "none", "granted" or "revoked": the record's validUntil
    until,      \* and the moment it was taken
    last,       \* lastStripeEventId of each payment's state
    told,       \* payments whose present validUntil has been announced
    wpc,        \* where each worker is
    wevent,     \* the event it processes
    wtodo,      \* the payments it has yet to save
    wnote,      \* the activation it has to announce
    tries,      \* how often each event was taken
    done,       \* events processed to the end since they were last taken
    missed      \* history: tries to revoke that found no record of their own

stripeVars == <<traced, paid, created, second>>
dbVars     == <<active, until, last>>
workerVars == <<wpc, wevent, wtodo, wnote>>
vars == <<stripeVars, dbVars, told, workerVars, tries, done, missed>>

Emitted  == {e \in Events : created[e] # 0}
Recorded == {p \in Payments : active[p] # "none"}

TypeOK ==
    /\ traced \subseteq Payments
    /\ paid \subseteq Payments
    /\ created \in [Events -> 0..MaxSecond]
    /\ second \in 1..MaxSecond
    /\ active \in [Payments -> {"none", "granted", "revoked"}]
    /\ until \in [Payments -> Dates \cup {None}]
    /\ last \in [Payments -> Events \cup {None}]
    /\ told \subseteq Recorded
    /\ wpc \in [Workers -> {"idle", "session", "find", "list", "save", "notify"}]
    /\ wevent \in [Workers -> Events \cup {None}]
    /\ wtodo \in [Workers -> SUBSET Payments]
    /\ wnote \in [Workers -> [payment : Payments, id : Dates] \cup {None}]
    /\ tries \in [Events -> 0..MaxTries]
    /\ done \subseteq Emitted
    /\ missed \subseteq Dates
    /\ \A w \in Workers : wpc[w] # "idle" => wevent[w] \in Emitted
    /\ \A w \in Workers : wpc[w] = "save" => wtodo[w] # {}
    /\ \A p \in Payments : active[p] = "none" <=> last[p] = None

Init ==
    /\ traced \in SUBSET Payments
    /\ paid = {}
    /\ created = [e \in Events |-> 0]
    /\ second = 1
    /\ active = [p \in Payments |-> "none"]
    /\ until = [p \in Payments |-> None]
    /\ last = [p \in Payments |-> None]
    /\ told = {}
    /\ wpc = [w \in Workers |-> "idle"]
    /\ wevent = [w \in Workers |-> None]
    /\ wtodo = [w \in Workers |-> {}]
    /\ wnote = [w \in Workers |-> None]
    /\ tries = [e \in Events |-> 0]
    /\ done = {}
    /\ missed = {}

-----------------------------------------------------------------------------
(* Stripe.                                                                 *)

Grants(p) == [charge : {p}, kind : GrantKinds]

\* What may happen next to a charge: its session completes, paid or with the
\* payment to come, the payment comes, or the charge is refunded or disputed.
\* A session is in GrantKinds twice only if its payment was delayed.
Emit(e) ==
    /\ e \notin Emitted
    /\ Cardinality(Emitted) < MaxEvents
    /\ \/ /\ e.kind = "completed"
          /\ paid' \in {paid, paid \cup {e.charge}}
       \/ /\ e.kind = "succeeded"
          /\ e.charge \notin paid
          /\ [e EXCEPT !.kind = "completed"] \in Emitted
          /\ paid' = paid \cup {e.charge}
       \/ /\ e.kind \in RevokeKinds
          /\ e.charge \in paid \cup Invoices
          /\ UNCHANGED paid
    /\ second' \in {second, second + 1} \cap 1..MaxSecond
    /\ created' = [created EXCEPT ![e] = second']
    /\ UNCHANGED <<traced, dbVars, told, workerVars, tries, done, missed>>

-----------------------------------------------------------------------------
(* Fulfilment.                                                             *)

Rest(w) ==
    /\ wpc' = [wpc EXCEPT ![w] = "idle"]
    /\ wevent' = [wevent EXCEPT ![w] = None]
    /\ wtodo' = [wtodo EXCEPT ![w] = {}]
    /\ wnote' = [wnote EXCEPT ![w] = None]

\* process returns.
Finish(w) == Rest(w) /\ done' = done \cup {wevent[w]}

\* Goes on to save these payments, one after the other, or returns.
SaveAll(w, todo) ==
    IF todo = {}
    THEN Finish(w)
    ELSE /\ wpc' = [wpc EXCEPT ![w] = "save"]
         /\ wtodo' = [wtodo EXCEPT ![w] = todo]
         /\ wnote' = [wnote EXCEPT ![w] = None]
         /\ UNCHANGED <<wevent, done>>

\* A worker has claimed e; a refund's or dispute's charge is followed to the
\* attempt, and if it has none straight to the customer.
Take(w, e) ==
    /\ wpc[w] = "idle"
    /\ e \in Emitted
    /\ \A v \in Workers : wevent[v] # e
    /\ tries[e] < MaxTries
    /\ tries' = [tries EXCEPT ![e] = @ + 1]
    /\ done' = done \ {e}
    /\ wevent' = [wevent EXCEPT ![w] = e]
    /\ wpc' = [wpc EXCEPT ![w] =
                  CASE e.kind \in GrantKinds -> "session"
                    [] e.kind \in RevokeKinds /\ e.charge \in traced -> "find"
                    [] OTHER -> "list"]
    /\ UNCHANGED <<stripeVars, dbVars, told, wtodo, wnote, missed>>

\* processCheckoutSession retrieves the session; one that completed unpaid has
\* to wait for its payment's event.
RetrieveSession(w) ==
    LET e == wevent[w] IN
    /\ wpc[w] = "session"
    /\ SaveAll(w, IF e.kind = "completed" /\ e.charge \notin paid THEN {}
                                                                ELSE {e.charge})
    /\ UNCHANGED <<stripeVars, dbVars, told, tries, missed>>

\* The try of an event that a worker is at; its moment, if it takes one.
Now(w) == [event |-> wevent[w], try |-> tries[wevent[w]]]

\* Mutant: a payment that was found is not the end of it.
FindAndGoOn(w) ==
    LET p == wevent[w].charge IN
    /\ wpc[w] = "find"
    /\ wpc' = [wpc EXCEPT ![w] = "list"]
    /\ missed' = IF p \in Recorded THEN missed ELSE missed \cup {Now(w)}
    /\ UNCHANGED <<stripeVars, dbVars, told, wevent, wtodo, wnote, tries, done>>

\* revokePayment looks the attempt's payment up.
FindPayment(w) ==
    LET p == wevent[w].charge IN
    /\ wpc[w] = "find"
    /\ IF p \in Recorded
       THEN /\ SaveAll(w, {p})
            /\ UNCHANGED missed
       ELSE /\ wpc' = [wpc EXCEPT ![w] = "list"]
            /\ missed' = missed \cup {Now(w)}
            /\ UNCHANGED <<wevent, wtodo, wnote, done>>
    /\ UNCHANGED <<stripeVars, dbVars, told, tries>>

\* revokeCustomerPayments lists the payments of the customer, if there is one.
ListPayments(w) ==
    LET found == IF Known THEN Recorded ELSE {} IN
    /\ wpc[w] = "list"
    /\ SaveAll(w, found)
    /\ missed' = IF wevent[w].charge \in found \cup Invoices
                 THEN missed ELSE missed \cup {Now(w)}
    /\ UNCHANGED <<stripeVars, dbVars, told, tries>>

-----------------------------------------------------------------------------
(* saveRecord and the activation that follows it.                          *)

\* Mutant: only the very same event is recognised, not an older one.
OnlyDuplicate(p, e) == last[p] = e

\* The early return: a later event, or this one, has been applied.
AlreadyApplied(p, e) ==
    last[p] # None /\ (last[p] = e \/ created[last[p]] > created[e])

\* Mutant: an event that was applied has nothing left to do.
SaveIgnoredSilently(w, p) ==
    /\ wpc[w] = "save"
    /\ p \in wtodo[w]
    /\ AlreadyApplied(p, wevent[w])
    /\ SaveAll(w, wtodo[w] \ {p})
    /\ UNCHANGED <<stripeVars, dbVars, told, tries, missed>>

\* An older event changes nothing, and only the same event is announced again.
SaveIgnored(w, p) ==
    LET e == wevent[w] IN
    /\ wpc[w] = "save"
    /\ p \in wtodo[w]
    /\ AlreadyApplied(p, e)
    /\ IF last[p] = e
       THEN /\ wpc' = [wpc EXCEPT ![w] = "notify"]
            /\ wnote' = [wnote EXCEPT ![w] = [payment |-> p, id |-> until[p]]]
            /\ UNCHANGED <<wevent, wtodo, done>>
       ELSE SaveAll(w, wtodo[w] \ {p})
    /\ UNCHANGED <<stripeVars, dbVars, told, tries, missed>>

\* Record and state are written; the change is announced after the commit.
SaveApplied(w, p) ==
    LET e == wevent[w] IN
    /\ wpc[w] = "save"
    /\ p \in wtodo[w]
    /\ ~AlreadyApplied(p, e)
    /\ active' = [active EXCEPT ![p] = IF e.kind \in GrantKinds THEN "granted"
                                                                ELSE "revoked"]
    /\ until' = [until EXCEPT ![p] = Now(w)]
    /\ last' = [last EXCEPT ![p] = e]
    /\ wpc' = [wpc EXCEPT ![w] = "notify"]
    /\ wnote' = [wnote EXCEPT ![w] = [payment |-> p, id |-> Now(w)]]
    /\ told' = told \ {p}
    /\ UNCHANGED <<stripeVars, wevent, wtodo, tries, done, missed>>

\* Mutant: the loop looks for a next payment when there is none.
NotifyThenSave(w) ==
    /\ wpc[w] = "notify"
    /\ told' = told \cup {p \in {wnote[w].payment} : until[p] = wnote[w].id}
    /\ wtodo' = [wtodo EXCEPT ![w] = @ \ {wnote[w].payment}]
    /\ wpc' = [wpc EXCEPT ![w] = "save"]
    /\ wnote' = [wnote EXCEPT ![w] = None]
    /\ UNCHANGED <<stripeVars, dbVars, wevent, tries, done, missed>>

\* activationQueue.add, then the next payment.
Notify(w) ==
    /\ wpc[w] = "notify"
    /\ told' = told \cup {p \in {wnote[w].payment} : until[p] = wnote[w].id}
    /\ SaveAll(w, wtodo[w] \ {wnote[w].payment})
    /\ UNCHANGED <<stripeVars, dbVars, tries, missed>>

\* Stripe, the database or the queue fails, or the process dies: the job's next
\* attempt, or a replay, starts over.
Fail(w) ==
    /\ wpc[w] # "idle"
    /\ Rest(w)
    /\ UNCHANGED <<stripeVars, dbVars, told, tries, done, missed>>

Next ==
    \/ \E e \in Events : Emit(e)
    \/ \E w \in Workers, e \in Events : Take(w, e)
    \/ \E w \in Workers : \/ RetrieveSession(w) \/ FindPayment(w) \/ ListPayments(w)
                          \/ Notify(w) \/ Fail(w)
    \/ \E w \in Workers, p \in Payments : SaveIgnored(w, p) \/ SaveApplied(w, p)

Spec == Init /\ [][Next]_vars

-----------------------------------------------------------------------------
\* A refund or dispute that found the payment it is of, and was processed to
\* the end, leaves it revoked, whatever is processed late or again afterwards -
\* as long as the payment's own events are of earlier seconds (saveRecord).
RefundSticks ==
    \A p \in Payments, e \in done :
        (/\ e.charge = p
         /\ e.kind \in RevokeKinds
         /\ [event |-> e, try |-> tries[e]] \notin missed
         /\ \A g \in Grants(p) \cap Emitted : created[g] < created[e])
        => active[p] = "revoked"

\* A payment is revoked by another charge only if that one leads to no payment
\* of its own, or its payment was not recorded yet when the try that revoked
\* this one looked for it (revokeChargeEntitlement, 254-284).
BystandersKeep ==
    \A p \in Payments :
        active[p] = "revoked" /\ last[p].charge # p
        => last[p].charge \notin traced \/ until[p] \in missed

\* When the event of its own that set a payment's validUntil counts as
\* processed, the application has been told (184-186).
OwnIsTold ==
    \A p \in Payments :
        last[p] \in done /\ last[p].charge = p => p \in told
=============================================================================

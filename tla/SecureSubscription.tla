------------------------- MODULE SecureSubscription -------------------------
(***************************************************************************)
(* How one Stripe subscription becomes an entitlement:                     *)
(* StripePaymentFulfillmentService.saveSubscription and                    *)
(* SecureSubscriptionService.save, run by the workers that                 *)
(* StripePaymentEvents models, for the events of one subscription.         *)
(*                                                                         *)
(* Stripe changes the subscription and emits an event for each change,     *)
(* stamped with the second it was created in.  A worker does not trust the *)
(* event's body: it retrieves the subscription as it is now, saves the     *)
(* entitlement and its ordering state in one transaction under an advisory *)
(* lock, and then tells the application through the activation queue.      *)
(* Events are processed in any order, several at once, and again after a   *)
(* failure, a crash or a replay.  The legacy module's save, which an       *)
(* administrator may call too, writes the same record and takes no lock.   *)
(*                                                                         *)
(* The clock is two counters: the second of each change (created), and     *)
(* ticks, the milliseconds at which a validUntil of "now" was taken.       *)
(***************************************************************************)
EXTENDS Naturals, Sequences

CONSTANTS
    Workers,      \* workers of the "stripe-events" queue
    MaxChanges,   \* bound: changes Stripe makes to the subscription
    MaxPeriod,    \* bound: billing periods
    MaxRetries,   \* bound: times an event is processed again, replays included
    MaxForeign,   \* bound: saves of the legacy module, an administrator's included
    MaxDeletes    \* bound: records an administrator deletes

ASSUME BoundsAssumption ==
    /\ MaxChanges \in Nat
    /\ MaxPeriod \in Nat \ {0}
    /\ MaxRetries \in Nat
    /\ MaxForeign \in Nat
    /\ MaxDeletes \in Nat

\* An event is known by the number of the change that it announces.
Events  == 1..MaxChanges
Periods == 1..MaxPeriod

\* validUntil: the end of a period with its grace, or the moment of revocation.
Active(p)  == [active |-> TRUE, at |-> p]
Revoked(t) == [active |-> FALSE, at |-> t]
MaxTicks   == MaxChanges + MaxRetries
Dates      == [active : {TRUE}, at : Periods] \cup [active : {FALSE}, at : 0..MaxTicks]

\* A subscription at Stripe: its status, and the period it is paid up to.
Snapshots  == [status : {"active", "paused", "canceled"}, period : Periods]

VARIABLES
    history,     \* the subscription after each change Stripe made
    created,     \* the second each change's event was created in
    ticks,       \* revocation moments taken so far
    recordIn,    \* the record's row: "absent", "present" or "deleted"
    validUntil,  \* its validUntil
    lastEvent,   \* StripePaymentState: last event applied, 0 if no row
    lastCreated, \* and the second it was created in
    jobIds,      \* validUntil of the activation jobs the queue remembers
    told,        \* validUntil of every activation job ever accepted
    wpc,         \* where each worker is
    wevent,      \* the event it processes
    wuntil,      \* the validUntil it has computed, or has been returned
    taken,       \* events taken by a worker so far
    retries,     \* how often one was taken again
    done,        \* events processed to the end since they were last taken
    legacy,      \* a legacy save: "idle", or it has "found" the record or "missing"
    foreign,     \* legacy saves so far
    deletes,     \* records deleted
    swallowed,   \* history: events in done that a collision ended, unapplied
    foreignWrite \* history: has a legacy save changed validUntil since saveRecord
                 \*   last wrote it ("none" if not), or since it last returned it
                 \*   to the event that set it ("read" if not, else "unread")

stripeVars == <<history, created>>
dbVars     == <<recordIn, validUntil, lastEvent, lastCreated>>
queueVars  == <<jobIds, told>>
workerVars == <<wpc, wevent, wuntil>>
takeVars   == <<taken, retries>>
boundVars  == <<foreign, deletes>>
legacyVars == <<legacy, foreignWrite>>
vars == <<stripeVars, ticks, dbVars, queueVars, workerVars, takeVars, done,
          legacyVars, boundVars, swallowed>>

\* The last change Stripe has made.
Version == Len(history)

TypeOK ==
    /\ history \in Seq(Snapshots) /\ Version \in 0..MaxChanges
    /\ created \in Seq(Events) /\ Len(created) = Version
    /\ ticks \in 0..MaxTicks
    /\ recordIn \in {"absent", "present", "deleted"}
    /\ validUntil \in Dates
    /\ lastEvent \in {0} \cup Events
    /\ lastCreated \in {0} \cup Events
    /\ jobIds \in SUBSET Dates /\ told \in SUBSET Dates
    /\ wpc \in [Workers -> {"idle", "retrieve", "save", "notify"}]
    /\ wevent \in [Workers -> {0} \cup Events]
    /\ wuntil \in [Workers -> Dates]
    /\ taken \in SUBSET Events /\ retries \in 0..MaxRetries
    /\ done \in SUBSET Events
    /\ legacy \in {"idle", "found", "missing"}
    /\ foreign \in 0..MaxForeign
    /\ swallowed \in SUBSET Events
    /\ foreignWrite \in {"none", "read", "unread"}
    /\ deletes \in 0..MaxDeletes
    /\ \A w \in Workers : wpc[w] # "idle" => wevent[w] \in 1..Version

Init ==
    /\ history = <<>>
    /\ created = <<>>
    /\ ticks = 0
    /\ recordIn = "absent"
    /\ validUntil = Revoked(0)
    /\ lastEvent = 0
    /\ lastCreated = 0
    /\ jobIds = {}
    /\ told = {}
    /\ wpc = [w \in Workers |-> "idle"]
    /\ wevent = [w \in Workers |-> 0]
    /\ wuntil = [w \in Workers |-> Revoked(0)]
    /\ taken = {} /\ retries = 0
    /\ done = {} /\ swallowed = {}
    /\ legacy = "idle" /\ foreignWrite = "none"
    /\ foreign = 0
    /\ deletes = 0

-----------------------------------------------------------------------------
\* Stripe creates the subscription, renews, pauses, resumes or cancels it, or
\* emits an event that changes nothing (a paid checkout, an invoice), in the second of
\* the last one or a later one.  Cancelled is for good.
StripeChange(s) ==
    /\ Version < MaxChanges
    /\ IF Version = 0
       THEN /\ s = [status |-> "active", period |-> 1]
            /\ created' = <<1>>
       ELSE LET now == history[Version] IN
            /\ now.status = "canceled" => s = now
            /\ s.period >= now.period
            /\ \E second \in {created[Version], created[Version] + 1} :
                  created' = Append(created, second)
    /\ history' = Append(history, s)
    /\ UNCHANGED <<ticks, dbVars, queueVars, workerVars, takeVars, done, legacyVars,
                   boundVars, swallowed>>

\* A worker has claimed event e, for the first time or again.
Take(w, e) ==
    /\ wpc[w] = "idle"
    /\ e <= Version
    /\ \A v \in Workers : wpc[v] # "idle" => wevent[v] # e
    /\ e \in taken => retries < MaxRetries
    /\ retries' = IF e \in taken THEN retries + 1 ELSE retries
    /\ taken' = taken \cup {e}
    /\ done' = done \ {e} /\ swallowed' = swallowed \ {e}
    /\ wpc' = [wpc EXCEPT ![w] = "retrieve"]
    /\ wevent' = [wevent EXCEPT ![w] = e]
    /\ UNCHANGED <<stripeVars, ticks, dbVars, queueVars, wuntil, legacyVars, boundVars>>

\* retrieveSubscription and getSubscriptionValidUntil: the subscription as it is
\* now, not as the event has it.
Retrieve(w) ==
    LET s == history[Version] IN
    /\ wpc[w] = "retrieve"
    /\ IF s.status = "active"
       THEN /\ wuntil' = [wuntil EXCEPT ![w] = Active(s.period)]
            /\ UNCHANGED ticks
       ELSE /\ ticks' = ticks + 1
            /\ wuntil' = [wuntil EXCEPT ![w] = Revoked(ticks')]
    /\ wpc' = [wpc EXCEPT ![w] = "save"]
    /\ UNCHANGED <<stripeVars, dbVars, queueVars, wevent, takeVars, done, legacyVars,
                   boundVars, swallowed>>

-----------------------------------------------------------------------------
(* OrganisationSubscriptionService.save: a read, and later a write, without *)
(* the lock.  Two of them at once do no more than one after the other.      *)

\* The validUntil that the legacy module's caller may give.
LegacyDates == {Active(p) : p \in Periods} \cup {Revoked(0)}

Overwritten(date) ==
    foreignWrite' = IF date = validUntil THEN foreignWrite ELSE "unread"

\* findOne by the transaction id, which does not see a deleted record.
LegacyFind ==
    /\ legacy = "idle"
    /\ foreign < MaxForeign
    /\ foreign' = foreign + 1
    /\ legacy' = IF recordIn = "present" THEN "found" ELSE "missing"
    /\ UNCHANGED <<stripeVars, ticks, dbVars, queueVars, workerVars, takeVars, done,
                   foreignWrite, deletes, swallowed>>

\* The record found is written, whatever has happened to it since; one deleted
\* since comes back, unless only after TypeORM looked for what differs.  Then
\* the announcement throws for want of the organisation: it is never made.
LegacyUpdates ==
    /\ legacy = "found"
    /\ legacy' = "idle"
    /\ recordIn' \in {"present", recordIn}
    /\ \E date \in LegacyDates : validUntil' = date /\ Overwritten(date)
    /\ UNCHANGED <<stripeVars, ticks, lastEvent, lastCreated, queueVars, workerVars,
                   takeVars, done, boundVars, swallowed>>

\* A new record, its organisation given; its announcement carries no job id.
LegacyInserts ==
    /\ legacy = "missing"
    /\ recordIn = "absent"
    /\ legacy' = "idle"
    /\ recordIn' = "present"
    /\ \E date \in LegacyDates : validUntil' = date /\ foreignWrite' = "unread"
    /\ UNCHANGED <<lastEvent, lastCreated>>

\* It inserts, or fails: on the unique key that a record taken for missing holds
\* by now, for want of an organisation, or because the process dies.
LegacyEnds ==
    /\ \/ LegacyInserts
       \/ legacy # "idle" /\ legacy' = "idle" /\ UNCHANGED <<dbVars, foreignWrite>>
    /\ UNCHANGED <<stripeVars, ticks, queueVars, workerVars, takeVars, done, boundVars,
                   swallowed>>

-----------------------------------------------------------------------------
(* saveRecord: one transaction, alone under pg_advisory_xact_lock.         *)

IsDuplicate(e) == lastEvent = e /\ lastCreated = created[e]

\* Mutant: only the very same event is recognised, not an older one.
OnlyDuplicate(e) == recordIn = "present" /\ lastEvent # 0 /\ IsDuplicate(e)

\* The early return: a later event, or this one, has been applied.
AlreadyApplied(e) ==
    /\ recordIn = "present"
    /\ lastEvent # 0
    /\ lastCreated > created[e] \/ IsDuplicate(e)

\* Mutant: the worker lets go of the event and stays where it is.
FinishWithoutLeaving(w) ==
    /\ wevent' = [wevent EXCEPT ![w] = 0]
    /\ wuntil' = [wuntil EXCEPT ![w] = Revoked(0)]
    /\ done' = done \cup {wevent[w]}
    /\ UNCHANGED wpc

\* The worker returns from save and from process.
Finish(w) ==
    /\ wpc' = [wpc EXCEPT ![w] = "idle"]
    /\ wevent' = [wevent EXCEPT ![w] = 0]
    /\ wuntil' = [wuntil EXCEPT ![w] = Revoked(0)]
    /\ done' = done \cup {wevent[w]}

\* Mutant: an event that was applied has nothing left to do.
SaveIgnoredSilently(w) ==
    LET e == wevent[w] IN
    /\ wpc[w] = "save"
    /\ AlreadyApplied(e)
    /\ Finish(w)
    /\ foreignWrite' = IF IsDuplicate(e) /\ foreignWrite = "unread" THEN "read"
                                                                 ELSE foreignWrite
    /\ UNCHANGED <<stripeVars, ticks, dbVars, queueVars, takeVars, legacy, boundVars,
                   swallowed>>

\* Nothing to write; the event's own earlier notification is tried again.
SaveIgnored(w) ==
    LET e == wevent[w] IN
    /\ wpc[w] = "save"
    /\ AlreadyApplied(e)
    /\ IF IsDuplicate(e)
       THEN /\ wpc' = [wpc EXCEPT ![w] = "notify"]
            /\ wuntil' = [wuntil EXCEPT ![w] = validUntil]
            /\ foreignWrite' = IF foreignWrite = "unread" THEN "read" ELSE foreignWrite
            /\ UNCHANGED <<wevent, done>>
       ELSE Finish(w) /\ UNCHANGED foreignWrite
    /\ UNCHANGED <<stripeVars, ticks, dbVars, queueVars, takeVars, legacy, boundVars,
                   swallowed>>

\* Record and state are written; a change is announced after the commit.
SaveApplied(w) ==
    LET e == wevent[w]
        shouldActivate == \/ recordIn = "absent"
                          \/ lastEvent # e
                          \/ validUntil # wuntil[w]
    IN
    /\ wpc[w] = "save"
    /\ recordIn # "deleted"
    /\ ~AlreadyApplied(e)
    /\ recordIn' = "present"
    /\ validUntil' = wuntil[w]
    /\ lastEvent' = e
    /\ lastCreated' = created[e]
    /\ foreignWrite' = "none"
    /\ IF shouldActivate
       THEN /\ wpc' = [wpc EXCEPT ![w] = "notify"]
            /\ UNCHANGED <<wevent, wuntil, done>>
       ELSE Finish(w)
    /\ UNCHANGED <<stripeVars, ticks, queueVars, takeVars, legacy, boundVars, swallowed>>

\* A legacy save that found no record inserts one between our read and our insert;
\* the unique violation is taken for a duplicate payment, the event for processed.
SaveCollides(w) ==
    /\ wpc[w] = "save"
    /\ LegacyInserts
    /\ Finish(w)
    /\ swallowed' = swallowed \cup {wevent[w]}
    /\ UNCHANGED <<stripeVars, ticks, queueVars, takeVars, boundVars>>

\* The database, Stripe or the queue fails, or the process dies: the job's next
\* attempt starts over.  A deleted record, invisible to the read but still
\* holding its unique key, makes every save fail this way.
Fail(w) ==
    /\ wpc[w] # "idle"
    /\ wpc' = [wpc EXCEPT ![w] = "idle"]
    /\ wevent' = [wevent EXCEPT ![w] = 0]
    /\ wuntil' = [wuntil EXCEPT ![w] = Revoked(0)]
    /\ UNCHANGED <<stripeVars, ticks, dbVars, queueVars, takeVars, done, legacyVars,
                   boundVars, swallowed>>

-----------------------------------------------------------------------------
(* The activation queue.                                                   *)

\* activationQueue.add under subscription-activation:<uuid>:<validUntil>, which
\* the queue ignores while it remembers a job of that id.
Notify(w) ==
    LET id == wuntil[w] IN
    /\ wpc[w] = "notify"
    /\ IF id \in jobIds
       THEN UNCHANGED queueVars
       ELSE /\ jobIds' = jobIds \cup {id}
            /\ told' = told \cup {id}
    /\ Finish(w)
    /\ UNCHANGED <<stripeVars, ticks, dbVars, takeVars, legacyVars, boundVars, swallowed>>

\* removeOnComplete, removeOnFail.
Forget(id) ==
    /\ id \in jobIds
    /\ jobIds' = jobIds \ {id}
    /\ UNCHANGED <<stripeVars, ticks, dbVars, told, workerVars, takeVars, done,
                   legacyVars, boundVars, swallowed>>

\* OrganisationSubscriptionService.delete: the row is soft-deleted, then, unless
\* the process dies first, the deactivation is queued, which is no activation.
Delete ==
    /\ deletes < MaxDeletes
    /\ recordIn = "present"
    /\ recordIn' = "deleted"
    /\ deletes' = deletes + 1
    /\ UNCHANGED <<stripeVars, ticks, validUntil, lastEvent, lastCreated, jobIds,
                   told, workerVars, takeVars, done, legacyVars, foreign, swallowed>>

Next ==
    \/ \E s \in Snapshots : StripeChange(s)
    \/ \E w \in Workers, e \in Events : Take(w, e)
    \/ \E w \in Workers :
          \/ Retrieve(w)
          \/ SaveIgnored(w) \/ SaveApplied(w) \/ SaveCollides(w)
          \/ Notify(w)
          \/ Fail(w)
    \/ \E id \in Dates : Forget(id)
    \/ Delete
    \/ LegacyFind \/ LegacyUpdates \/ LegacyEnds

Spec == Init /\ [][Next]_vars

-----------------------------------------------------------------------------
\* No earlier event was created in the same second as the last one.
LastIsDistinct == \A e \in 1..(Version - 1) : created[e] # created[Version]

\* Once the event of Stripe's last change has been processed, the entitlement
\* is what Stripe says it is, and nothing processed late, again or out of order
\* undoes it (saveRecord, 171-188) - as long as that event is alone in its second,
\* its save did not collide with a legacy insert, and no legacy save has changed
\* validUntil since saveRecord last wrote it.
LatestWins ==
    (/\ Version \in done \ swallowed
     /\ recordIn = "present"
     /\ foreignWrite = "none"
     /\ LastIsDistinct)
    => LET s == history[Version] IN
       /\ validUntil.active <=> s.status = "active"
       /\ validUntil.active => validUntil.at = s.period

\* When the event that set the record counts as processed, a notification for
\* the record's validUntil is in the queue, even if the first attempt died between
\* the commit and the add (184-186), and for the validUntil of a legacy save if an
\* attempt found that - but not for one that a legacy save wrote after the last
\* attempt had read the record: nobody announces it.
AppliedWasTold ==
    recordIn = "present" /\ lastEvent \in done /\ foreignWrite # "unread"
    => validUntil \in told
=============================================================================

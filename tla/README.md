# A model of nest-backend-libs

nest-backend-libs is a library of NestJS modules that an application's API imports: users,
organisations, invitations, e-mail and payments. Most of it is one database query after
another; what is hard is what happens between the queries. The part that has to be right
under concurrency, crashes and redelivery is `stripe-payments`, which turns Stripe's
webhooks into entitlements: it is modelled in most detail. The rest - login, invitations,
memberships, the mail queue, the deprecated payments client - is modelled as requests and
jobs that run between the reads and the writes of each other.

Paths below are relative to `src/src/`; `services/` is `stripe-payments/services/`.

## 1. Inventory

| Component | State it keeps | Operations | What is hard, and what makes it correct |
|---|---|---|---|
| Webhook inbox: `stripe-payment-event.service.ts`, `stripe-payment-event.processor.ts`, `secure-stripe-webhook.service.ts` | `stripe_payment_event` row per event (status, processingStartedAt), BullMQ queue `stripe-events` | receive, claim, process, markProcessed, markFailed, replay | two stores without a common transaction, several workers, crashes, lost locks. Nothing acknowledged is lost; no job is acknowledged for an event nobody fulfilled; a claim excludes; everything is settled in the end |
| Entitlement store: `secure-subscription.service.ts` | `OrganisationSubscriptionRecord`, `StripePaymentState`, queue `subscription-activation-changed` | save, revokePayment, revokeCustomerPayments | events late, repeated and out of order; commit, then announce. The latest event wins; what is applied is announced |
| Fulfilment: `stripe-payment-fulfillment.service.ts` | none of its own | process, one handler per event type | snapshots retrieved before the lock is taken; a refund that cannot be traced falls back on the whole customer |
| Checkout: `secure-stripe-checkout.service.ts` | `stripe_checkout_attempt` row per Idempotency-Key | createCheckoutSession, createPortalSession | concurrent and repeated requests, takeovers, stale entities saved back. One key, one session |
| Legacy subscriptions: `organisation-subscriptions.service.ts` | the same records and queue | save, addSubscription, delete | takes no lock; overwrites what the store has written; throws after it has written; an empty where clause finds somebody |
| Legacy Stripe client: `stripe-client/`, `payment-sessions/` | queue `stripe-events` (legacy jobs), payment references | checkout, webhook, queued event, mapper | jobs without ids: each redelivery is another job. One purchase, one organisation, one announcement |
| Login and provisioning: `authorization/` | users, memberships, organisations | validateUser of two providers, with or without an invitation | two first requests at once; linking by e-mail; saves that read again before their transaction. A new user gets one organisation; an account changes hands only by its e-mail or its invitation |
| Invitations: `invitations/` | invitations, users and memberships that wait | create, remove, accept | check-then-act; e-mails compared exactly here and without case there; mail and notificationSent. A second open invitation of an e-mail only by a race or a respelling; what says it was notified was mailed |
| Organisations and memberships: `organisation/`, `organisation-memberships/` | organisations, memberships, roles | update, remove, createOrUpdate | whole object graphs written back as they were read. No role nobody gave; a second membership only from overlapping saves; a removed one back only by a request older than its removal |
| Users, API keys: `user/`, `user-api-key/` | users, keys in clear | remove, create, refresh | checks made before the write. An owner stays; a removed key is back only by a refresh that was under way, and with a new value |
| E-mail: `smtp-email-client/` | queue `smtp-emails`, Email rows | sendMail, process | a stalled job sends twice |
| Operations snapshot, telemetry | none | getSnapshot, record | reads only |
| Product catalogue, configuration | constants | parse, getByKey, getByPriceId | pure: one price, one product |
| Wiring, logging, health, code generation, Twitter and Auth0 clients, super powers | none | | no protocol to check |

How they interact. Stripe calls the webhook handler, which writes the inbox row and adds a
job; a worker claims the row, calls fulfilment, which reads Stripe and saves entitlements;
the store announces each change on the activation queue, to the application. An operator
replays events. Checkout creates the attempt that fulfilment later follows back from a
session or a charge. The legacy service and administrators write the same subscription
records without the store's lock. Every authenticated request first goes through login,
which may create a user, an organisation and a membership, or accept an invitation;
invitations put mails on the mail queue; the membership, organisation, user and key
services change what login has created.

## 2. Modules

| Module | Models | Runs |
|---|---|---|
| `StripePaymentEvents` | the inbox, its queue and its workers | InboxSafety, InboxLiveness, InboxRequeue |
| `EventInbox` | what the inbox promises; `StripePaymentEvents` implements it | InboxLiveness (`ImplementsInbox`) |
| `StripeRetryWindow` | the timing the inbox leaves out: retries against the five-minute claim | RetryWindow |
| `SecureSubscription` | one subscription: fulfilment, store, activation queue | Subscription |
| `OneTimePayments` | one customer's one-time payments: completion, refund, dispute | Payments |
| `CheckoutAttempts` | the requests with one Idempotency-Key | Checkout |
| `Accounts` | login, provisioning and invitations | Accounts |
| `EmailQueue` | the mail queue and its workers | Mail |
| `InvitationMail` | `Accounts` composed with `EmailQueue` | Mail |
| `Memberships` | one organisation, its members, their accounts and API keys | Memberships |
| `LegacyPayments` | one purchase through the deprecated client | Legacy, LegacyMatched |
| `StripePaymentEventsProofs`, `StripeRetryWindowProofs`, `SecureSubscriptionProofs`, `OneTimePaymentsProofs`, `CheckoutAttemptsProofs`, `InvitationMailProofs`, `MembershipsProofs`, `LegacyPaymentsProofs` | the theorems | (tlapm) |

Each `MC...` module adds the symmetry sets of its component's small instances.

### StripePaymentEvents

A webhook handler is a process with a program counter, one step per round trip: `Deliver`
(the findOne of `receive`), `Insert` (save, with its unique violation), `Lookup` (getJob),
`IsFailed`, `Add` (queue.add), `Respond`. `HandlerFails` at any of them is a database or
Redis error, a crash or a lost answer: Stripe gets no 2xx. A worker follows `process`:
`Claim`/`ClaimRefused` (the conditional UPDATE), `Check`, `Fulfil`, `MarkProcessed`,
`MarkFailed`, each able to fail, and each write able to commit with its answer lost;
`Return` and `Throw` are what BullMQ makes of the outcome. `Crash`, `Stall` (the lock
expired, whether or not the worker still runs), `ClaimAges` (five minutes passed) and
`Expire` (retention) may come at any time. The operator's replay is three steps,
`ReplayFind`, `ReplaySave`, `ReplayAdd`, with a failure in between.

BullMQ is not under `src/`; it is modelled from how the code uses it and marked external
in the map: adding a known id is a no-op; one worker holds a job's lock; a stalled job is
put back once, then failed; a job has `attempts` tries; finished jobs are removed. Job ids
with `Date.now()` are members of small sets of tags. `getJob` and `isFailed` are two round
trips, and a job that was found may have been tried again, replaced or removed by the time
it is asked. Time is only the flag `stale`, so backoff is left out here: that is what
`StripeRetryWindow` is for.

`acked`, `fulfilled`, `dueAgain`, `exhausted` and `forced` are history: no guard reads
them. `forced` says that a claim was broken under a worker still at it, by age or by a
replay: the two ways in which the code gives up exclusion.

### EventInbox

The abstract inbox has neither rows nor jobs: an event is unknown, pending, given up or
fulfilled (`custody`), and acknowledged or not. `StripePaymentEvents` instantiates it with
`custody <- CustodyOf(e)`, which reads the jobs and the history: an event is pending while
a job of it waits or is active. `Inbox!FairSpec` says that custody is never left but by
fulfilment or by giving up, that nothing is acknowledged before it is in custody, and that
what is pending is settled in the end.

### StripeRetryWindow

One job and a clock in units of five seconds that jumps to the moment the job is next due.
A run succeeds, fails cleanly, leaves its claim behind (answers lost), dies (the stall
check finds it after 30 to 60 seconds) or finds the row busy. The code's own numbers are
the constants: 8 attempts, 5 s doubling, 5 minutes, one stall; `Lateness` lets retries run
up to 15 s late.

### SecureSubscription

Stripe changes the subscription and emits an event per change, stamped with a second that
several changes may share. A worker takes an event (`Take`), retrieves the subscription as
it is *now* (`Retrieve`), and saves. `saveRecord` runs under an advisory lock and is one
step, in four outcomes: ignored as older, announced again as a duplicate (`SaveIgnored`),
applied (`SaveApplied`), or lost to an insert by somebody who takes no lock
(`SaveCollides`; `swallowed` remembers the event). The activation job is a step of its own
(`Notify`) because it is added after the commit. `Fail` at any point is an error or a
crash; the event is taken again. `validUntil` is a period's end, or a tick of the clock
for "now".

`OrganisationSubscriptionService.save`, the legacy module's and the administrator's,
writes the same record in two steps without the lock. `LegacyFind` looks for it;
`LegacyUpdates` overwrites the one that was found, whatever has become of it, and throws
before announcing it (173-185); `LegacyInserts` makes a new one or fails on the unique
transaction id (`LegacyEnds`). `foreignWrite` is history: whether such a save has changed
`validUntil` since `saveRecord` last wrote it, and whether a try of the event that set the
record has read, and so announces, what it left. `Delete` removes the record, softly,
which makes every later save fail until an overwrite brings it back.

### OneTimePayments

The payments of one customer. A session completes paid, or completes and is paid later; a
charge is refunded or disputed. `traced` holds the payments whose charge leads, through
its payment intent's metadata, to a checkout attempt with a session id (those of the
legacy checkout and those whose attempt could not be saved do not); invoices of
subscriptions are charges that never do. A traced charge's payment is looked up
(`FindPayment`, revokePayment); otherwise, or if it has no record yet, the customer's
payments are listed (`ListPayments`) and saved and announced one after the other, in any
order, with other workers between. A validUntil is known by the try that took it.

### CheckoutAttempts

Requests are processes; the row, the entity each request holds (`copy`, `fresh`) and
Stripe's memory of the key are separate, because `repository.save` writes the columns in
which the entity differs from the row as it is *then*. `Begin` reads the row, `Insert` and
`Reuse` are the first save, `Create` is Stripe's answer, `SaveCreated` and `SaveFailed`
the last. `Age` is ten minutes without a change, `SessionEnds` the webhook that marks an
attempt failed.

### Accounts

Requests are processes. `Login` and `LoginInvited` are what
`BetterAuthUserValidationService` and `UserValidationService` (Auth0) do with an identity;
the two services differ only in that Auth0 neither matches users by e-mail nor looks at
`emailVerified`, so one module with a `provider` chosen in `Init` models both. `FindUser`,
`Match`, `Link`, `Provision` and `FindInvitation`, `Accept` are the awaits;
`CreateInvitation`, `InsertInvitation`, `MailInvitation`, `SaveNotified` those of
`InvitationService.create`. `RemoveInvitation`, `ExpireInvitation` and `RemoveMember` may
come between any of them. Claims are the callers' claims as the guards see them.

A save is two steps, as TypeORM 0.3.27 makes it. `Load` reads the user's row, his
memberships' rows and their ids again, outside the transaction: what differs from the
entity is what will be written (`columns`, `changes`, and `back` for a membership that was
removed since, whose null deletedDate is written too), and the save fails if there is a
membership that the entity does not know, because its NOT NULL user would be cleared.
`Link`, `Provision` and `Accept` are the transaction; by then others may have written, and
only the unique index on the identity is looked at again. A new user has no rows to read.
`seen`, of a provisioning, is what the save had read, and `back`, of a membership, that it
was brought back: history.

An e-mail has spellings. `Same` is the login's ILIKE; `Existing`, the check of
`InvitationService.create`, compares exactly; and `Mapped` overwrites the user's e-mail
with the provider's spelling.

`nulls` is what TypeORM reads a NULL column as. `InvitationService` compares with
`undefined` and works so; TypeORM 0.3 reads `null`, with which the invitation just saved
is not recognised as open and every create rolls back (`invitation.service.ts:191-199`).
The model has both, and what is said below of invitations concerns the first.

### EmailQueue and InvitationMail

A mail is absent, waiting, active, completed or failed; a worker saves the row, hands the
mail over, dates the row (`SaveMail`, `Transmit`, `DateMail`), or fails (`MailFails`: one
attempt). `StallMail` is the expiry of a job's lock, its worker dead or merely slow. Where
sending is disabled the row is all. `InvitationMail` composes the two: `MailInvitation` of
a request is `SendMail` of the queue, and everything else interleaves.

### Memberships

One request per operation: what is read is stored in `req[r]` when it begins and written
in a step of its own, so that all others run in between. Three of them save a graph of
memberships: createOrUpdate the whole organisation (`GetForUpdate`), a login that links
its identity the user with his memberships (`Login`, `MatchUser`), an acceptance the
invitation with its membership (`FindInvitation`). Such a save is `Reload`, TypeORM's
second read - which finds what differs, and is refused if the organisation, or the user,
has a membership that the entity does not know - and `WriteGraph`, the transaction, which
looks at nothing again. Roles taken away, members, users and the organisation deleted in
between come back, and two overlapping saves both insert. The roles of a new membership
are lost, as in the code: the array they would be pushed to does not exist. `granted`,
`retired` and `gone`, and a membership's `saw` and `removed`, are history.

### LegacyPayments

One purchase: reference, session, subscription at Stripe, jobs, record. `Deliver` adds a
job for each delivery; a worker retrieves what Stripe has *now* (`Retrieve`), maps it by
the mapper's operators (`MapSession`, `MapSubscription`, `NewValidUntil`), and saves each
line item by `Find`, `Insert` or `Update`, and `Tell`. `Update` throws after it has
written, as in the code: the announcement reads an organisation that was not loaded.
`Administer` adds and deletes records by hand. Audit rows are left out: only a listing
reads them.

## 3. What the runs check

| Run | Instance | Shows |
|---|---|---|
| InboxSafety | 1 event, 2 deliveries, 2 handlers, 2 workers, 2 attempts, 1 replay | `AckedNotLost`, `ExclusiveClaim`, `ProcessedIsCurrent` |
| InboxLiveness | 1 event, 2 deliveries, 1 handler, 2 workers, a retry id, 2 attempts, 1 stall | `CompletedWasFulfilled`, `AckedIsSettled`, and that the inbox implements `EventInbox` |
| InboxRequeue | 1 worker, 2 deliveries, 1 replay | refutes `DeliveryEnqueues` |
| RetryWindow | the code's numbers | `NeverBusyToTheEnd`; with 7 attempts it fails |
| Subscription | 2 changes, 2 periods, 2 workers, 2 retries, 2 legacy saves, 1 delete | `AppliedWasTold`, `LatestWins` |
| Payments | 2 payments, 1 subscription invoice, 3 events, 2 workers, 2 tries | `RefundSticks`, `OwnIsTold`, `BystandersKeep` |
| Checkout | 3 requests at once, 4 in all, 2 orders, 2 sessions | `OneSession`, `OwnSession`, `OneCreator` |
| Accounts | 2 requests at once, 3 in all, 2 identities, 1 e-mail in 2 spellings, 2 invitations, both providers | `OneOrganisation`, `MembersAccepted`, `OneOpenInvitation`, `AccountKept` |
| Mail | 2 requests, 1 invitation, 2 mail workers, 1 stall | `MailedOnce`, `NotifiedIsMailed` |
| Memberships | 2 users, 2 requests at once, 4 in all, 3 memberships, 1 key | `OneMembership`, `RolesGranted`, `RemovedStays`, `OwnerStays`, `KeysStayGone` |
| Legacy | 1 or 2 line items, 2 workers, 2 deliveries, 2 attempts, 1 manual change | `OwnOrganisation`, `NoLifetime`, `EndedStays`, `ToldOnce`, `CompletedWasTold` |
| LegacyMatched | the same | refutes `Matched` |

Each run also checks its module's type invariant. Every property has a mutant of the
code's model under which the same run finds it violated.

Why the bounds are enough. Events share nothing but workers, so one event with every
interleaving of two handlers and two workers has every race the rows and jobs allow; two
attempts are the fewest that distinguish a retry from the last attempt, one stall is
BullMQ's limit, two deliveries are a first and a redelivery. For subscriptions two changes
are an older and a newer event, and two legacy saves one that inserts and one that
overwrites; `SecureSubscriptionProofs` has the rest. For payments three events are a
grant, a refund and one that interferes. Two tries are a first and a repeat. Two requests
at once have every race of the reads and the write of somebody else; those begun later see
what the race left behind, which is why `Accounts` has three in all and `Memberships`
four: two that race, one that removes and one that comes after. Two identities are a user
and somebody else; two spellings of one e-mail are the fewest with which the exact
comparison and ILIKE disagree. That an identity does not match an e-mail that differs
otherwise is left to the proofs, which have any e-mails and spellings. Deadlock is not
checked: every bound, and every system at rest, stops.

Fairness. `InboxLiveness`: a worker keeps going once it has a job (`WF(WorkerStep)`: any
step, success or failure, but it cannot stop half way without crashing), BullMQ hands a
waiting job to an idle worker, and its stall check looks at orphaned jobs. `Mail`
(`MailFairness`) is the same of the mail queue: waiting mails are handed out, and a worker
in `process()` gets through its await or fails. Nothing is assumed of Stripe's redelivery,
of the operator, of requests, of crashes, or of an action succeeding rather than failing:
a job may fail every time, and the properties then demand that BullMQ reports it failed.

### Where the code and its comments part

- **InboxRequeue.** A replay that dies between its save and its add leaves a `received`
  row without a job. A later delivery finds the completed job of the first run under the
  base id, kept for a day, and acknowledges without queueing, although the comment in
  `secure-stripe-webhook.service.ts:54-55` counts on it. The operations snapshot reports
  "up" in that state.
- **LegacyMatched.** A legacy payment whose reference is not in the database, or names no
  organisation, is looked up with `undefined` or `null` in the where clause; TypeORM drops
  the condition, and the payment is recorded for whichever organisation comes first, where
  the code means to refuse it (`organisation-subscriptions.service.ts:154`).

Four more that no run reports, because the property about them says what the code does:

- **Accepting an invitation.** `invitations/README.md:3-5` says that invitations are
  matched to a user by e-mail and that the address must be verified before one is
  accepted. `handleInvitedUser` (`BetterAuthUserValidation.service.ts:154-192`) looks at
  neither: whoever brings the code gets the account, and the user's e-mail becomes his.
  `AccountKept` has acceptance as a way of its own, without either condition.
- **A removed API key.** "Once a key is gone it should be gone"
  (`user-apikey.service.ts:81`), but a refresh that read the key before its removal saves
  it after, and `save` inserts the row again with a live value. `KeysStayGone` says that
  this is the only way back.
- **Invitations under TypeORM 0.3.27**, the version in the lock file. `create` looks for
  the invitation it has just saved with `acceptedOn === undefined`
  (`invitation.service.ts:188`); the column is read as `null`, the invitation is not
  recognised, and every create ends in "New invitation did not save correctly" and rolls
  back (191-199). In the model this is `nulls = "null"`.
- **One e-mail, two spellings.** `create` refuses an e-mail that a member has, compared
  exactly (`invitation.service.ts:81`); login finds users without case (`ILike`, 119) and
  overwrites their e-mail. A member who was linked under another spelling can be invited
  again.

### What the properties do not promise, because the code does not

- `LatestWins` and `RefundSticks` need the deciding event alone in its second: Stripe's
  stamps are whole seconds, and of two in one second either may be applied last.
  `RefundSticks` speaks of a refund whose last try found its payment: one that came before
  the payment was recorded does not stop the payment from being granted afterwards.
- A legacy save that overwrites the record undoes what the store has written and announces
  nothing. `LatestWins` is about a record that none has changed since `saveRecord` last
  wrote it, and an event that did not end in a collision with a legacy insert;
  `AppliedWasTold` about one that a try of the event that set it has read since.
- A subscription paused and resumed within one period returns to an earlier validUntil,
  and so to an earlier activation id: the queue ignores the second activation for as long
  as it remembers the first. `AppliedWasTold` counts the first.
- A refund that revoked another payment and died before announcing it may take the other
  path when it is retried: `OwnIsTold` is about a payment's own events.
- A checkout attempt that failed is answered like one in progress for ten minutes.
- A legacy checkout event that is processed after the subscription ended makes the record
  valid again: `EndedStays` excepts checkout events.
- Two requests that invite one e-mail, neither of which could see the other's invitation,
  both succeed, and so does a second one after the first one's user was linked under
  another spelling: `OneOpenInvitation` says that there is no third way.
- A user who exists without memberships and logs in twice at once gets two organisations:
  only the unique identity of a new user refuses one of two overlapping saves. Two owners
  who add one user at once give him two memberships: nothing is unique on organisation and
  user. `OneOrganisation` and `OneMembership` say that it takes saves of which neither had
  read the other's, or a removed row that is brought back.
- Of two requests that accept one invitation the later one takes the account over.
- Where sending is disabled notified invitations are never mailed: `NotifiedIsMailed` is
  stated for where it is enabled.
- A user whose roles were read before he was made an owner is removed although he is one
  by then: `OwnerStays` says that this, and modify:all, are the only ways.
- A membership removed while a createOrUpdate, a linking login of its user or an
  acceptance of its invitation is under way comes back: `RemovedStays` says that nobody
  who arrives later brings it back. A role taken away comes back the same way, and nothing
  speaks of it: `RolesGranted` is about roles that were never given.
- A user whose account was soft-deleted leaves memberships whose user reads as null:
  createOrUpdate then fails for the whole organisation (the guard `Orphans = {}`), until a
  save that had read him alive brings him back.

## 4. Proofs

Every safety property and every action property that a run of section 3 checks is a
theorem, for every value of the constants that the named assumptions of its module allow.
The assumptions say that bounds are naturals and that `None` is not one of the things it
stands in for; those that say more are named below. A model's bounds are constants, so a
theorem is about any number of workers, requests, events, redeliveries and retries.

`StripePaymentEventsProofs` proves, for any sets of events, handlers, workers and job ids
and any bounds, of `Spec`:

| Theorem | States |
|---|---|
| `TypeCorrect` | `[]TypeOK` |
| `CompletedCorrect` | `[]CompletedWasFulfilled` |
| `AckedCorrect` | `[]AckedNotLost` |
| `ClaimCorrect` | `[]ExclusiveClaim` |
| `ProcessedCorrect` | `[]ProcessedIsCurrent` |

They rest on the module's three assumptions on constants: `None` is none of the things it
stands in for, the bounds are naturals, and the tags of retries, replays and first jobs
differ.

`TypeOK` is not inductive alone: that a waiting job has an attempt left is `QueueInv`, and
the two together are `TypeInv`. `CompletedWasFulfilled` needs to know that a worker about
to return, and a row marked processed, stand for a fulfilled event (`FulfilledInv`).
`AckedNotLost` is about a 2xx sent some steps after the lookup that justified it, so
`AckedInv` says of every handler at `respond`, and of one that has found a job and is
about to ask `isFailed`, that its event is `Accounted` for (fulfilled, exhausted or
queued), that a job seen failed has exhausted its event, and that no step takes an event
out of that account (`AccountedStable`). `ExclusiveClaim` and `ProcessedIsCurrent` follow
from one invariant, `ClaimInv`: unless a claim was broken, an engaged worker's row is
`processing` and not stale, and two engaged workers are one; a processed row is not due
again.

The same module proves the refinement, `InboxImplemented == Spec => Inbox!Spec`. Under
`InboxInv` (the invariants above, and that a worker's event is in custody) every step of
the detailed inbox moves one event the way `EventInbox` lets it, or none: `JobMoves` does
this for whatever changes one job, `OneEventMoves` and `CustodyStays` turn it into a step
of the abstract specification. The liveness half of `Inbox!FairSpec` is checked by TLC
only (`ImplementsInbox`).

`CheckoutAttemptsProofs` proves, for any number of requests, orders and sessions,
`TypeCorrect`, `OneSessionCorrect`, `OwnCorrect` and `CreatorCorrect`. `OrderInv` says
that everything known of the key - sessions opened, entities held, answers given - is
about the order the row was inserted for; `KeyInv` that nobody knows another session than
Stripe remembers; `CreatorInv` that a row that was never old was never taken over, so that
the unique key admits one creator. They rest on `NoneAssumption` and `BoundAssumption`.

`MembershipsProofs` proves, for any number of users, requests, memberships and keys, every
property of that module's run: `TypeCorrect`, `KeysCorrect`, `RolesCorrect`,
`OneMembershipCorrect`, `RemovedCorrect` and `OwnerCorrect`. What a request has read may
be out of date in every way, so each invariant says what stays true of it, at its two
steps: the roles it would write back, and those TypeORM found to differ, were once given
(`RolesInv`); who adds a membership has seen no other of its user (`SawInv`), though there
may be one by the time it is written; what it knows alive, and what it will bring back,
was removed after it arrived if it was removed (`RemovedInv`); and a user about to be
removed owns nothing unless he was promoted since or a super user asked (`RemovalInv`).
`WrittenRows` says what a save leaves behind, and `StepKinds` that only reads, `Reload`,
`WriteGraph` and the two removals touch any of this. `KeyInv` keeps key values behind the
counter they come from, and says that who is about to refresh a key that is gone arrived
before it was. They rest on `MembershipBounds`.

`StripeRetryWindowProofs` proves `TypeCorrect`, and `NeverBusyCorrect` under the one
condition that makes it true, `Outlasts`: the backoff before the last attempt is longer
than a claim may stand. The code's numbers give 5 s * 2^6 = 320 s against 300 s; one
attempt fewer would give 160 s. The inductive part is `WaitInv`: once the last attempt is
the next, a claim that another attempt left behind is too old to stand when the job is
due. `DelayAssumption`, which TLC evaluates with the code's numbers, says that a backoff
is a natural number: the provers know nothing of exponentiation.

`SecureSubscriptionProofs` proves `TypeCorrect`, `ToldCorrect` (`AppliedWasTold`) and
`LatestCorrect` (`LatestWins`). Types need a count: moments for "now" do not run out,
because each event takes at most one each time it is taken (`TakeInv`). `StampInv` says
that events are stamped in order; `RecordInv` ties the record to the event that set it.
For `AppliedWasTold` the fact that is missing is about a worker that has committed and not
yet announced: if its event still is the record's, and no legacy save has come between,
what it will announce is the record's validUntil (`ToldInv`). For `LatestWins` it is that
what a worker has retrieved for the event of the last change is what Stripe has now, and
that nothing applied later can be newer (`LatestInv`). `LegacyWrites` says what an
unlocked save can do to both.

`OneTimePaymentsProofs` proves `TypeCorrect`, `RefundCorrect`, `BystandersCorrect` and
`OwnToldCorrect`. `HeldInv` gives each event one worker whose try is counted; `RowInv`
says which events can have set a row; `PathInv` what a worker may do at each step: revoke
payments that are not its event's own only if that one leads to none or was looked for in
vain. `RefundInv` extends `RefundSticks` back to the worker that has found the payment and
not yet written it. They rest, besides bounds, on `ChargesAssumption`: payments and
invoices are different charges.

`LegacyPaymentsProofs` proves all that the Legacy run checks: `TypeCorrect`, `OwnCorrect`,
`LifetimeCorrect`, `ToldCorrect`, `CompletedCorrect`, and the action property
`EndedCorrect`. `QueueInv` is about jobs, `ShopInv` about what Stripe can have sent at
which point, `WorkInv` about what a worker brings to the record: line items no longer
valid than what is billed, and the organisation that the reference names. `ToldOnce` holds
because only one worker can have inserted the record, and until it has told nobody has
(`ToldInv`).

`InvitationMailProofs` is about `Accounts`, with or without the mails. Of `Spec` it proves
`TypeCorrect`, `OneOrganisationCorrect`, `AcceptedCorrect`, `OneOpenCorrect` and the
action property `KeptCorrect` (`AccountKept`). `UsersInv` is the unique index;
`MembersInv` that whoever is given an organisation beside another membership was read
again before that one was there, or while it was removed; `InvitationsInv` that each
invitation has a membership and a user of its own, who is found under its e-mail for as
long as it is unanswered unless a login respelt it (`Waits`). `PathOf` says what a request
has read (`ReadOf`) and what its save has read again (`LoadOf`), and what of both is true
still: the roles it will write back are accepted ones, the memberships it has not seen are
new, and if it is about to create an invitation, none of that e-mail was open among those
it saw. `Stays` proves once that nothing others do makes any of this false (`Kept` is what
no step takes back), so that each action is left with its own tables and its own request,
and `Saved` does the same for the transaction that `Link`, `Provision` and `Accept` share.
`SaveOwed` is the action property of those three. Of `MailedSpec` it proves, by the
refinement `Composed == MailedSpec => Spec`, all of the above, and `MailedTypeCorrect` and
`MailedCorrect` (`MailedOnce`) by counting: the starts a mail still has, the workers at
each step of `process()` and what is already sent add up to no more than one and the locks
lost (`StartsOf`). They rest on `AccountBounds` and `MailAssumption`.

Model-checked only: the liveness properties `AckedIsSettled` and `NotifiedIsMailed`, and
with the first the liveness half of `ImplementsInbox`. Liveness under fairness is out of
the prover's reach. The two properties that the code violates, `DeliveryEnqueues` and
`Matched`, are refuted by TLC.

## 5. Not modelled

- Signature checks, access policies, product lookups and the creation of a portal session
  come before any change of state and are left out of the handlers they guard, as are the
  verification of tokens and API keys and the super-user claims read from the
  configuration. Telemetry swallows its own failures
  (`stripe-payments-telemetry.service.ts:17-26`). The operations snapshot reads only.
- The product catalogue and the configuration are parsed once and never change.
- `UserService.update` writes a DTO that names no field. The listings, and the legacy
  portal and peek endpoints, read only.
- E-mail addresses that ILIKE would read as a pattern; the column by which a key belongs
  to a user; the audit rows of the legacy client.
- That a role taken away by createOrUpdate may be refused by the database is one of the
  ways in which a request fails (`RequestFails`).
- The wiring, the thin clients and the test-database reset have no protocol.

## 6. Plan

1. Done: all components with state of their own; every safety and action property that is
   checked is proved; the inbox's refinement of `EventInbox`.
2. Composition: fulfilment over the inbox's steps with the entitlement store behind it; an
   abstract entitlement (a register written by the latest event) that `SecureSubscription`
   implements, and the proof that it does.

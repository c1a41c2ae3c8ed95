------------------------ MODULE StripePaymentEvents ------------------------
(***************************************************************************)
(* The durable Stripe webhook inbox of src/src/stripe-payments/services:   *)
(* StripePaymentEventService (the stripe_checkout_event table and the      *)
(* BullMQ queue "stripe-events"), StripePaymentEventProcessor (the queue's *)
(* workers), SecureStripeWebhookService (the HTTP handler Stripe calls)    *)
(* and the operator's replay.                                              *)
(*                                                                         *)
(* A webhook handler is a process that reads the row, inserts it, looks    *)
(* the job up and adds it, each a separate round trip to Postgres or Redis *)
(* that may fail or be cut off by a crash.  A worker runs one job at a     *)
(* time, and every await of process() is a step.  Fulfilment is one step   *)
(* here; SecureSubscription models what it does.                           *)
(*                                                                         *)
(* BullMQ is external: a job is waiting (or delayed), active under the     *)
(* lock of one worker, completed or failed; adding an id that exists is a  *)
(* no-op; a job whose lock is lost is put back once (MaxStalls) and then   *)
(* failed; completed and failed jobs are eventually removed.               *)
(***************************************************************************)
EXTENDS Naturals, FiniteSets

CONSTANTS
    Events,        \* Stripe event ids
    Handlers,      \* webhook requests that can be in progress at once
    Workers,       \* queue workers, one per API process
    RetryTags,     \* the Date.now() values of ":retry:" job ids
    ManualTags,    \* the Date.now() values of ":manual:" job ids
    None,          \* no job, no worker, no event
    MaxAttempts,   \* attempts of a job, 8 in the code
    MaxStalls,     \* BullMQ's maxStalledCount, 1 by default
    MaxDeliveries, \* bound: deliveries of one event by Stripe
    MaxReplays     \* bound: replays asked for by the operator

Tags == {"base"} \cup RetryTags \cup ManualTags

\* The job ids of an event: stripe-event:<id>, ...:retry:<ms>, ...:manual:<ms>.
JobIds == [event : Events, tag : Tags]

ASSUME NoneAssumption ==
    None \notin Events \cup Workers \cup JobIds

ASSUME BoundsAssumption ==
    /\ MaxAttempts \in Nat \ {0}
    /\ MaxStalls \in Nat
    /\ MaxDeliveries \in Nat
    /\ MaxReplays \in Nat

ASSUME TagsAssumption ==
    /\ "base" \notin RetryTags \cup ManualTags
    /\ RetryTags \cap ManualTags = {}

VARIABLES
    row,        \* status column of each event's row, "absent" before the insert
    stale,      \* is processingStartedAt more than five minutes old
    job,        \* state of each job in Redis
    attempts,   \* attemptsMade of each job
    stalls,     \* how often each job's lock was lost
    holder,     \* the worker whose lock each active job is under
    wpc,        \* where each worker is in process()
    wjob,       \* the job each worker runs
    hpc,        \* where each webhook handler is in receive()
    hevent,     \* the event each handler was sent
    rpc,        \* where the operator's replay is
    revent,     \* the event it replays
    sent,       \* deliveries Stripe has made of each event
    replays,    \* replays begun
    \* History, read by no action:
    acked,      \* events Stripe got a 2xx for
    fulfilled,  \* events fulfilled at least once
    dueAgain,   \* events a replay has reset and nobody has fulfilled since
    exhausted,  \* events one of whose jobs BullMQ has given up on
    forced      \* events whose claim was broken under a worker still at it

rowVars     == <<row, stale>>
queueVars   == <<job, attempts, stalls, holder>>
workerVars  == <<wpc, wjob>>
handlerVars == <<hpc, hevent>>
replayVars  == <<rpc, revent>>
boundVars   == <<sent, replays>>
history     == <<acked, fulfilled, dueAgain, exhausted, forced>>
vars        == <<rowVars, queueVars, workerVars, handlerVars, replayVars,
                 boundVars, history>>

RowStatus  == {"absent", "received", "processing", "processed", "failed"}
JobStatus  == {"absent", "waiting", "active", "completed", "failed"}
WorkerPc   == {"idle", "claim", "check", "fulfil", "mark", "markFailed",
               "returned", "threw"}
HandlerPc  == {"idle", "insert", "lookup", "isFailed", "addBase", "addRetry", "respond"}
ReplayPc   == {"idle", "save", "add"}

TypeOK ==
    /\ row       \in [Events -> RowStatus]
    /\ stale     \in [Events -> BOOLEAN]
    /\ job       \in [JobIds -> JobStatus]
    /\ attempts  \in [JobIds -> 0..MaxAttempts]
    /\ stalls    \in [JobIds -> 0..MaxStalls]
    /\ holder    \in [JobIds -> Workers \cup {None}]
    /\ wpc       \in [Workers -> WorkerPc]
    /\ wjob      \in [Workers -> JobIds \cup {None}]
    /\ hpc       \in [Handlers -> HandlerPc]
    /\ hevent    \in [Handlers -> Events \cup {None}]
    /\ rpc       \in ReplayPc
    /\ revent    \in Events \cup {None}
    /\ sent      \in [Events -> 0..MaxDeliveries]
    /\ replays   \in 0..MaxReplays
    /\ acked     \in [Events -> BOOLEAN]
    /\ fulfilled \in [Events -> BOOLEAN]
    /\ dueAgain  \in [Events -> BOOLEAN]
    /\ exhausted \in [Events -> BOOLEAN]
    /\ forced    \in [Events -> BOOLEAN]
    /\ \A w \in Workers  : wpc[w] # "idle" => wjob[w] # None
    /\ \A h \in Handlers : hpc[h] # "idle" => hevent[h] # None
    /\ rpc # "idle" => revent # None

Init ==
    /\ row       = [e \in Events |-> "absent"]
    /\ stale     = [e \in Events |-> FALSE]
    /\ job       = [j \in JobIds |-> "absent"]
    /\ attempts  = [j \in JobIds |-> 0]
    /\ stalls    = [j \in JobIds |-> 0]
    /\ holder    = [j \in JobIds |-> None]
    /\ wpc       = [w \in Workers |-> "idle"]
    /\ wjob      = [w \in Workers |-> None]
    /\ hpc       = [h \in Handlers |-> "idle"]
    /\ hevent    = [h \in Handlers |-> None]
    /\ rpc       = "idle"
    /\ revent    = None
    /\ sent      = [e \in Events |-> 0]
    /\ replays   = 0
    /\ acked     = [e \in Events |-> FALSE]
    /\ fulfilled = [e \in Events |-> FALSE]
    /\ dueAgain  = [e \in Events |-> FALSE]
    /\ exhausted = [e \in Events |-> FALSE]
    /\ forced    = [e \in Events |-> FALSE]

-----------------------------------------------------------------------------
(* The queue.                                                              *)

BaseJob(e)   == [event |-> e, tag |-> "base"]
JobsOf(e)    == {j \in JobIds : j.event = e}
RetryJobs(e) == {j \in JobsOf(e) : j.tag \in RetryTags}
ManualJobs(e) == {j \in JobsOf(e) : j.tag \in ManualTags}

\* The workers between a successful claim of e and the write that ends it.
Engaged(e) ==
    {w \in Workers : /\ wpc[w] \in {"fulfil", "mark", "markFailed"}
                     /\ wjob[w].event = e}

\* queue.add: an id the queue already holds is left as it is.
AddJob(j) ==
    /\ job' = [job EXCEPT ![j] = IF @ = "absent" THEN "waiting" ELSE @]
    /\ UNCHANGED <<attempts, stalls, holder>>

\* A job leaves "active": back to the queue, or finished.
Release(j, status) ==
    /\ job' = [job EXCEPT ![j] = status]
    /\ holder' = [holder EXCEPT ![j] = None]
    /\ exhausted' = [exhausted EXCEPT ![j.event] = @ \/ status = "failed"]

-----------------------------------------------------------------------------
(* The webhook handler: handleWebhook and receive.                         *)

\* Mutant: a row that is already there is taken for a delivery already queued.
DeliverAcksKnownRow(h, e) ==
    /\ hpc[h] = "idle"
    /\ sent[e] < MaxDeliveries
    /\ sent' = [sent EXCEPT ![e] = @ + 1]
    /\ hevent' = [hevent EXCEPT ![h] = e]
    /\ hpc' = [hpc EXCEPT ![h] =
                  IF row[e] = "absent" THEN "insert" ELSE "respond"]
    /\ UNCHANGED <<rowVars, queueVars, workerVars, replayVars, replays, history>>

\* Stripe delivers e, for the first time or again; receive reads the row.
Deliver(h, e) ==
    /\ hpc[h] = "idle"
    /\ sent[e] < MaxDeliveries
    /\ sent' = [sent EXCEPT ![e] = @ + 1]
    /\ hevent' = [hevent EXCEPT ![h] = e]
    /\ hpc' = [hpc EXCEPT ![h] =
                  CASE row[e] = "absent"    -> "insert"
                    [] row[e] = "processed" -> "respond"
                    [] OTHER                -> "lookup"]
    /\ UNCHANGED <<rowVars, queueVars, workerVars, replayVars, replays, history>>

\* The insert; a unique violation reads the row another handler inserted.
Insert(h) ==
    LET e == hevent[h] IN
    /\ hpc[h] = "insert"
    /\ row' = [row EXCEPT ![e] = IF @ = "absent" THEN "received" ELSE @]
    /\ hpc' = [hpc EXCEPT ![h] =
                  IF row[e] = "processed" THEN "respond" ELSE "lookup"]
    /\ UNCHANGED <<stale, queueVars, workerVars, hevent, replayVars, boundVars,
                   history>>

\* getJob of the base job.
Lookup(h) ==
    /\ hpc[h] = "lookup"
    /\ hpc' = [hpc EXCEPT ![h] =
                  IF job[BaseJob(hevent[h])] = "absent" THEN "addBase" ELSE "isFailed"]
    /\ UNCHANGED <<rowVars, queueVars, workerVars, hevent, replayVars,
                   boundVars, history>>

\* isFailed asks Redis again: a job that has left it meanwhile is not failed.
IsFailed(h) ==
    /\ hpc[h] = "isFailed"
    /\ hpc' = [hpc EXCEPT ![h] =
                  IF job[BaseJob(hevent[h])] = "failed" THEN "addRetry" ELSE "respond"]
    /\ UNCHANGED <<rowVars, queueVars, workerVars, hevent, replayVars,
                   boundVars, history>>

\* queue.add under the base id, or under a retry id no other add has taken.
Add(h) ==
    LET e == hevent[h] IN
    /\ \/ /\ hpc[h] = "addBase"
          /\ AddJob(BaseJob(e))
       \/ /\ hpc[h] = "addRetry"
          /\ \E j \in RetryJobs(e) : job[j] = "absent" /\ AddJob(j)
    /\ hpc' = [hpc EXCEPT ![h] = "respond"]
    /\ UNCHANGED <<rowVars, workerVars, hevent, replayVars, boundVars, history>>

\* The 2xx reaches Stripe.
Respond(h) ==
    /\ hpc[h] = "respond"
    /\ acked' = [acked EXCEPT ![hevent[h]] = TRUE]
    /\ hpc' = [hpc EXCEPT ![h] = "idle"]
    /\ hevent' = [hevent EXCEPT ![h] = None]
    /\ UNCHANGED <<rowVars, queueVars, workerVars, replayVars, boundVars,
                   fulfilled, dueAgain, exhausted, forced>>

\* A database or Redis error (503), a crash of the process or a lost answer.
HandlerFails(h) ==
    /\ hpc[h] # "idle"
    /\ hpc' = [hpc EXCEPT ![h] = "idle"]
    /\ hevent' = [hevent EXCEPT ![h] = None]
    /\ UNCHANGED <<rowVars, queueVars, workerVars, replayVars, boundVars,
                   history>>

HandlerStep(h) ==
    Insert(h) \/ Lookup(h) \/ IsFailed(h) \/ Add(h) \/ Respond(h) \/ HandlerFails(h)

-----------------------------------------------------------------------------
(* The worker: process.                                                    *)

\* BullMQ hands a waiting job, its backoff over, to an idle worker.
Start(w, j) ==
    /\ wpc[w] = "idle"
    /\ job[j] = "waiting"
    /\ job' = [job EXCEPT ![j] = "active"]
    /\ holder' = [holder EXCEPT ![j] = w]
    /\ wpc' = [wpc EXCEPT ![w] = "claim"]
    /\ wjob' = [wjob EXCEPT ![w] = j]
    /\ UNCHANGED <<rowVars, attempts, stalls, handlerVars, replayVars,
                   boundVars, history>>

Goto(w, pc) ==
    /\ wpc' = [wpc EXCEPT ![w] = pc]
    /\ UNCHANGED wjob

\* Mutant: the claim forgets to ask how old the other claim is.
ClaimableAtAnyAge(e) == row[e] \in {"received", "failed", "processing"}

\* The WHERE clause of the claiming UPDATE.
Claimable(e) ==
    \/ row[e] \in {"received", "failed"}
    \/ row[e] = "processing" /\ stale[e]

SetProcessing(e) ==
    /\ row' = [row EXCEPT ![e] = "processing"]
    /\ stale' = [stale EXCEPT ![e] = FALSE]

\* claim: the UPDATE takes the row; its answer may be lost after the commit.
Claim(w) ==
    LET e == wjob[w].event IN
    /\ wpc[w] = "claim"
    /\ Claimable(e)
    /\ SetProcessing(e)
    /\ Goto(w, "fulfil") \/ Goto(w, "threw")
    /\ UNCHANGED <<queueVars, handlerVars, replayVars, boundVars, history>>

\* claim: the UPDATE affects no row.
ClaimRefused(w) ==
    /\ wpc[w] = "claim"
    /\ ~Claimable(wjob[w].event)
    /\ Goto(w, "check")
    /\ UNCHANGED <<rowVars, queueVars, handlerVars, replayVars, boundVars,
                   history>>

\* Mutant: a busy event is somebody else's, so the job is acknowledged.
CheckAcksBusy(w) ==
    /\ wpc[w] = "check"
    /\ Goto(w, "returned")
    /\ UNCHANGED <<rowVars, queueVars, handlerVars, replayVars, boundVars,
                   history>>

\* isProcessed: the job is done, or the event is busy and the job throws.
Check(w) ==
    /\ wpc[w] = "check"
    /\ Goto(w, IF row[wjob[w].event] = "processed" THEN "returned" ELSE "threw")
    /\ UNCHANGED <<rowVars, queueVars, handlerVars, replayVars, boundVars,
                   history>>

\* claim or isProcessed cannot reach the database: outside the try block.
ReadFails(w) ==
    /\ wpc[w] \in {"claim", "check"}
    /\ Goto(w, "threw")
    /\ UNCHANGED <<rowVars, queueVars, handlerVars, replayVars, boundVars,
                   history>>

\* fulfillmentService.process succeeds.
Fulfil(w) ==
    LET e == wjob[w].event IN
    /\ wpc[w] = "fulfil"
    /\ fulfilled' = [fulfilled EXCEPT ![e] = TRUE]
    /\ dueAgain' = [dueAgain EXCEPT ![e] = FALSE]
    /\ Goto(w, "mark")
    /\ UNCHANGED <<rowVars, queueVars, handlerVars, replayVars, boundVars,
                   acked, exhausted, forced>>

\* fulfillmentService.process throws.
FulfilFails(w) ==
    /\ wpc[w] = "fulfil"
    /\ Goto(w, "markFailed")
    /\ UNCHANGED <<rowVars, queueVars, handlerVars, replayVars, boundVars,
                   history>>

\* markProcessed, unconditional; its answer may be lost after the commit.
MarkProcessed(w) ==
    /\ wpc[w] = "mark"
    /\ row' = [row EXCEPT ![wjob[w].event] = "processed"]
    /\ Goto(w, "returned") \/ Goto(w, "markFailed")
    /\ UNCHANGED <<stale, queueVars, handlerVars, replayVars, boundVars,
                   history>>

\* markProcessed cannot reach the database: into the catch block.
MarkProcessedFails(w) ==
    /\ wpc[w] = "mark"
    /\ Goto(w, "markFailed")
    /\ UNCHANGED <<rowVars, queueVars, handlerVars, replayVars, boundVars,
                   history>>

\* markFailed, unconditional, then the error is thrown again.
MarkFailed(w) ==
    /\ wpc[w] = "markFailed"
    /\ row' = [row EXCEPT ![wjob[w].event] = "failed"]
    /\ Goto(w, "threw")
    /\ UNCHANGED <<stale, queueVars, handlerVars, replayVars, boundVars,
                   history>>

\* markFailed itself throws: the row stays "processing".
MarkFailedFails(w) ==
    /\ wpc[w] = "markFailed"
    /\ Goto(w, "threw")
    /\ UNCHANGED <<rowVars, queueVars, handlerVars, replayVars, boundVars,
                   history>>

Leave(w) ==
    /\ wpc' = [wpc EXCEPT ![w] = "idle"]
    /\ wjob' = [wjob EXCEPT ![w] = None]

\* process returned: BullMQ completes the job, unless its lock was lost.
Return(w) ==
    LET j == wjob[w] IN
    /\ wpc[w] = "returned"
    /\ \/ /\ holder[j] = w
          /\ Release(j, "completed")
       \/ /\ holder[j] # w
          /\ UNCHANGED <<job, holder, exhausted>>
    /\ Leave(w)
    /\ UNCHANGED <<rowVars, attempts, stalls, handlerVars, replayVars,
                   boundVars, acked, fulfilled, dueAgain, forced>>

\* Mutant: one attempt too many.
ThrowOnceMore(w) ==
    LET j == wjob[w] IN
    /\ wpc[w] = "threw"
    /\ holder[j] = w
    /\ attempts' = [attempts EXCEPT ![j] = @ + 1]
    /\ Release(j, IF attempts[j] < MaxAttempts THEN "waiting" ELSE "failed")
    /\ Leave(w)
    /\ UNCHANGED <<rowVars, stalls, handlerVars, replayVars, boundVars, acked,
                   fulfilled, dueAgain, forced>>

\* process threw: BullMQ retries the job until its attempts are spent.
Throw(w) ==
    LET j == wjob[w] IN
    /\ wpc[w] = "threw"
    /\ \/ /\ holder[j] = w
          /\ attempts' = [attempts EXCEPT ![j] = @ + 1]
          /\ Release(j, IF attempts[j] + 1 < MaxAttempts THEN "waiting"
                                                         ELSE "failed")
       \/ /\ holder[j] # w
          /\ UNCHANGED <<job, attempts, holder, exhausted>>
    /\ Leave(w)
    /\ UNCHANGED <<rowVars, stalls, handlerVars, replayVars, boundVars, acked,
                   fulfilled, dueAgain, forced>>

WorkerStep(w) ==
    \/ Claim(w) \/ ClaimRefused(w) \/ Check(w) \/ ReadFails(w)
    \/ Fulfil(w) \/ FulfilFails(w)
    \/ MarkProcessed(w) \/ MarkProcessedFails(w)
    \/ MarkFailed(w) \/ MarkFailedFails(w)
    \/ Return(w) \/ Throw(w)

-----------------------------------------------------------------------------
(* Crashes, lost locks, time and retention.                                *)

\* The process dies; its job stays active until the stall check finds it.
Crash(w) ==
    /\ wpc[w] # "idle"
    /\ Leave(w)
    /\ UNCHANGED <<rowVars, queueVars, handlerVars, replayVars, boundVars,
                   history>>

\* The lock of j has expired: BullMQ puts the job back, or gives it up.
Stall(j) ==
    /\ job[j] = "active"
    /\ stalls' = [stalls EXCEPT ![j] = IF @ < MaxStalls THEN @ + 1 ELSE @]
    /\ Release(j, IF stalls[j] < MaxStalls THEN "waiting" ELSE "failed")
    /\ UNCHANGED <<rowVars, attempts, workerVars, handlerVars, replayVars,
                   boundVars, acked, fulfilled, dueAgain, forced>>

\* The stall check finds a job whose worker no longer runs it.
Orphaned(j) == job[j] = "active" /\ \A w \in Workers : holder[j] = w => wjob[w] # j

\* Five minutes have passed since e was claimed.
ClaimAges(e) ==
    /\ row[e] = "processing"
    /\ ~stale[e]
    /\ stale' = [stale EXCEPT ![e] = TRUE]
    /\ forced' = [forced EXCEPT ![e] = @ \/ Engaged(e) # {}]
    /\ UNCHANGED <<row, queueVars, workerVars, handlerVars, replayVars,
                   boundVars, acked, fulfilled, dueAgain, exhausted>>

\* removeOnComplete, removeOnFail: a finished job is forgotten.
Expire(j) ==
    /\ job[j] \in {"completed", "failed"}
    /\ job' = [job EXCEPT ![j] = "absent"]
    /\ attempts' = [attempts EXCEPT ![j] = 0]
    /\ stalls' = [stalls EXCEPT ![j] = 0]
    /\ UNCHANGED <<rowVars, holder, workerVars, handlerVars, replayVars,
                   boundVars, history>>

-----------------------------------------------------------------------------
(* The operator's replay.                                                  *)

\* findOne; an event that has no row is an error and changes nothing.
ReplayFind(e) ==
    /\ rpc = "idle"
    /\ replays < MaxReplays
    /\ row[e] # "absent"
    /\ replays' = replays + 1
    /\ rpc' = "save"
    /\ revent' = e
    /\ UNCHANGED <<rowVars, queueVars, workerVars, handlerVars, sent, history>>

\* Mutant: the replay only queues the event and leaves its row as it is.
ReplayKeepsStatus ==
    /\ rpc = "save"
    /\ dueAgain' = [dueAgain EXCEPT ![revent] = TRUE]
    /\ forced' = [forced EXCEPT ![revent] = @ \/ Engaged(revent) # {}]
    /\ rpc' = "add"
    /\ UNCHANGED <<rowVars, queueVars, workerVars, handlerVars, revent, boundVars,
                   acked, fulfilled, exhausted>>

\* save writes the status back, whatever the row has become since.
ReplaySave ==
    /\ rpc = "save"
    /\ row' = [row EXCEPT ![revent] = "received"]
    /\ dueAgain' = [dueAgain EXCEPT ![revent] = TRUE]
    /\ forced' = [forced EXCEPT ![revent] = @ \/ Engaged(revent) # {}]
    /\ rpc' = "add"
    /\ UNCHANGED <<stale, queueVars, workerVars, handlerVars, revent, boundVars,
                   acked, fulfilled, exhausted>>

\* queue.add under a manual id of its own.
ReplayAdd ==
    /\ rpc = "add"
    /\ \E j \in ManualJobs(revent) : job[j] = "absent" /\ AddJob(j)
    /\ rpc' = "idle"
    /\ revent' = None
    /\ UNCHANGED <<rowVars, workerVars, handlerVars, boundVars, history>>

\* The database or Redis fails, or the process dies, between the two.
ReplayFails ==
    /\ rpc # "idle"
    /\ rpc' = "idle"
    /\ revent' = None
    /\ UNCHANGED <<rowVars, queueVars, workerVars, handlerVars, boundVars,
                   history>>

Replay == (\E e \in Events : ReplayFind(e)) \/ ReplaySave \/ ReplayAdd \/ ReplayFails

-----------------------------------------------------------------------------
Next ==
    \/ \E h \in Handlers, e \in Events : Deliver(h, e)
    \/ \E h \in Handlers : HandlerStep(h)
    \/ \E w \in Workers, j \in JobIds : Start(w, j)
    \/ \E w \in Workers : WorkerStep(w) \/ Crash(w)
    \/ \E j \in JobIds : Stall(j) \/ Expire(j)
    \/ \E e \in Events : ClaimAges(e)
    \/ Replay

Spec == Init /\ [][Next]_vars

\* A started job keeps going, a waiting job is started once its backoff is
\* over, and the stall check runs; nothing is assumed of Stripe, of the
\* operator, of crashes or of the outcome of a step.
Fairness ==
    /\ \A w \in Workers : WF_vars(WorkerStep(w))
    /\ \A j \in JobIds : WF_vars(\E w \in Workers : Start(w, j))
    /\ \A j \in JobIds : WF_vars(Orphaned(j) /\ Stall(j))

FairSpec == Spec /\ Fairness

-----------------------------------------------------------------------------
(* What the inbox promises.                                                *)

Live(j) == job[j] \in {"waiting", "active"}

\* Once Stripe has a 2xx it never sends the event again, so the event must by
\* then be fulfilled, or queued, or have used up a job: whatever the handlers,
\* workers and crashes did between the insert (58) and the add (91-97).
AckedNotLost ==
    \A e \in Events : acked[e] =>
        fulfilled[e] \/ exhausted[e] \/ \E j \in JobsOf(e) : Live(j)

\* A job is completed only for an event that was fulfilled: one that finds the
\* event busy is retried, never acknowledged (processor 25-32).
CompletedWasFulfilled ==
    \A j \in JobIds : job[j] = "completed" => fulfilled[j.event]

\* Unless its claim was broken under a worker still at it - it went stale, or
\* a replay reset it - no two workers fulfil the same event at once (claim).
ExclusiveClaim ==
    \A e \in Events : ~forced[e] =>
        \A v, w \in Engaged(e) : v = w

\* "processed" is the latest word on an event: it was fulfilled, and again
\* since the last replay reset it, unless the replay broke into a claim.
ProcessedIsCurrent ==
    \A e \in Events :
        row[e] = "processed" => fulfilled[e] /\ (forced[e] \/ ~dueAgain[e])

\* Every acknowledged event is in the end fulfilled, or its attempts are spent
\* and the operator has a failed job to look at: no claim left behind by a
\* crash, no lost race for the row and no lost lock parks it for ever.
AckedIsSettled ==
    \A e \in Events : acked[e] ~> (fulfilled[e] \/ exhausted[e])

\* What the tables and the queue say has become of an event.
CustodyOf(e) ==
    CASE fulfilled[e]                               -> "fulfilled"
      [] exhausted[e] /\ ~fulfilled[e]              -> "givenUp"
      [] ~fulfilled[e] /\ ~exhausted[e] /\ (\E j \in JobsOf(e) : Live(j)) -> "pending"
      [] OTHER                                      -> "unknown"

Inbox == INSTANCE EventInbox WITH custody <- [e \in Events |-> CustodyOf(e)]

\* Through every retry, crash and lost lock the inbox does what EventInbox
\* promises: whatever happens to rows, jobs and claims, an event never falls
\* out of custody, is never acknowledged outside it, and is settled in the end.
ImplementsInbox == Inbox!FairSpec

\* A delivery of an event that is not processed, whose first job the queue still
\* keeps but which has none pending, and is in nobody else's hands, puts a job in
\* the queue: "The event row is deliberately durable so a later delivery can
\* enqueue it again" (handleWebhook, 54-55).
DeliveryEnqueues ==
    [][\A h \in Handlers :
          LET e == hevent[h] IN
          (/\ IsFailed(h)
           /\ row[e] # "processed"
           /\ job[BaseJob(e)] # "absent"
           /\ \A j \in JobsOf(e) : ~Live(j)
           /\ rpc = "idle")
             => hpc'[h] # "respond"]_vars
=============================================================================

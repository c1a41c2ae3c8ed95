--------------------- MODULE StripePaymentEventsProofs ---------------------
(***************************************************************************)
(* Proofs about the webhook inbox, for any number of events, handlers,     *)
(* workers, attempts, stalls, deliveries and replays: its safety, and that *)
(* it implements EventInbox.                                               *)
(***************************************************************************)
EXTENDS StripePaymentEvents, TLAPS

USE DEF rowVars, queueVars, workerVars, handlerVars, replayVars, boundVars,
        history

(* The job ids of an event are job ids, and a busy worker or handler has an  *)
(* event: what every step needs to know of the records it indexes with.      *)
LEMMA JobIdFacts ==
    /\ \A e \in Events : BaseJob(e) \in JobIds /\ BaseJob(e).event = e
    /\ \A j \in JobIds : j.event \in Events
BY DEF BaseJob, JobIds, Tags

(* Whoever is at work has a job or an event.                                 *)
LEMMA BusyFacts ==
    ASSUME TypeOK
    PROVE  /\ \A w \in Workers : wpc[w] # "idle" =>
                  wjob[w] \in JobIds /\ wjob[w].event \in Events
           /\ \A h \in Handlers : hpc[h] # "idle" => hevent[h] \in Events
           /\ rpc # "idle" => revent \in Events
BY JobIdFacts DEF TypeOK

(* What the queue keeps true of a job, and TypeOK needs: only an active job  *)
(* is under a lock, a job that may still run has an attempt left, and a new  *)
(* job has used none.                                                        *)
QueueInv ==
    \A j \in JobIds :
        /\ holder[j] # None => job[j] = "active"
        /\ Live(j) => attempts[j] < MaxAttempts
        /\ job[j] = "absent" => attempts[j] = 0

TypeInv == TypeOK /\ QueueInv

(* Every step of the inbox keeps every variable in its type.                 *)
LEMMA TypeStep == TypeInv /\ [Next]_vars => TypeOK'
<1> SUFFICES ASSUME TypeInv, [Next]_vars
             PROVE  TypeOK'
    OBVIOUS
<1> USE NoneAssumption, BoundsAssumption, JobIdFacts, BusyFacts DEF TypeInv
<1>1. ASSUME NEW h \in Handlers, NEW e \in Events, Deliver(h, e)
      PROVE  TypeOK'
  BY <1>1 DEF TypeOK, Deliver, HandlerPc, RowStatus
<1>2. ASSUME NEW h \in Handlers, HandlerStep(h)
      PROVE  TypeOK'
  <2>1. CASE Insert(h)
    BY <2>1 DEF TypeOK, Insert, HandlerPc, RowStatus
  <2>2. CASE Lookup(h) \/ IsFailed(h)
    BY <2>2 DEF TypeOK, Lookup, IsFailed, HandlerPc
  <2>3. CASE Add(h)
    BY <2>3 DEF TypeOK, Add, AddJob, RetryJobs, JobsOf, HandlerPc, JobStatus
  <2>4. CASE Respond(h)
    BY <2>4 DEF TypeOK, Respond, HandlerPc
  <2>5. CASE HandlerFails(h)
    BY <2>5 DEF TypeOK, HandlerFails, HandlerPc
  <2>6. QED BY <1>2, <2>1, <2>2, <2>3, <2>4, <2>5 DEF HandlerStep
<1>3. ASSUME NEW w \in Workers, NEW j \in JobIds, Start(w, j)
      PROVE  TypeOK'
  BY <1>3 DEF TypeOK, Start, WorkerPc, JobStatus
<1>4. ASSUME NEW w \in Workers, WorkerStep(w)
      PROVE  TypeOK'
  <2>1. CASE Claim(w)
    BY <2>1 DEF TypeOK, Claim, SetProcessing, Goto, WorkerPc, RowStatus
  <2>2. CASE ClaimRefused(w) \/ Check(w) \/ ReadFails(w) \/ FulfilFails(w)
             \/ MarkProcessedFails(w) \/ MarkFailedFails(w)
    BY <2>2 DEF TypeOK, ClaimRefused, Check, ReadFails, FulfilFails,
                MarkProcessedFails, MarkFailedFails, Goto, WorkerPc
  <2>3. CASE Fulfil(w)
    BY <2>3 DEF TypeOK, Fulfil, Goto, WorkerPc
  <2>4. CASE MarkProcessed(w) \/ MarkFailed(w)
    <3>1. wjob[w].event \in Events
      BY <2>4 DEF MarkProcessed, MarkFailed
    <3>2. row' \in [Events -> RowStatus]
      BY <2>4, <3>1 DEF TypeOK, MarkProcessed, MarkFailed, RowStatus
    <3>3. QED
      BY <2>4, <3>2
      DEF TypeOK, MarkProcessed, MarkFailed, Goto, WorkerPc
  <2>5. CASE Return(w)
    <3>1. CASE holder[wjob[w]] = w
      BY ZenonT(60), <2>5, <3>1 DEF TypeOK, Return, Release, Leave, WorkerPc, JobStatus
    <3>2. CASE holder[wjob[w]] # w
      BY <2>5, <3>2 DEF TypeOK, Return, Leave, WorkerPc
    <3>3. QED BY <3>1, <3>2
  <2>6. CASE Throw(w)
    <3>1. CASE holder[wjob[w]] = w
      <4>1. /\ wjob[w] \in JobIds
            /\ attempts[wjob[w]] + 1 \in 0..MaxAttempts
        BY <2>6, <3>1 DEF TypeOK, QueueInv, Live, Throw
      <4>2. /\ attempts' \in [JobIds -> 0..MaxAttempts]
            /\ holder' \in [JobIds -> Workers \cup {None}]
            /\ exhausted' \in [Events -> BOOLEAN]
        <5>1. attempts' = [attempts EXCEPT ![wjob[w]] = @ + 1]
          BY <2>6, <3>1 DEF Throw
        <5>2. attempts' \in [JobIds -> 0..MaxAttempts]
          BY <4>1, <5>1 DEF TypeOK
        <5>3. holder' \in [JobIds -> Workers \cup {None}]
          BY <2>6, <3>1, <4>1 DEF TypeOK, Throw, Release
        <5>4. exhausted' \in [Events -> BOOLEAN]
          BY <2>6, <3>1, <4>1 DEF TypeOK, Throw, Release
        <5>5. QED BY <5>2, <5>3, <5>4
      <4>3. job' \in [JobIds -> JobStatus]
        BY <2>6, <3>1, <4>1 DEF TypeOK, Throw, Release, JobStatus
      <4>4. /\ wpc' \in [Workers -> WorkerPc]
            /\ wjob' \in [Workers -> JobIds \cup {None}]
            /\ \A v \in Workers : wpc'[v] # "idle" => wjob'[v] # None
        BY <2>6 DEF TypeOK, Throw, Leave, WorkerPc
      <4>5. QED
        BY <2>6, <4>2, <4>3, <4>4 DEF TypeOK, Throw
    <3>2. CASE holder[wjob[w]] # w
      BY <2>6, <3>2 DEF TypeOK, Throw, Leave, WorkerPc
    <3>3. QED BY <3>1, <3>2
  <2>7. QED BY <1>4, <2>1, <2>2, <2>3, <2>4, <2>5, <2>6 DEF WorkerStep
<1>5. ASSUME NEW w \in Workers, Crash(w)
      PROVE  TypeOK'
  BY <1>5 DEF TypeOK, Crash, Leave, WorkerPc
<1>6. ASSUME NEW j \in JobIds, Stall(j)
      PROVE  TypeOK'
  BY <1>6 DEF TypeOK, Stall, Release, JobStatus
<1>7. ASSUME NEW j \in JobIds, Expire(j)
      PROVE  TypeOK'
  BY <1>7 DEF TypeOK, Expire, JobStatus
<1>8. ASSUME NEW e \in Events, ClaimAges(e)
      PROVE  TypeOK'
  BY <1>8 DEF TypeOK, ClaimAges
<1>9. CASE Replay
  <2>1. ASSUME NEW e \in Events, ReplayFind(e)
        PROVE  TypeOK'
    BY <2>1 DEF TypeOK, ReplayFind, ReplayPc
  <2>2. CASE ReplaySave
    BY <2>2 DEF TypeOK, ReplaySave, ReplayPc, RowStatus
  <2>3. CASE ReplayAdd
    BY <2>3 DEF TypeOK, ReplayAdd, AddJob, ManualJobs, JobsOf, ReplayPc, JobStatus
  <2>4. CASE ReplayFails
    BY <2>4 DEF TypeOK, ReplayFails, ReplayPc
  <2>5. QED BY <1>9, <2>1, <2>2, <2>3, <2>4 DEF Replay
<1>10. CASE UNCHANGED vars
  BY <1>10 DEF TypeOK, vars
<1>11. QED
  BY <1>1, <1>2, <1>3, <1>4, <1>5, <1>6, <1>7, <1>8, <1>9, <1>10 DEF Next

(* Every step keeps the queue's own invariant.                                *)
LEMMA QueueStep == TypeInv /\ [Next]_vars => QueueInv'
<1> SUFFICES ASSUME TypeInv, [Next]_vars
             PROVE  QueueInv'
    OBVIOUS
<1> USE NoneAssumption, BoundsAssumption, JobIdFacts, BusyFacts DEF TypeInv
<1>1. CASE UNCHANGED queueVars
  BY <1>1 DEF QueueInv, Live
<1>2. ASSUME NEW j \in JobIds, AddJob(j)
      PROVE  QueueInv'
  BY <1>2 DEF TypeOK, QueueInv, Live, AddJob
<1>3. ASSUME NEW h \in Handlers, HandlerStep(h)
      PROVE  QueueInv'
  BY <1>1, <1>2, <1>3 DEF HandlerStep, Insert, Lookup, IsFailed, Add, Respond,
                          HandlerFails, RetryJobs, JobsOf
<1>4. ASSUME NEW w \in Workers, NEW j \in JobIds, Start(w, j)
      PROVE  QueueInv'
  BY <1>4 DEF TypeOK, QueueInv, Live, Start
<1>5. ASSUME NEW w \in Workers, WorkerStep(w)
      PROVE  QueueInv'
  <2>1. CASE Return(w)
    BY <2>1 DEF TypeOK, QueueInv, Live, Return, Release
  <2>2. CASE Throw(w)
    <3>1. CASE holder[wjob[w]] = w
      <4>1. /\ wjob[w] \in JobIds
            /\ attempts[wjob[w]] \in Nat
        BY <2>2 DEF TypeOK, Throw
      <4>2. QED
        BY <2>2, <3>1, <4>1 DEF TypeOK, QueueInv, Live, Throw, Release
    <3>2. CASE holder[wjob[w]] # w
      BY <1>1, <2>2, <3>2 DEF Throw
    <3>3. QED BY <3>1, <3>2
  <2>3. QED
    BY <1>1, <1>5, <2>1, <2>2
    DEF WorkerStep, Claim, ClaimRefused, Check, ReadFails, Fulfil, FulfilFails,
        MarkProcessed, MarkProcessedFails, MarkFailed, MarkFailedFails
<1>6. ASSUME NEW j \in JobIds, Stall(j)
      PROVE  QueueInv'
  BY <1>6 DEF TypeOK, QueueInv, Live, Stall, Release
<1>7. ASSUME NEW j \in JobIds, Expire(j)
      PROVE  QueueInv'
  BY <1>7 DEF TypeOK, QueueInv, Live, Expire
<1>8. CASE Replay
  BY <1>1, <1>2, <1>8 DEF Replay, ReplayFind, ReplaySave, ReplayAdd,
                          ReplayFails, ManualJobs, JobsOf
<1>9. QED
  BY <1>1, <1>3, <1>4, <1>5, <1>6, <1>7, <1>8
  DEF Next, vars, Deliver, Crash, ClaimAges

-----------------------------------------------------------------------------
(* TypeInv holds at first, and throughout, for the theorems below.           *)
LEMMA TypeInvariantInit == Init => TypeInv
BY BoundsAssumption DEF Init, TypeInv, TypeOK, QueueInv, Live, RowStatus,
                        JobStatus, WorkerPc, HandlerPc, ReplayPc

(* Types and the queue's facts about its jobs hold at all times.             *)
LEMMA TypeInvariant == Spec => []TypeInv
<1>1. TypeInv /\ [Next]_vars => TypeInv'
  BY TypeStep, QueueStep DEF TypeInv
<1>2. QED BY <1>1, TypeInvariantInit, PTL DEF Spec

(* Every variable stays in its type, in every instance of the inbox.         *)
THEOREM TypeCorrect == Spec => []TypeOK
<1>1. TypeInv => TypeOK
  BY DEF TypeInv
<1>2. QED BY <1>1, TypeInvariant, PTL

-----------------------------------------------------------------------------
(* Nothing is recorded as done that was not: not by a worker on its way to   *)
(* recording it, not by the row, not by the queue.                           *)
FulfilledInv ==
    /\ \A w \in Workers :
          wpc[w] \in {"mark", "returned"} => fulfilled[wjob[w].event]
    /\ \A e \in Events : row[e] = "processed" => fulfilled[e]
    /\ CompletedWasFulfilled

(* Every step keeps a completed job's event fulfilled.                       *)
LEMMA FulfilledStep ==
    TypeInv /\ FulfilledInv /\ [Next]_vars => FulfilledInv'
<1> SUFFICES ASSUME TypeInv, FulfilledInv, [Next]_vars
             PROVE  FulfilledInv'
    OBVIOUS
<1> USE NoneAssumption, JobIdFacts, BusyFacts DEF TypeInv, TypeOK
<1>1. CASE UNCHANGED <<row, job, wpc, wjob, fulfilled>>
  BY <1>1 DEF FulfilledInv, CompletedWasFulfilled
<1>2. ASSUME NEW j \in JobIds, AddJob(j), UNCHANGED <<row, wpc, wjob, fulfilled>>
      PROVE  FulfilledInv'
  BY <1>2 DEF FulfilledInv, CompletedWasFulfilled, AddJob
<1>3. ASSUME NEW h \in Handlers, HandlerStep(h)
      PROVE  FulfilledInv'
  <2>1. CASE Insert(h)
    BY <2>1 DEF FulfilledInv, CompletedWasFulfilled, Insert
  <2>2. CASE Add(h)
    BY <1>2, <2>2 DEF Add, RetryJobs, JobsOf
  <2>3. QED
    BY <1>1, <1>3, <2>1, <2>2 DEF HandlerStep, Lookup, IsFailed, Respond, HandlerFails
<1>4. ASSUME NEW w \in Workers, NEW j \in JobIds, Start(w, j)
      PROVE  FulfilledInv'
  BY <1>4 DEF FulfilledInv, CompletedWasFulfilled, Start
<1>5. ASSUME NEW w \in Workers, WorkerStep(w)
      PROVE  FulfilledInv'
  <2>1. CASE Claim(w)
    BY <2>1 DEF FulfilledInv, CompletedWasFulfilled, Claim, SetProcessing, Goto
  <2>2. CASE ClaimRefused(w) \/ Check(w) \/ ReadFails(w) \/ FulfilFails(w)
             \/ MarkProcessedFails(w) \/ MarkFailedFails(w)
    BY <2>2 DEF FulfilledInv, CompletedWasFulfilled, ClaimRefused, Check,
                ReadFails, FulfilFails, MarkProcessedFails, MarkFailedFails, Goto
  <2>3. CASE Fulfil(w)
    BY <2>3 DEF FulfilledInv, CompletedWasFulfilled, Fulfil, Goto
  <2>4. CASE MarkProcessed(w) \/ MarkFailed(w)
    BY SMTT(30), <2>4 DEF FulfilledInv, CompletedWasFulfilled, MarkProcessed, MarkFailed,
                Goto
  <2>5. CASE Return(w)
    BY <2>5 DEF FulfilledInv, CompletedWasFulfilled, Return, Release, Leave
  <2>6. CASE Throw(w)
    BY <2>6 DEF FulfilledInv, CompletedWasFulfilled, Throw, Release, Leave
  <2>7. QED BY <1>5, <2>1, <2>2, <2>3, <2>4, <2>5, <2>6 DEF WorkerStep
<1>6. ASSUME NEW w \in Workers, Crash(w)
      PROVE  FulfilledInv'
  BY <1>6 DEF FulfilledInv, CompletedWasFulfilled, Crash, Leave
<1>7. ASSUME NEW j \in JobIds, Stall(j) \/ Expire(j)
      PROVE  FulfilledInv'
  BY <1>7 DEF FulfilledInv, CompletedWasFulfilled, Stall, Release, Expire
<1>8. CASE Replay
  <2>1. CASE ReplaySave
    BY <2>1 DEF FulfilledInv, CompletedWasFulfilled, ReplaySave
  <2>2. QED
    BY <1>1, <1>2, <1>8, <2>1
    DEF Replay, ReplayFind, ReplayAdd, ReplayFails, ManualJobs, JobsOf
<1>9. QED
  BY <1>1, <1>3, <1>4, <1>5, <1>6, <1>7, <1>8
  DEF Next, vars, Deliver, ClaimAges

(* A job is completed only for an event that was fulfilled.                  *)
THEOREM CompletedCorrect == Spec => []CompletedWasFulfilled
<1>1. Init => FulfilledInv
  BY DEF Init, FulfilledInv, CompletedWasFulfilled
<1>2. FulfilledInv => CompletedWasFulfilled
  BY DEF FulfilledInv
<1>3. QED BY <1>1, <1>2, FulfilledStep, TypeInvariant, PTL DEF Spec

-----------------------------------------------------------------------------
(* An event Stripe need not send again: AckedNotLost asks it of every event  *)
(* that got its 2xx, the invariant also of those whose handler is about to   *)
(* send one.                                                                 *)
Accounted(e) ==
    fulfilled[e] \/ exhausted[e] \/ \E j \in JobsOf(e) : Live(j)

AckedInv ==
    /\ \A j \in JobIds : job[j] = "failed" => exhausted[j.event]
    /\ \A e \in Events : acked[e] => Accounted(e)
    /\ \A h \in Handlers : hpc[h] \in {"isFailed", "respond"} => Accounted(hevent[h])

(* No step takes a job from an event without fulfilling or exhausting it.    *)
LEMMA AccountedStable ==
    ASSUME TypeInv, FulfilledInv, [Next]_vars, NEW e \in Events, Accounted(e)
    PROVE  Accounted(e)'
<1> USE NoneAssumption, JobIdFacts, BusyFacts DEF TypeInv, TypeOK
<1>1. CASE fulfilled'[e] \/ exhausted'[e]
  BY <1>1 DEF Accounted
<1>2. ASSUME NEW j \in JobIds, j.event = e, Live(j), Live(j)'
      PROVE  Accounted(e)'
  BY <1>2 DEF Accounted, JobsOf
<1>3. CASE fulfilled[e] \/ exhausted[e]
  <2>1. fulfilled[e] => fulfilled'[e]
    BY SMTT(30) DEF Next, vars, Deliver, HandlerStep, Insert, Lookup, IsFailed, Add, Respond,
           HandlerFails, Start, WorkerStep, Claim, ClaimRefused, Check,
           ReadFails, Fulfil, FulfilFails, MarkProcessed, MarkProcessedFails,
           MarkFailed, MarkFailedFails, Return, Throw, Crash, Stall, Expire,
           ClaimAges, Replay, ReplayFind, ReplaySave, ReplayAdd, ReplayFails
  <2>2. exhausted[e] => exhausted'[e]
    BY SMTT(30) DEF Next, vars, Deliver, HandlerStep, Insert, Lookup, IsFailed, Add, Respond,
           HandlerFails, Start, WorkerStep, Claim, ClaimRefused, Check,
           ReadFails, Fulfil, FulfilFails, MarkProcessed, MarkProcessedFails,
           MarkFailed, MarkFailedFails, Return, Throw, Crash, Stall, Expire,
           ClaimAges, Replay, ReplayFind, ReplaySave, ReplayAdd, ReplayFails,
           Release
  <2>3. QED BY <1>1, <1>3, <2>1, <2>2
<1>4. ASSUME NEW j \in JobIds, j.event = e, Live(j)
      PROVE  Accounted(e)'
  <2>1. CASE UNCHANGED job
    BY <1>2, <1>4, <2>1 DEF Live
  <2>2. ASSUME NEW i \in JobIds, AddJob(i)
        PROVE  Accounted(e)'
    BY <1>2, <1>4, <2>2 DEF Live, AddJob
  <2>3. ASSUME NEW h \in Handlers, Add(h)
        PROVE  Accounted(e)'
    BY <2>2, <2>3 DEF Add, RetryJobs, JobsOf
  <2>4. ASSUME NEW w \in Workers, NEW i \in JobIds, Start(w, i)
        PROVE  Accounted(e)'
    BY <1>2, <1>4, <2>4 DEF Live, Start
  <2>5. ASSUME NEW w \in Workers, Return(w)
        PROVE  Accounted(e)'
    <3>1. fulfilled'[wjob[w].event]
      BY <2>5 DEF FulfilledInv, Return
    <3>2. QED BY <1>1, <1>2, <1>4, <2>5, <3>1 DEF Live, Return, Release
  <2>6. ASSUME NEW w \in Workers, Throw(w)
        PROVE  Accounted(e)'
    <3>1. wjob[w] \in JobIds
      BY <2>6 DEF Throw
    <3>2. CASE UNCHANGED job
      BY <2>1, <3>2
    <3>3. CASE Release(wjob[w], "waiting")
      BY <1>2, <1>4, <3>1, <3>3 DEF Live, Release
    <3>4. CASE Release(wjob[w], "failed")
      BY <1>1, <1>2, <1>4, <3>1, <3>4 DEF Live, Release
    <3>5. QED BY <2>6, <3>2, <3>3, <3>4 DEF Throw
  <2>7. ASSUME NEW i \in JobIds, Stall(i)
        PROVE  Accounted(e)'
    BY <1>1, <1>2, <1>4, <2>7 DEF Live, Stall, Release
  <2>8. ASSUME NEW i \in JobIds, Expire(i)
        PROVE  Accounted(e)'
    BY <1>2, <1>4, <2>8 DEF Live, Expire
  <2>9. CASE ReplayAdd
    BY <2>2, <2>9 DEF ReplayAdd, ManualJobs, JobsOf
  <2>10. QED
    BY <2>1, <2>3, <2>4, <2>5, <2>6, <2>7, <2>8, <2>9
    DEF Next, vars, Deliver, HandlerStep, Insert, Lookup, IsFailed, Respond,
        HandlerFails, WorkerStep, Claim, ClaimRefused, Check, ReadFails,
        Fulfil, FulfilFails, MarkProcessed, MarkProcessedFails, MarkFailed,
        MarkFailedFails, Crash, ClaimAges, Replay, ReplayFind, ReplaySave,
        ReplayFails
<1>5. QED BY <1>3, <1>4 DEF Accounted, JobsOf

(* A handler that is about to answer 2xx has left its event accounted for.   *)
LEMMA HandlerAccounts ==
    ASSUME TypeInv, FulfilledInv, AckedInv, NEW h \in Handlers,
           HandlerStep(h), hpc'[h] \in {"isFailed", "respond"}
    PROVE  Accounted(hevent[h])'
<1> USE NoneAssumption, JobIdFacts, BusyFacts DEF TypeInv, TypeOK
<1> DEFINE e == hevent[h]
<1>1. CASE Insert(h)
  BY <1>1 DEF Insert, FulfilledInv, Accounted
<1>2. CASE Lookup(h)
  BY <1>2 DEF Lookup, FulfilledInv, CompletedWasFulfilled, AckedInv, Accounted,
              JobsOf, Live, JobStatus
<1>3. CASE Add(h)
  <2>1. PICK j \in JobIds : j.event = e /\ AddJob(j)
    BY <1>3 DEF Add, RetryJobs, JobsOf
  <2>2. e \in Events /\ job'[j] \notin {"absent"}
    BY <1>3, <2>1 DEF Add, AddJob
  <2>3. CASE job'[j] = "completed"
    BY <1>3, <2>1, <2>3 DEF Add, AddJob, FulfilledInv, CompletedWasFulfilled,
                            Accounted
  <2>4. CASE job'[j] = "failed"
    BY <1>3, <2>1, <2>4 DEF Add, AddJob, AckedInv, Accounted
  <2>5. CASE job'[j] \in {"waiting", "active"}
    BY <1>3, <2>1, <2>5 DEF Add, Accounted, JobsOf, Live
  <2>6. job'[j] \in JobStatus
    BY <2>1 DEF AddJob, JobStatus
  <2>7. QED BY <1>3, <2>2, <2>3, <2>4, <2>5, <2>6 DEF JobStatus, Add
<1>4. CASE IsFailed(h)
  BY <1>4 DEF IsFailed, AckedInv, Accounted, JobsOf, Live
<1>5. QED BY <1>1, <1>2, <1>3, <1>4 DEF HandlerStep, Respond, HandlerFails

(* A job that has failed is on the record as given up.                       *)
LEMMA FailedIsExhausted ==
    ASSUME TypeInv, AckedInv, [Next]_vars,
           NEW j \in JobIds, job'[j] = "failed"
    PROVE  exhausted'[j.event]
<1> USE NoneAssumption, JobIdFacts, BusyFacts DEF TypeInv, TypeOK
<1>1. CASE UNCHANGED <<job, exhausted>>
  BY <1>1 DEF AckedInv
<1>2. ASSUME NEW i \in JobIds, AddJob(i), UNCHANGED exhausted
      PROVE  exhausted'[j.event]
  BY <1>2 DEF AckedInv, AddJob
<1>3. ASSUME NEW i \in JobIds, NEW status, Release(i, status)
      PROVE  exhausted'[j.event]
  BY <1>3 DEF AckedInv, Release
<1>4. ASSUME NEW h \in Handlers, HandlerStep(h)
      PROVE  exhausted'[j.event]
  BY <1>1, <1>2, <1>4 DEF HandlerStep, Insert, Lookup, IsFailed, Add, Respond,
                          HandlerFails, RetryJobs, JobsOf
<1>5. ASSUME NEW w \in Workers, NEW i \in JobIds, Start(w, i)
      PROVE  exhausted'[j.event]
  BY <1>5 DEF AckedInv, Start
<1>6. ASSUME NEW w \in Workers, WorkerStep(w)
      PROVE  exhausted'[j.event]
  BY <1>1, <1>3, <1>6
  DEF WorkerStep, Claim, ClaimRefused, Check, ReadFails, Fulfil, FulfilFails,
      MarkProcessed, MarkProcessedFails, MarkFailed, MarkFailedFails, Return,
      Throw
<1>7. ASSUME NEW i \in JobIds, Stall(i) \/ Expire(i)
      PROVE  exhausted'[j.event]
  BY <1>3, <1>7 DEF AckedInv, Stall, Expire
<1>8. CASE Replay
  BY <1>1, <1>2, <1>8 DEF Replay, ReplayFind, ReplaySave, ReplayAdd,
                          ReplayFails, ManualJobs, JobsOf
<1>9. QED
  BY <1>1, <1>4, <1>5, <1>6, <1>7, <1>8
  DEF Next, vars, Deliver, Crash, ClaimAges

(* Every step keeps an accepted event accounted for.                         *)
LEMMA AckedStep ==
    TypeInv /\ FulfilledInv /\ AckedInv /\ [Next]_vars => AckedInv'
<1> SUFFICES ASSUME TypeInv, FulfilledInv, AckedInv, [Next]_vars
             PROVE  AckedInv'
    OBVIOUS
<1> USE NoneAssumption, JobIdFacts, BusyFacts DEF TypeInv, TypeOK
<1>1. \A j \in JobIds : job'[j] = "failed" => exhausted'[j.event]
  BY FailedIsExhausted
<1>2. \A e \in Events : Accounted(e) => Accounted(e)'
  BY AccountedStable
<1>3. ASSUME NEW h \in Handlers, hpc[h] \in {"isFailed", "respond"}, hpc'[h] = hpc[h],
             hevent'[h] = hevent[h]
      PROVE  Accounted(hevent[h])'
  <2>1. hevent[h] \in Events /\ Accounted(hevent[h])
    BY <1>3 DEF AckedInv
  <2>2. QED BY <1>2, <1>3, <2>1 DEF Accounted
<1>4. ASSUME NEW h \in Handlers, NEW e \in Events, Deliver(h, e)
      PROVE  AckedInv'
  <2>1. ASSUME NEW g \in Handlers, hpc'[g] \in {"isFailed", "respond"}
        PROVE  Accounted(hevent[g])'
    <3>1. CASE g = h
      BY <1>4, <2>1, <3>1 DEF Deliver, FulfilledInv, Accounted
    <3>2. CASE g # h
      BY <1>3, <1>4, <2>1, <3>2 DEF Deliver
    <3>3. QED BY <3>1, <3>2
  <2>2. \A f \in Events : acked'[f] => acked[f]
    BY <1>4 DEF Deliver
  <2>3. QED BY <1>1, <1>2, <2>1, <2>2 DEF AckedInv
<1>5. ASSUME NEW h \in Handlers, HandlerStep(h)
      PROVE  AckedInv'
  <2>1. ASSUME NEW g \in Handlers, hpc'[g] \in {"isFailed", "respond"}
        PROVE  Accounted(hevent[g])'
    <3>1. CASE g = h
      BY <1>5, <2>1, <3>1, HandlerAccounts
    <3>2. (hpc'[g] = hpc[g] /\ hevent'[g] = hevent[g]) \/ g = h
      BY <1>5 DEF HandlerStep, Insert, Lookup, IsFailed, Add, Respond, HandlerFails
    <3>3. QED BY <1>3, <2>1, <3>1, <3>2
  <2>2. ASSUME NEW f \in Events, acked'[f]
        PROVE  Accounted(f)'
    <3>1. CASE acked[f]
      BY <1>2, <3>1 DEF AckedInv
    <3>2. CASE ~acked[f]
      <4>1. hpc[h] = "respond" /\ hevent[h] = f
        BY <1>5, <2>2, <3>2
        DEF HandlerStep, Insert, Lookup, IsFailed, Add, Respond, HandlerFails
      <4>2. QED BY <1>2, <4>1 DEF AckedInv
    <3>3. QED BY <3>1, <3>2
  <2>3. QED BY <1>1, <2>1, <2>2 DEF AckedInv
<1>6. CASE UNCHANGED <<acked, hpc, hevent>>
  <2>1. ASSUME NEW g \in Handlers, hpc'[g] \in {"isFailed", "respond"}
        PROVE  Accounted(hevent[g])'
    BY <1>3, <1>6, <2>1
  <2>2. QED BY <1>1, <1>2, <1>6, <2>1 DEF AckedInv
<1>7. QED
  BY <1>4, <1>5, <1>6
  DEF Next, vars, Start, WorkerStep, Claim, ClaimRefused, Check, ReadFails,
      Fulfil, FulfilFails, MarkProcessed, MarkProcessedFails, MarkFailed,
      MarkFailedFails, Return, Throw, Crash, Stall, Expire, ClaimAges, Replay,
      ReplayFind, ReplaySave, ReplayAdd, ReplayFails

(* Whatever got its 2xx is fulfilled, queued, or given up in the open.       *)
THEOREM AckedCorrect == Spec => []AckedNotLost
<1>1. Init => FulfilledInv /\ AckedInv
  BY DEF Init, FulfilledInv, CompletedWasFulfilled, AckedInv
<1>2. AckedInv => AckedNotLost
  BY DEF AckedInv, AckedNotLost, Accounted
<1>3. QED
  BY <1>1, <1>2, FulfilledStep, AckedStep, TypeInvariant, PTL DEF Spec

-----------------------------------------------------------------------------
(* As long as nothing has broken a claim of e, its worker is alone with it,  *)
(* the row says "processing" and the claim is fresh - or its own             *)
(* markProcessed was committed and the answer lost - and what it fulfilled   *)
(* no replay has reset.                                                      *)
ClaimInv ==
    \A e \in Events : ~forced[e] =>
        /\ \A v, w \in Engaged(e) : v = w
        /\ \A w \in Engaged(e) :
              \/ row[e] = "processing" /\ ~stale[e]
              \/ row[e] = "processed" /\ wpc[w] = "markFailed"
        /\ \A w \in Engaged(e) : wpc[w] = "mark" => ~dueAgain[e]
        /\ row[e] = "processed" => ~dueAgain[e]

(* Every step keeps one worker at an event that was not forced.              *)
LEMMA ClaimStep == TypeInv /\ ClaimInv /\ [Next]_vars => ClaimInv'
<1> SUFFICES ASSUME TypeInv, ClaimInv, [Next]_vars,
                    NEW e \in Events, ~forced'[e]
             PROVE  /\ \A v, w \in Engaged(e)' : v = w
                    /\ \A w \in Engaged(e)' :
                          \/ row'[e] = "processing" /\ ~stale'[e]
                          \/ row'[e] = "processed" /\ wpc'[w] = "markFailed"
                    /\ \A w \in Engaged(e)' : wpc'[w] = "mark" => ~dueAgain'[e]
                    /\ row'[e] = "processed" => ~dueAgain'[e]
    BY DEF ClaimInv
<1> DEFINE Goal == /\ \A v, w \in Engaged(e)' : v = w
                   /\ \A w \in Engaged(e)' :
                         \/ row'[e] = "processing" /\ ~stale'[e]
                         \/ row'[e] = "processed" /\ wpc'[w] = "markFailed"
                   /\ \A w \in Engaged(e)' :
                         wpc'[w] = "mark" => ~dueAgain'[e]
                   /\ row'[e] = "processed" => ~dueAgain'[e]
<1> DEFINE Holds == /\ \A v, w \in Engaged(e) : v = w
                    /\ \A w \in Engaged(e) :
                          \/ row[e] = "processing" /\ ~stale[e]
                          \/ row[e] = "processed" /\ wpc[w] = "markFailed"
                    /\ \A w \in Engaged(e) : wpc[w] = "mark" => ~dueAgain[e]
                    /\ row[e] = "processed" => ~dueAgain[e]
<1> USE NoneAssumption, JobIdFacts, BusyFacts DEF TypeInv, TypeOK
<1>0. ~forced[e] => Holds
  BY DEF ClaimInv
<1>1. CASE UNCHANGED <<row, stale, wpc, wjob, dueAgain, forced>>
  BY <1>1 DEF ClaimInv, Engaged
<1>10. ASSUME UNCHANGED <<row, stale, dueAgain, forced>>,
              \A v \in Engaged(e)' : v \in Engaged(e) /\ wpc'[v] = wpc[v]
       PROVE  Goal
  BY <1>0, <1>10
<1>2. ASSUME NEW h \in Handlers, HandlerStep(h)
      PROVE  Goal
  <2>1. CASE Insert(h)
    BY <2>1 DEF ClaimInv, Engaged, Insert
  <2>2. QED
    BY <1>1, <1>2, <2>1 DEF HandlerStep, Lookup, IsFailed, Add, Respond, HandlerFails
<1>3. ASSUME NEW w \in Workers, NEW j \in JobIds, Start(w, j)
      PROVE  Goal
  BY <1>3 DEF ClaimInv, Engaged, Start
<1>4. ASSUME NEW w \in Workers, WorkerStep(w)
      PROVE  Goal
  <2>1. CASE Claim(w)
    <3>1. /\ UNCHANGED <<dueAgain, forced, wjob>>
          /\ row' = [row EXCEPT ![wjob[w].event] = "processing"]
          /\ stale' = [stale EXCEPT ![wjob[w].event] = FALSE]
      BY <2>1 DEF Claim, SetProcessing, Goto
    <3>2. \E pc \in {"fulfil", "threw"} : wpc' = [wpc EXCEPT ![w] = pc]
      BY <2>1 DEF Claim, Goto
    <3>3. /\ wpc[w] = "claim"
          /\ Claimable(wjob[w].event)
      BY <2>1 DEF Claim
    <3>4. CASE wjob[w].event = e
      <4>1. Holds /\ Engaged(e) = {}
        BY <1>0, <3>1, <3>3, <3>4 DEF Claimable, Engaged
      <4>2. \A v \in Engaged(e)' : v = w /\ wpc'[v] # "mark"
        BY <3>1, <3>2, <4>1 DEF Engaged
      <4>3. row'[e] = "processing" /\ ~stale'[e]
        BY <3>1, <3>4
      <4>4. QED BY <4>2, <4>3
    <3>5. CASE wjob[w].event # e
      <4>1. row'[e] = row[e] /\ stale'[e] = stale[e]
        BY <3>1, <3>5
      <4>2. \A v \in Engaged(e)' : v \in Engaged(e) /\ wpc'[v] = wpc[v]
        BY <3>1, <3>2, <3>5 DEF Engaged
      <4>3. QED BY <1>0, <3>1, <4>1, <4>2
    <3>6. QED BY <3>4, <3>5
  <2>2. CASE ClaimRefused(w) \/ Check(w) \/ ReadFails(w)
    <3>1. UNCHANGED <<row, stale, dueAgain, forced, wjob>>
      BY <2>2 DEF ClaimRefused, Check, ReadFails, Goto
    <3>2. \E pc \in {"check", "returned", "threw"} :
             wpc' = [wpc EXCEPT ![w] = pc]
      BY <2>2 DEF ClaimRefused, Check, ReadFails, Goto
    <3>3. QED BY <1>10, <3>1, <3>2 DEF Engaged
  <2>3. CASE Fulfil(w)
    BY <2>3 DEF ClaimInv, Engaged, Fulfil, Goto
  <2>4. CASE FulfilFails(w) \/ MarkProcessedFails(w) \/ MarkFailedFails(w)
    BY SMTT(30), <2>4 DEF ClaimInv, Engaged, FulfilFails, MarkProcessedFails,
                MarkFailedFails, Goto
  <2>5. CASE MarkProcessed(w)
    <3>1. /\ UNCHANGED <<stale, dueAgain, forced, wjob>>
          /\ row' = [row EXCEPT ![wjob[w].event] = "processed"]
      BY <2>5 DEF MarkProcessed, Goto
    <3>2. \E pc \in {"returned", "markFailed"} :
             wpc' = [wpc EXCEPT ![w] = pc]
      BY <2>5 DEF MarkProcessed, Goto
    <3>3. wpc[w] = "mark"
      BY <2>5 DEF MarkProcessed
    <3>4. CASE wjob[w].event = e
      <4>1. Holds /\ w \in Engaged(e) /\ ~dueAgain[e]
        BY <1>0, <3>1, <3>3, <3>4 DEF Engaged
      <4>2. \A v \in Engaged(e)' : v = w
        BY <3>1, <3>2, <4>1 DEF Engaged
      <4>3. row'[e] = "processed"
        BY <3>1, <3>4
      <4>4. QED BY <3>1, <3>2, <4>1, <4>2, <4>3 DEF Engaged
    <3>5. CASE wjob[w].event # e
      <4>1. row'[e] = row[e]
        BY <3>1, <3>5
      <4>2. \A v \in Engaged(e)' : v \in Engaged(e) /\ wpc'[v] = wpc[v]
        BY <3>1, <3>2, <3>5 DEF Engaged
      <4>3. QED BY <1>0, <3>1, <4>1, <4>2
    <3>6. QED BY <3>4, <3>5
  <2>6. CASE MarkFailed(w)
    BY <2>6 DEF ClaimInv, Engaged, MarkFailed, Goto
  <2>7. CASE Return(w) \/ Throw(w)
    <3>1. UNCHANGED <<row, stale, dueAgain, forced>> /\ Leave(w)
      BY <2>7 DEF Return, Throw
    <3>2. QED BY <1>10, <3>1 DEF Engaged, Leave
  <2>8. QED
    BY <1>4, <2>1, <2>2, <2>3, <2>4, <2>5, <2>6, <2>7 DEF WorkerStep
<1>5. ASSUME NEW w \in Workers, Crash(w)
      PROVE  Goal
  BY <1>5 DEF ClaimInv, Engaged, Crash, Leave
<1>6. ASSUME NEW j \in JobIds, Stall(j) \/ Expire(j)
      PROVE  Goal
  BY <1>1, <1>6 DEF Stall, Expire
<1>7. ASSUME NEW f \in Events, ClaimAges(f)
      PROVE  Goal
  <2>1. UNCHANGED <<row, wpc, wjob, dueAgain>> /\ Engaged(e)' = Engaged(e)
    BY <1>7 DEF ClaimAges, Engaged
  <2>2. ~forced[e] /\ Holds
    BY <1>0, <1>7 DEF ClaimAges
  <2>3. stale'[e] # stale[e] => Engaged(e) = {}
    BY <1>7 DEF ClaimAges
  <2>4. QED BY <2>1, <2>2, <2>3
<1>8. CASE Replay
  <2>1. CASE ReplaySave
    <3>1. UNCHANGED <<stale, wpc, wjob>> /\ Engaged(e)' = Engaged(e)
      BY <2>1 DEF ReplaySave, Engaged
    <3>2. ~forced[e] /\ Holds
      BY <1>0, <2>1 DEF ReplaySave
    <3>3. CASE revent = e
      <4>1. Engaged(e) = {} /\ row'[e] = "received"
        BY <2>1, <3>3 DEF ReplaySave
      <4>2. QED BY <3>1, <4>1
    <3>4. CASE revent # e
      <4>1. row'[e] = row[e] /\ dueAgain'[e] = dueAgain[e]
        BY <2>1, <3>4 DEF ReplaySave
      <4>2. QED BY <3>1, <3>2, <4>1
    <3>5. QED BY <3>3, <3>4
  <2>2. QED
    BY <1>1, <1>8, <2>1 DEF Replay, ReplayFind, ReplayAdd, ReplayFails
<1>9. QED
  BY <1>1, <1>2, <1>3, <1>4, <1>5, <1>6, <1>7, <1>8 DEF Next, vars, Deliver

(* Only one worker at a time fulfils an event whose claim nothing has broken.*)
THEOREM ClaimCorrect == Spec => []ExclusiveClaim
<1>1. Init => ClaimInv
  BY DEF Init, ClaimInv, Engaged
<1>2. ClaimInv => ExclusiveClaim
  BY DEF ClaimInv, ExclusiveClaim
<1>3. QED BY <1>1, <1>2, ClaimStep, TypeInvariant, PTL DEF Spec

(* A row that says "processed" tells the truth about the latest replay.      *)
THEOREM ProcessedCorrect == Spec => []ProcessedIsCurrent
<1>1. Init => FulfilledInv /\ ClaimInv
  BY DEF Init, FulfilledInv, CompletedWasFulfilled, ClaimInv, Engaged
<1>2. FulfilledInv /\ ClaimInv => ProcessedIsCurrent
  BY DEF FulfilledInv, ClaimInv, ProcessedIsCurrent
<1>3. QED
  BY <1>1, <1>2, FulfilledStep, ClaimStep, TypeInvariant, PTL DEF Spec

-----------------------------------------------------------------------------
(* The inbox implements EventInbox: each of its steps takes one event into   *)
(* custody, acknowledges, fulfils or gives up one, or leaves every event     *)
(* where it was.                                                             *)

(* A worker's event is in custody: nobody fulfils what was never accepted.   *)
WorkerInv == \A w \in Workers : wpc[w] # "idle" => Accounted(wjob[w].event)

InboxInv == TypeInv /\ FulfilledInv /\ AckedInv /\ WorkerInv

(* Every step keeps each worker's event in custody.                          *)
LEMMA WorkerInvStep == InboxInv /\ [Next]_vars => WorkerInv'
<1> SUFFICES ASSUME InboxInv, [Next]_vars, NEW w \in Workers, wpc'[w] # "idle"
             PROVE  Accounted(wjob[w].event)'
  BY DEF WorkerInv
<1> USE NoneAssumption, JobIdFacts, BusyFacts DEF InboxInv, TypeInv, TypeOK
<1>1. ASSUME NEW j \in JobIds, Start(w, j)
      PROVE  Accounted(wjob[w].event)'
  BY <1>1 DEF Start, Accounted, JobsOf, Live
<1>2. CASE wpc[w] # "idle" /\ wjob'[w] = wjob[w]
  <2>1. PICK e \in Events : e = wjob[w].event
    BY <1>2
  <2>2. Accounted(e)
    BY <1>2, <2>1 DEF WorkerInv
  <2>3. Accounted(e)'
    BY <2>2, AccountedStable
  <2>4. e = wjob'[w].event
    BY <1>2, <2>1
  <2>5. QED BY <2>3, <2>4 DEF Accounted
<1>3. (wpc[w] # "idle" /\ wjob'[w] = wjob[w]) \/ \E j \in JobIds : Start(w, j)
  BY SMTT(30) DEF Next, vars, Deliver, HandlerStep, Insert, Lookup, IsFailed, Add, Respond,
         HandlerFails, Start, WorkerStep, Claim, ClaimRefused, Check, ReadFails,
         Fulfil, FulfilFails, MarkProcessed, MarkProcessedFails, MarkFailed,
         MarkFailedFails, Goto, Leave, Return, Throw, Crash, Stall, Expire,
         ClaimAges, Replay, ReplayFind, ReplaySave, ReplayAdd, ReplayFails
<1>4. QED BY <1>1, <1>2, <1>3

(* What custody is, in terms of the state it is read from.                   *)
LEMMA CustodyFacts ==
    ASSUME TypeInv, NEW e \in Events
    PROVE  /\ CustodyOf(e) = "fulfilled" <=> fulfilled[e]
           /\ CustodyOf(e) = "givenUp" <=> ~fulfilled[e] /\ exhausted[e]
           /\ CustodyOf(e) = "pending" <=>
                 /\ ~fulfilled[e] /\ ~exhausted[e]
                 /\ \E j \in JobsOf(e) : Live(j)
           /\ CustodyOf(e) = "unknown" <=> ~Accounted(e)
BY DEF CustodyOf, Accounted, TypeInv, TypeOK

-----------------------------------------------------------------------------
(* A step that moves one event only, as EventInbox lets it, or none.         *)
LEMMA OneEventMoves ==
    ASSUME TypeInv, TypeInv', UNCHANGED acked, NEW f \in Events,
           \A e \in Events \ {f} : CustodyOf(e)' = CustodyOf(e),
           \/ CustodyOf(f)' = CustodyOf(f)
           \/ CustodyOf(f) = "unknown" /\ CustodyOf(f)' = "pending"
           \/ CustodyOf(f) = "pending" /\ CustodyOf(f)' = "givenUp"
           \/ CustodyOf(f) \in {"pending", "givenUp"} /\ CustodyOf(f)' = "fulfilled"
    PROVE  [Inbox!Next]_(Inbox!vars)
<1> DEFINE custody == [e \in Events |-> CustodyOf(e)]
<1>1. custody' = [custody EXCEPT ![f] = CustodyOf(f)']
  OBVIOUS
<1>2. custody[f] = CustodyOf(f)
  OBVIOUS
<1>3. CASE CustodyOf(f)' = CustodyOf(f)
  <2>1. custody' = custody
    BY <1>3
  <2>2. QED BY <2>1 DEF Inbox!vars
<1>4. CASE CustodyOf(f) = "unknown" /\ CustodyOf(f)' = "pending"
  <2>1. Inbox!Accept(f)
    BY <1>1, <1>2, <1>4 DEF Inbox!Accept
  <2>2. QED BY <2>1 DEF Inbox!Next
<1>5. CASE CustodyOf(f) = "pending" /\ CustodyOf(f)' = "givenUp"
  <2>1. Inbox!GiveUp(f)
    BY <1>1, <1>2, <1>5 DEF Inbox!GiveUp
  <2>2. QED BY <2>1 DEF Inbox!Next
<1>6. CASE CustodyOf(f) \in {"pending", "givenUp"} /\ CustodyOf(f)' = "fulfilled"
  <2>1. Inbox!Fulfil(f)
    BY <1>1, <1>2, <1>6 DEF Inbox!Fulfil
  <2>2. QED BY <2>1 DEF Inbox!Next
<1>7. QED BY <1>3, <1>4, <1>5, <1>6

(* A step that leaves an event's jobs as live as they were, and its history,  *)
(* leaves its custody.                                                        *)
LEMMA CustodyStays ==
    ASSUME TypeInv, TypeInv', NEW e \in Events,
           fulfilled'[e] = fulfilled[e], exhausted'[e] = exhausted[e],
           \A j \in JobsOf(e) : Live(j)' <=> Live(j)
    PROVE  CustodyOf(e)' = CustodyOf(e)
<1>1. (\E j \in JobsOf(e) : Live(j))' <=> \E j \in JobsOf(e) : Live(j)
  BY DEF JobsOf
<1>2. QED BY <1>1 DEF CustodyOf

(* What the queue does to a job is a step of EventInbox, or none: a new job is *)
(* accepted, a failed one is given up, and any other change of a live job      *)
(* leaves it live or its event fulfilled.                                      *)
LEMMA JobMoves ==
    ASSUME TypeInv, TypeInv', UNCHANGED <<acked, fulfilled>>, NEW i \in JobIds,
           \A j \in JobIds \ {i} : job'[j] = job[j],
           \A e \in Events \ {i.event} : exhausted'[e] = exhausted[e],
           \/ /\ exhausted'[i.event] = exhausted[i.event]
              /\ Live(i)' \/ (Live(i)' <=> Live(i)) \/ fulfilled[i.event]
           \/ /\ exhausted'[i.event]
              /\ Live(i)
    PROVE  [Inbox!Next]_(Inbox!vars)
<1> DEFINE f == i.event
<1> USE JobIdFacts DEF JobsOf
<1>0. f \in Events
  OBVIOUS
<1>1. \A e \in Events \ {f} : CustodyOf(e)' = CustodyOf(e)
  <2>1. TAKE e \in Events \ {f}
  <2>2. \A j \in JobsOf(e) : Live(j)' <=> Live(j)
    BY DEF Live
  <2>3. QED BY <2>2, CustodyStays
<1>2. fulfilled'[f] = fulfilled[f]
  OBVIOUS
<1>3. \A j \in JobsOf(f) : j # i => (Live(j)' <=> Live(j))
  BY DEF Live
<1>4. CASE fulfilled[f]
  <2>1. CustodyOf(f) = "fulfilled" /\ CustodyOf(f)' = "fulfilled"
    BY <1>0, <1>2, <1>4 DEF CustodyOf
  <2>2. QED BY <1>0, <1>1, <2>1, OneEventMoves
<1>5. CASE /\ ~fulfilled[f] /\ exhausted'[f] = exhausted[f]
           /\ Live(i)' \/ (Live(i)' <=> Live(i))
  <2>1. CASE Live(i)' <=> Live(i)
    <3>1. \A j \in JobsOf(f) : Live(j)' <=> Live(j)
      BY <1>3, <2>1
    <3>2. CustodyOf(f)' = CustodyOf(f)
      BY <1>0, <1>2, <1>5, <3>1, CustodyStays
    <3>3. QED BY <1>0, <1>1, <3>2, OneEventMoves
  <2>2. CASE Live(i)' /\ ~Live(i)
    <3>1. CASE exhausted[f]
      <4>1. CustodyOf(f) = "givenUp" /\ CustodyOf(f)' = "givenUp"
        BY <1>0, <1>2, <1>5, <3>1 DEF CustodyOf
      <4>2. QED BY <1>0, <1>1, <4>1, OneEventMoves
    <3>2. CASE ~exhausted[f]
      <4>1. CustodyOf(f) \in {"pending", "unknown"}
        BY <1>0, <1>5, <3>2 DEF CustodyOf
      <4>2. \E j \in JobsOf(f) : Live(j)'
        BY <2>2
      <4>3. CustodyOf(f)' = "pending"
        BY <1>0, <1>2, <1>5, <3>2, <4>2 DEF CustodyOf
      <4>4. QED BY <1>0, <1>1, <4>1, <4>3, OneEventMoves
    <3>3. QED BY <3>1, <3>2
  <2>3. QED BY <1>5, <2>1, <2>2
<1>6. CASE ~fulfilled[f] /\ exhausted'[f] /\ Live(i)
  <2>1. CustodyOf(f) \in {"pending", "givenUp"}
    BY <1>0, <1>6 DEF CustodyOf
  <2>2. CustodyOf(f)' = "givenUp"
    BY <1>0, <1>2, <1>6 DEF CustodyOf
  <2>3. QED BY <1>0, <1>1, <2>1, <2>2, OneEventMoves
<1>7. QED BY <1>4, <1>5, <1>6

(* Every step of the inbox is a step of EventInbox, or leaves it alone.        *)
LEMMA InboxStep == InboxInv /\ InboxInv' /\ [Next]_vars => [Inbox!Next]_(Inbox!vars)
<1> SUFFICES ASSUME InboxInv, InboxInv', [Next]_vars
             PROVE  [Inbox!Next]_(Inbox!vars)
    OBVIOUS
<1> USE NoneAssumption, JobIdFacts, BusyFacts DEF InboxInv, TypeInv, TypeOK
<1>1. CASE UNCHANGED <<job, acked, fulfilled, exhausted>>
  <2>1. \A e \in Events : CustodyOf(e)' = CustodyOf(e)
    BY <1>1, CustodyStays DEF Live, JobsOf
  <2>2. QED BY <1>1, <2>1 DEF Inbox!vars
<1>2. ASSUME NEW j \in JobIds, AddJob(j), UNCHANGED <<acked, fulfilled, exhausted>>
      PROVE  [Inbox!Next]_(Inbox!vars)
  BY <1>2, JobMoves DEF AddJob, Live
<1>3. ASSUME NEW j \in JobIds, job[j] = "active", NEW status, Release(j, status),
             status \in {"waiting", "failed"} \/ fulfilled[j.event],
             UNCHANGED <<acked, fulfilled>>
      PROVE  [Inbox!Next]_(Inbox!vars)
  <2>1. /\ \A i \in JobIds \ {j} : job'[i] = job[i]
        /\ \A e \in Events \ {j.event} : exhausted'[e] = exhausted[e]
        /\ job'[j] = status /\ Live(j)
    BY <1>3 DEF Release, Live
  <2>2. CASE status = "failed"
    <3>1. exhausted'[j.event]
      BY <1>3, <2>2 DEF Release
    <3>2. QED BY <1>3, <2>1, <3>1, JobMoves
  <2>3. CASE status # "failed"
    <3>1. exhausted'[j.event] = exhausted[j.event]
      BY <1>3, <2>3 DEF Release
    <3>2. Live(j)' \/ fulfilled[j.event]
      BY <1>3, <2>1, <2>3 DEF Live
    <3>3. QED BY <1>3, <2>1, <3>1, <3>2, JobMoves
  <2>4. QED BY <2>2, <2>3
<1>4. ASSUME NEW h \in Handlers, HandlerStep(h)
      PROVE  [Inbox!Next]_(Inbox!vars)
  <2>1. CASE Respond(h)
    <3>1. PICK e \in Events : e = hevent[h]
      BY <2>1 DEF Respond
    <3>2. CustodyOf(e) # "unknown"
      BY <2>1, <3>1, CustodyFacts DEF Respond, AckedInv
    <3>3. \A f \in Events : CustodyOf(f)' = CustodyOf(f)
      BY <2>1, CustodyStays DEF Respond, Live, JobsOf
    <3>4. Inbox!Acknowledge(e)
      BY <2>1, <3>1, <3>2, <3>3 DEF Respond, Inbox!Acknowledge
    <3>5. QED BY <3>4 DEF Inbox!Next
  <2>2. CASE Add(h)
    BY <1>2, <2>2 DEF Add, RetryJobs, JobsOf
  <2>3. QED
    BY <1>1, <1>4, <2>1, <2>2 DEF HandlerStep, Insert, Lookup, IsFailed, HandlerFails
<1>5. ASSUME NEW w \in Workers, NEW j \in JobIds, Start(w, j)
      PROVE  [Inbox!Next]_(Inbox!vars)
  BY <1>5, JobMoves DEF Start, Live
<1>6. ASSUME NEW w \in Workers, WorkerStep(w)
      PROVE  [Inbox!Next]_(Inbox!vars)
  <2>1. CASE Fulfil(w)
    <3>1. PICK e \in Events : e = wjob[w].event
      BY <2>1 DEF Fulfil
    <3>2. CustodyOf(e) # "unknown"
      BY <2>1, <3>1, CustodyFacts DEF Fulfil, WorkerInv
    <3>3. CustodyOf(e) \in {"pending", "givenUp", "fulfilled"}
      BY <3>2 DEF CustodyOf
    <3>4. CustodyOf(e)' = "fulfilled"
      <4>1. fulfilled'[e]
        BY <2>1, <3>1 DEF Fulfil
      <4>2. QED BY <4>1, CustodyFacts DEF CustodyOf
    <3>5. \A f \in Events \ {e} : CustodyOf(f)' = CustodyOf(f)
      BY <2>1, <3>1, CustodyStays DEF Fulfil, Live, JobsOf
    <3>6. QED BY <2>1, <3>3, <3>4, <3>5, OneEventMoves DEF Fulfil
  <2>2. CASE Return(w)
    BY SMTT(30), <1>1, <1>3, <2>2 DEF Return, FulfilledInv, QueueInv
  <2>3. CASE Throw(w)
    BY <1>1, <1>3, <2>3 DEF Throw, QueueInv
  <2>4. QED
    BY <1>1, <1>6, <2>1, <2>2, <2>3
    DEF WorkerStep, Claim, ClaimRefused, Check, ReadFails, FulfilFails,
        MarkProcessed, MarkProcessedFails, MarkFailed, MarkFailedFails
<1>7. ASSUME NEW j \in JobIds, Stall(j)
      PROVE  [Inbox!Next]_(Inbox!vars)
  BY <1>3, <1>7 DEF Stall
<1>8. ASSUME NEW j \in JobIds, Expire(j)
      PROVE  [Inbox!Next]_(Inbox!vars)
  BY <1>8, JobMoves DEF Expire, Live
<1>9. CASE Replay
  BY <1>1, <1>2, <1>9 DEF Replay, ReplayFind, ReplaySave, ReplayAdd, ReplayFails,
                          ManualJobs, JobsOf
<1>10. QED
  BY <1>1, <1>4, <1>5, <1>6, <1>7, <1>8, <1>9
  DEF Next, vars, Deliver, Crash, ClaimAges

(* The inbox implements EventInbox: an event is never acknowledged outside     *)
(* its custody, and leaves it only fulfilled or given up.                      *)
THEOREM InboxImplemented == Spec => Inbox!Spec
<1>1. Init => InboxInv
  BY JobIdFacts, TypeInvariantInit
  DEF Init, InboxInv, FulfilledInv, CompletedWasFulfilled, AckedInv, WorkerInv
<1>2. InboxInv /\ [Next]_vars => InboxInv'
  BY TypeStep, QueueStep, FulfilledStep, AckedStep, WorkerInvStep DEF InboxInv, TypeInv
<1>3. Init => Inbox!Init
  BY DEF Init, Inbox!Init, CustodyOf, Live, JobsOf
<1>4. QED BY <1>1, <1>2, <1>3, InboxStep, PTL DEF Spec, Inbox!Spec
=============================================================================

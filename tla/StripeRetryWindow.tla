------------------------- MODULE StripeRetryWindow -------------------------
(***************************************************************************)
(* The timing that StripePaymentEvents leaves out.  A worker that dies, or *)
(* whose database answer is lost, leaves the event's row "processing", and *)
(* nobody may claim it for StaleAfter.  The job goes on meanwhile: every   *)
(* attempt that finds the row busy throws and waits out an exponential     *)
(* backoff.  Do its attempts last until the claim may be taken over?       *)
(*                                                                         *)
(* One event, one job, and a clock in units of 5 seconds that jumps to the *)
(* moment the job is next due; a worker may pick it up a little late.      *)
(***************************************************************************)
EXTENDS Integers

CONSTANTS
    MaxAttempts,  \* attempts: 8
    Backoff,      \* backoff delay: 5 s, one unit
    StaleAfter,   \* age at which a claim may be taken over: 5 min, 60 units
    StallDelays,  \* crash to requeue by BullMQ: 30 s lock, 30 s check, 6..12
    MaxStalls,    \* BullMQ's maxStalledCount: 1
    Lateness      \* how late a due job may be picked up

ASSUME TimesAssumption ==
    /\ MaxAttempts \in Nat \ {0}
    /\ Backoff \in Nat /\ StaleAfter \in Nat /\ MaxStalls \in Nat
    /\ StallDelays \subseteq Nat
    /\ Lateness \subseteq Nat

VARIABLES
    now,          \* the time
    state,        \* the job: "waiting", "orphaned", "completed" or "failed"
    due,          \* when it is next to be run or found stalled
    attempts,     \* attemptsMade
    stalls,       \* stalls so far
    claimedAt,    \* processingStartedAt while the row is "processing", else -1
    leftBy,       \* the attempt, from 1, that left its claim behind, else 0
    reason        \* why the last run ended

vars == <<now, state, due, attempts, stalls, claimedAt, leftBy, reason>>

TypeOK ==
    /\ now \in Nat /\ due \in Nat
    /\ state \in {"waiting", "orphaned", "completed", "failed"}
    /\ attempts \in 0..MaxAttempts
    /\ stalls \in 0..MaxStalls
    /\ claimedAt \in {-1} \cup Nat
    /\ leftBy \in 0..MaxAttempts
    /\ reason \in {"none", "ok", "error", "busy", "stalled"}

Init ==
    /\ now = 0
    /\ state = "waiting"
    /\ due = 0
    /\ attempts = 0
    /\ stalls = 0
    /\ claimedAt = -1
    /\ leftBy = 0
    /\ reason = "none"

\* Mutant: backoff of type "fixed".
FixedDelay(n) == Backoff

\* backoff {type: "exponential"}: the wait after the n-th failed attempt.
Delay(n) == Backoff * 2 ^ (n - 1)

\* What the provers do not know of exponentiation.
ASSUME DelayAssumption == \A n \in 1..MaxAttempts : Delay(n) \in Nat

\* The claim's WHERE clause: no claim, or one that started before the cutoff.
Claimable(t) == claimedAt = -1 \/ claimedAt < t - StaleAfter

\* Mutant: one attempt too many.
ThrowOnceMore(t, why) ==
    /\ reason' = why
    /\ attempts' = attempts + 1
    /\ IF attempts' <= MaxAttempts
       THEN state' = "waiting" /\ due' = t + Delay(attempts')
       ELSE state' = "failed" /\ due' = due
    /\ UNCHANGED stalls

\* The process function throws at time t.
ThrowAt(t, why) ==
    /\ reason' = why
    /\ attempts' = attempts + 1
    /\ IF attempts' < MaxAttempts
       THEN state' = "waiting" /\ due' = t + Delay(attempts')
       ELSE state' = "failed" /\ due' = due
    /\ UNCHANGED stalls

\* A worker runs the job at time t.
RunAt(t) ==
    /\ state = "waiting"
    /\ now' = t
    /\ \/ \* fulfilled and marked processed
          /\ Claimable(t)
          /\ state' = "completed"
          /\ reason' = "ok"
          /\ claimedAt' = -1
          /\ leftBy' = 0
          /\ UNCHANGED <<due, attempts, stalls>>
       \/ \* fulfilment fails, the row is marked failed
          /\ Claimable(t)
          /\ claimedAt' = -1
          /\ leftBy' = 0
          /\ ThrowAt(t, "error")
       \/ \* claimed, but an answer is lost and the row stays "processing"
          /\ Claimable(t)
          /\ claimedAt' = t
          /\ leftBy' = attempts + 1
          /\ ThrowAt(t, "error")
       \/ \* claimed, and the worker dies
          /\ Claimable(t)
          /\ claimedAt' = t
          /\ leftBy' = attempts + 1
          /\ state' = "orphaned"
          /\ \E d \in StallDelays : due' = t + d
          /\ UNCHANGED <<attempts, stalls, reason>>
       \/ \* currently claimed by another worker
          /\ ~Claimable(t)
          /\ ThrowAt(t, "busy")
          /\ UNCHANGED <<claimedAt, leftBy>>

Run == \E late \in Lateness : RunAt(due + late)

\* BullMQ finds the job without a lock.
Recover ==
    /\ state = "orphaned"
    /\ now' = due
    /\ IF stalls < MaxStalls
       THEN state' = "waiting" /\ stalls' = stalls + 1 /\ reason' = reason
       ELSE state' = "failed" /\ stalls' = stalls /\ reason' = "stalled"
    /\ UNCHANGED <<due, attempts, claimedAt, leftBy>>

Next == Run \/ Recover

Spec == Init /\ [][Next]_vars

-----------------------------------------------------------------------------
\* A job is never used up by finding the event busy: its backoffs (5 s to
\* 320 s) outlast the five minutes of a claim left behind, whichever attempt
\* left it and however late the retries run.  The one exception is a claim left
\* behind by the last attempt itself.
NeverBusyToTheEnd ==
    state = "failed" /\ reason = "busy" => leftBy = MaxAttempts

=============================================================================

------------------------ MODULE StripeRetryWindowProofs ------------------------
(***************************************************************************)
(* Retries against claims, for any number of attempts and any delays: if   *)
(* the backoff before the last attempt is longer than a claim may stand,   *)
(* no job is used up by finding its event busy.  With the code's numbers   *)
(* that backoff is 5 s * 2^6 = 320 s, and a claim stands for 300 s.        *)
(***************************************************************************)
EXTENDS StripeRetryWindow, TLAPS

(* The backoff before the last attempt outlasts a claim.                      *)
Outlasts == MaxAttempts > 1 => Delay(MaxAttempts - 1) > StaleAfter

(* A claim is left behind by an attempt that has been made, or by one that    *)
(* died and is made again, at a time that is past.                            *)
LeftInv ==
    /\ claimedAt = -1 <=> leftBy = 0
    /\ claimedAt <= now
    /\ state = "waiting" => leftBy <= attempts + 1 /\ attempts < MaxAttempts
    /\ state = "orphaned" => leftBy = attempts + 1 /\ attempts < MaxAttempts
    /\ state = "orphaned" => claimedAt <= due

(* Once the last attempt is the next, a claim that another attempt left       *)
(* stands no more when it is due.                                             *)
WaitInv ==
    state = "waiting" /\ claimedAt # -1 =>
        /\ claimedAt <= due
        /\ Outlasts /\ attempts = MaxAttempts - 1 /\ leftBy # MaxAttempts
              => claimedAt + StaleAfter < due

IInv == TypeOK /\ LeftInv /\ WaitInv /\ (Outlasts => NeverBusyToTheEnd)

(* The job is due at once, and nothing is claimed.                            *)
LEMMA Initially == Init => IInv
BY TimesAssumption DEF Init, IInv, TypeOK, LeftInv, WaitInv, NeverBusyToTheEnd

(* A try that is thrown waits out its backoff, unless it was the last.        *)
LEMMA Throws ==
    ASSUME IInv, NEW t \in Nat, NEW why \in {"error", "busy"}, ThrowAt(t, why),
           attempts < MaxAttempts
    PROVE  /\ due' \in Nat /\ attempts' = attempts + 1 /\ attempts' \in 1..MaxAttempts
           /\ stalls' = stalls /\ reason' = why
           /\ state' = "failed" => attempts' = MaxAttempts
           /\ state' \in {"waiting", "failed"}
           /\ state' = "waiting" =>
                 attempts' < MaxAttempts /\ due' = t + Delay(attempts') /\ due' >= t
<1>1. attempts' = attempts + 1 /\ attempts' \in 1..MaxAttempts /\ stalls' = stalls
      /\ reason' = why
  BY TimesAssumption DEF ThrowAt, IInv, TypeOK
<1>2. CASE attempts' < MaxAttempts
  <2>1. PICK n \in 1..MaxAttempts : n = attempts' /\ Delay(n) \in Nat
    BY <1>1, DelayAssumption
  <2>2. state' = "waiting" /\ due' = t + Delay(n)
    BY <1>2, <2>1 DEF ThrowAt
  <2>3. QED BY <1>1, <1>2, <2>1, <2>2
<1>3. CASE ~(attempts' < MaxAttempts)
  <2>1. state' = "failed" /\ due' = due /\ attempts' = MaxAttempts
    BY <1>1, <1>3, TimesAssumption DEF ThrowAt
  <2>2. QED BY <1>1, <2>1 DEF IInv, TypeOK
<1>4. QED BY <1>2, <1>3

(* A claim that was left behind is out of the way when the last attempt comes,*)
(* so that it can only be busy with a claim of its own.                       *)
LEMMA Runs ==
    ASSUME IInv, NEW late \in Lateness, RunAt(due + late)
    PROVE  IInv'
<1>1. PICK t \in Nat : t = due + late /\ t >= due
  BY TimesAssumption DEF IInv, TypeOK
<1>2. /\ RunAt(t) /\ now' = t /\ state = "waiting" /\ attempts < MaxAttempts
      /\ claimedAt <= t /\ claimedAt \in {-1} \cup Nat /\ attempts \in 0..MaxAttempts
      /\ leftBy \in 0..MaxAttempts /\ leftBy <= attempts + 1
      /\ claimedAt = -1 <=> leftBy = 0
  BY <1>1 DEF RunAt, IInv, TypeOK, LeftInv, WaitInv
<1>3. CASE /\ state' = "completed" /\ reason' = "ok" /\ claimedAt' = -1 /\ leftBy' = 0
           /\ UNCHANGED <<due, attempts, stalls>>
  BY <1>2, <1>3, TimesAssumption DEF IInv, TypeOK, LeftInv, WaitInv, NeverBusyToTheEnd
<1>4. CASE \/ claimedAt' = -1 /\ leftBy' = 0 /\ ThrowAt(t, "error")
           \/ claimedAt' = t /\ leftBy' = attempts + 1 /\ ThrowAt(t, "error")
  <2>1. /\ due' \in Nat /\ attempts' = attempts + 1 /\ attempts' \in 1..MaxAttempts
        /\ stalls' = stalls /\ reason' = "error" /\ state' \in {"waiting", "failed"}
        /\ state' = "waiting" =>
              attempts' < MaxAttempts /\ due' = t + Delay(attempts') /\ due' >= t
    BY <1>2, <1>4, Throws
  <2>2. Outlasts /\ state' = "waiting" /\ attempts' = MaxAttempts - 1
           => due' > t + StaleAfter
    <3>1. SUFFICES ASSUME Outlasts, state' = "waiting", attempts' = MaxAttempts - 1
                   PROVE  due' > t + StaleAfter
      OBVIOUS
    <3>2. Delay(MaxAttempts - 1) > StaleAfter
      BY <2>1, <3>1, TimesAssumption DEF Outlasts
    <3>3. PICK d \in Nat : d = Delay(MaxAttempts - 1)
      BY <2>1, <3>1, DelayAssumption
    <3>4. QED BY <2>1, <3>1, <3>2, <3>3, TimesAssumption
  <2>3. TypeOK'
    BY <1>2, <1>4, <2>1, TimesAssumption DEF IInv, TypeOK
  <2>4. LeftInv'
    BY <1>2, <1>4, <2>1, TimesAssumption DEF LeftInv
  <2>5. WaitInv' /\ (Outlasts => NeverBusyToTheEnd)'
    BY <1>2, <1>4, <2>1, <2>2, TimesAssumption DEF WaitInv, NeverBusyToTheEnd
  <2>6. QED BY <2>3, <2>4, <2>5 DEF IInv
<1>5. CASE /\ claimedAt' = t /\ leftBy' = attempts + 1 /\ state' = "orphaned"
           /\ \E d \in StallDelays : due' = t + d
           /\ UNCHANGED <<attempts, stalls, reason>>
  <2>1. due' \in Nat /\ due' >= t
    BY <1>5, TimesAssumption
  <2>2. QED BY <1>2, <1>5, <2>1, TimesAssumption
            DEF IInv, TypeOK, LeftInv, WaitInv, NeverBusyToTheEnd
<1>6. CASE ~Claimable(t) /\ ThrowAt(t, "busy") /\ UNCHANGED <<claimedAt, leftBy>>
  <2>1. /\ due' \in Nat /\ attempts' = attempts + 1 /\ attempts' \in 1..MaxAttempts
        /\ stalls' = stalls /\ reason' = "busy" /\ state' \in {"waiting", "failed"}
        /\ state' = "failed" => attempts' = MaxAttempts
        /\ state' = "waiting" =>
              attempts' < MaxAttempts /\ due' = t + Delay(attempts') /\ due' >= t
    BY <1>2, <1>6, Throws
  <2>2. claimedAt \in Nat /\ claimedAt + StaleAfter >= t
    BY <1>2, <1>6, TimesAssumption DEF Claimable
  <2>3. Outlasts /\ state' = "waiting" /\ attempts' = MaxAttempts - 1
           => due' > t + StaleAfter
    <3>1. SUFFICES ASSUME Outlasts, state' = "waiting", attempts' = MaxAttempts - 1
                   PROVE  due' > t + StaleAfter
      OBVIOUS
    <3>2. Delay(MaxAttempts - 1) > StaleAfter
      BY <2>1, <3>1, TimesAssumption DEF Outlasts
    <3>3. PICK d \in Nat : d = Delay(MaxAttempts - 1)
      BY <2>1, <3>1, DelayAssumption
    <3>4. QED BY <2>1, <3>1, <3>2, <3>3, TimesAssumption
  <2>4. TypeOK'
    BY <1>2, <1>6, <2>1, TimesAssumption DEF IInv, TypeOK
  <2>5. LeftInv'
    BY <1>2, <1>6, <2>1, TimesAssumption DEF LeftInv
  <2>6. WaitInv'
    BY <1>2, <1>6, <2>1, <2>3, TimesAssumption DEF WaitInv
  <2>7. (Outlasts => NeverBusyToTheEnd)'
    <3>1. SUFFICES ASSUME Outlasts, state' = "failed" PROVE leftBy = MaxAttempts
      BY <1>6 DEF NeverBusyToTheEnd
    <3>2. attempts = MaxAttempts - 1
      BY <1>2, <2>1, <3>1, TimesAssumption
    <3>3. leftBy # MaxAttempts => claimedAt + StaleAfter < due
      BY <1>2, <2>2, <3>1, <3>2 DEF IInv, WaitInv
    <3>4. due \in Nat
      BY DEF IInv, TypeOK
    <3>5. QED BY <1>1, <2>2, <3>3, <3>4, TimesAssumption
  <2>8. QED BY <2>4, <2>5, <2>6, <2>7 DEF IInv
<1>7. QED BY <1>2, <1>3, <1>4, <1>5, <1>6 DEF RunAt

(* The job of a dead worker waits again, its claim that attempt's own.        *)
LEMMA Recovers ==
    ASSUME IInv, Recover
    PROVE  IInv'
BY TimesAssumption DEF Recover, IInv, TypeOK, LeftInv, WaitInv, NeverBusyToTheEnd

(* The invariant holds at all times.                                          *)
LEMMA Invariance == Spec => []IInv
<1>1. ASSUME IInv, [Next]_vars PROVE IInv'
  <2>1. CASE UNCHANGED vars
    BY <1>1, <2>1 DEF vars, IInv, TypeOK, LeftInv, WaitInv, NeverBusyToTheEnd
  <2>2. CASE Run
    BY <1>1, <2>2, Runs DEF Run
  <2>3. CASE Recover
    BY <1>1, <2>3, Recovers
  <2>4. QED BY <1>1, <2>1, <2>2, <2>3 DEF Next
<1>2. QED BY <1>1, Initially, PTL DEF Spec

-----------------------------------------------------------------------------
(* Types: the job is run no more often than it has attempts and stalls.       *)
THEOREM TypeCorrect == Spec => []TypeOK
<1>1. IInv => TypeOK
  BY DEF IInv
<1>2. QED BY <1>1, Invariance, PTL

(* A job is never used up by finding its event busy with a claim that an      *)
(* earlier attempt left behind (claim; attempts and backoff of the queue).    *)
THEOREM NeverBusyCorrect == ASSUME Outlasts PROVE Spec => []NeverBusyToTheEnd
<1>1. IInv => NeverBusyToTheEnd
  BY Outlasts DEF IInv
<1>2. QED BY <1>1, Invariance, PTL
=============================================================================

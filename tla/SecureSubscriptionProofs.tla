----------------------- MODULE SecureSubscriptionProofs -----------------------
(***************************************************************************)
(* The entitlement of a subscription is what Stripe says it is, and what   *)
(* is applied is announced: for any number of workers, changes, retries,   *)
(* legacy saves and deletions.                                              *)
(***************************************************************************)
EXTENDS SecureSubscription, SequenceTheorems, FiniteSetTheorems, TLAPS

USE DEF stripeVars, dbVars, queueVars, workerVars, takeVars, boundVars, legacyVars

(* The events whose subscription a worker is about to retrieve.              *)
Retrieving == {e \in Events : \E w \in Workers : wpc[w] = "retrieve" /\ wevent[w] = e}

(* Each event is processed by one worker at a time, and takes a moment for    *)
(* "now" at most once each time it is taken, so that moments do not run out.  *)
TakeInv ==
    /\ \A v, w \in Workers :
          wpc[v] # "idle" /\ wpc[w] # "idle" /\ wevent[v] = wevent[w] => v = w
    /\ ticks + Cardinality(Retrieving) <= Cardinality(taken) + retries

(* Events are stamped in order, none later than one second per change.       *)
StampInv ==
    /\ \A e \in 1..Version : created[e] <= e
    /\ \A d, e \in 1..Version : d <= e => created[d] <= created[e]

TypeInv == TypeOK /\ TakeInv /\ StampInv

(* The record and its ordering state: a new record has no state, a state has  *)
(* its event's stamp, and an event is not processed again while it is done.   *)
RecordInv ==
    /\ lastEvent \in 0..Version
    /\ lastEvent # 0 => lastCreated = created[lastEvent]
    /\ done \subseteq 1..Version
    /\ \A w \in Workers : wpc[w] # "idle" => wevent[w] \notin done
    /\ recordIn = "absent" =>
          /\ lastEvent = 0 /\ done = {} /\ legacy # "found"
          /\ \A w \in Workers : wpc[w] # "notify"

(* A worker that is to announce the event of the record announces the         *)
(* validUntil of the record, and what the queue remembers has been told:      *)
(* unless a legacy save has written that since; a deletion changes nothing.   *)
ToldInv ==
    /\ jobIds \subseteq told
    /\ foreignWrite # "unread" =>
          /\ \A w \in Workers :
                wpc[w] = "notify" /\ wevent[w] = lastEvent => wuntil[w] = validUntil
          /\ lastEvent \in done => validUntil \in told

Agrees(date, s) ==
    /\ date.active <=> s.status = "active"
    /\ date.active => date.at = s.period

(* What a worker retrieved for the event of the last change, and what the     *)
(* record holds if that event set it, is what Stripe has now; and once that   *)
(* event is done, or about to be announced, it is the one that set it.        *)
LatestInv ==
    /\ \A w \in Workers : wpc[w] = "save" /\ wevent[w] = Version
          => Agrees(wuntil[w], history[Version])
    /\ lastEvent = Version /\ Version # 0 /\ foreignWrite = "none"
          => Agrees(validUntil, history[Version])
    /\ recordIn # "absent" /\ LastIsDistinct =>
          /\ Version \in done \ swallowed => lastEvent = Version
          /\ \A w \in Workers :
                wpc[w] = "notify" /\ wevent[w] = Version => lastEvent = Version

IInv == TypeInv /\ RecordInv /\ ToldInv /\ LatestInv

-----------------------------------------------------------------------------
(* Types.                                                                    *)

(* The dates that validity can take: the end of a period, or a moment at      *)
(* which it was revoked.                                                      *)
LEMMA DateFacts ==
    /\ \A p \in Periods : Active(p) \in Dates
    /\ \A t \in 0..MaxTicks : Revoked(t) \in Dates
    /\ Revoked(0) \in Dates
BY BoundsAssumption DEF Active, Revoked, Dates, MaxTicks

(* There are as many events as changes, and fewer are taken or retrieved.     *)
LEMMA Counts ==
    ASSUME TypeOK
    PROVE  /\ IsFiniteSet(Retrieving) /\ Cardinality(Retrieving) \in Nat
           /\ IsFiniteSet(taken) /\ Cardinality(taken) \in 0..MaxChanges
<1>1. IsFiniteSet(Events) /\ Cardinality(Events) = MaxChanges
  BY FS_Interval, BoundsAssumption DEF Events
<1>2. Retrieving \in SUBSET Events /\ taken \in SUBSET Events
  BY DEF Retrieving, TypeOK
<1>3. IsFiniteSet(Retrieving) /\ IsFiniteSet(taken) /\ Cardinality(taken) <= MaxChanges
  BY <1>1, <1>2, FS_Subset
<1>4. QED BY <1>3, FS_CardinalityType, BoundsAssumption

(* A worker that is about to retrieve has a moment left to take.              *)
LEMMA MomentLeft ==
    ASSUME TypeInv, NEW w \in Workers, wpc[w] = "retrieve"
    PROVE  /\ Cardinality(Retrieving \ {wevent[w]}) = Cardinality(Retrieving) - 1
           /\ ticks + 1 \in 0..MaxTicks
<1>1. wevent[w] \in Retrieving
  BY DEF TypeInv, TypeOK, Retrieving, Events, Version
<1>2. Cardinality(Retrieving \ {wevent[w]}) = Cardinality(Retrieving) - 1
  BY <1>1, Counts, FS_RemoveElement DEF TypeInv
<1>3. Cardinality(Retrieving \ {wevent[w]}) \in Nat
  BY Counts, FS_RemoveElement, FS_CardinalityType DEF TypeInv
<1>4. ticks \in Nat /\ retries \in 0..MaxRetries /\ Cardinality(taken) \in 0..MaxChanges
  BY Counts DEF TypeInv, TypeOK
<1>5. ticks + 1 <= Cardinality(taken) + retries
  BY <1>2, <1>3, <1>4, Counts DEF TypeInv, TakeInv
<1>6. QED BY <1>2, <1>4, <1>5, BoundsAssumption DEF MaxTicks

(* What Stripe's history is after one more change.                            *)
LEMMA Changed ==
    ASSUME TypeOK, StampInv, NEW s \in Snapshots, StripeChange(s)
    PROVE  /\ history' \in Seq(Snapshots) /\ created' \in Seq(Events)
           /\ Version' = Version + 1 /\ Len(created') = Version + 1
           /\ Version + 1 \in 0..MaxChanges
           /\ \A e \in 1..Version : created'[e] = created[e]
           /\ created'[Version + 1] <= Version + 1
           /\ Version # 0 => created[Version] <= created'[Version + 1]
<1> USE DEF Version
<1>1. /\ history \in Seq(Snapshots) /\ created \in Seq(Events)
      /\ Len(created) = Version /\ Version \in 0..MaxChanges
  BY DEF TypeOK
<1>2. /\ history' \in Seq(Snapshots) /\ Version' = Version + 1
      /\ Version + 1 \in 0..MaxChanges
  <2>1. history' = Append(history, s) /\ Version < MaxChanges
    BY DEF StripeChange
  <2>2. QED BY <1>1, <2>1, AppendProperties, BoundsAssumption
<1>3. PICK second \in Events : /\ created' = Append(created, second)
                               /\ second <= Version + 1
                               /\ Version # 0 => created[Version] <= second
  <2>1. CASE Version = 0
    <3>1. created' = <<1>> /\ 1 \in Events /\ created = <<>>
      BY <1>1, <1>2, <2>1, EmptySeq, BoundsAssumption DEF StripeChange, Events
    <3>2. QED BY <2>1, <3>1
  <2>2. CASE Version # 0
    <3>1. created[Version] \in Events /\ created[Version] <= Version
      BY <1>1, <2>2 DEF StampInv
    <3>2. PICK second \in {created[Version], created[Version] + 1} :
             created' = Append(created, second)
      BY <2>2 DEF StripeChange
    <3>3. second \in Events /\ created[Version] <= second /\ second <= Version + 1
      BY <1>1, <1>2, <3>1, BoundsAssumption DEF Events
    <3>4. QED BY <3>2, <3>3
  <2>3. QED BY <2>1, <2>2
<1>4. /\ created' \in Seq(Events) /\ Len(created') = Version + 1
      /\ \A e \in 1..Version : created'[e] = created[e]
      /\ created'[Version + 1] = second
  BY <1>1, <1>3, AppendProperties
<1>5. QED BY <1>2, <1>3, <1>4

(* Each change is stamped no earlier than the one before it, and stamps never *)
(* change.                                                                    *)
LEMMA StampStep == TypeOK /\ StampInv /\ [Next]_vars => StampInv'
<1> SUFFICES ASSUME TypeOK, StampInv, [Next]_vars
             PROVE  StampInv'
    OBVIOUS
<1>1. ASSUME NEW s \in Snapshots, StripeChange(s)
      PROVE  StampInv'
  <2> Version \in Nat
    BY DEF TypeOK
  <2>1. \A e \in 1..Version : created[e] \in Nat
    <3>1. created \in Seq(Events) /\ Len(created) = Version
      BY DEF TypeOK
    <3>2. \A e \in 1..Version : created[e] \in Events
      BY <3>1, ElementOfSeq
    <3>3. QED BY <3>2 DEF Events
  <2>0. \A e \in 1..(Version + 1) : created'[e] \in Nat
    <3>1. created' \in Seq(Events) /\ Len(created') = Version + 1
      BY <1>1, Changed
    <3>2. \A e \in 1..(Version + 1) : created'[e] \in Events
      BY <3>1, ElementOfSeq
    <3>3. QED BY <3>2 DEF Events
  <2>2. ASSUME NEW d \in 1..(Version + 1), NEW e \in 1..(Version + 1), d <= e
        PROVE  created'[d] <= created'[e]
    <3>1. CASE e = Version + 1 /\ d # e
      <4>1. created[d] <= created[Version] /\ created[Version] <= created'[e]
        BY <1>1, <2>2, <3>1, Changed DEF StampInv, TypeOK
      <4>2. created'[d] = created[d]
        BY <1>1, <3>1, Changed
      <4>3. QED BY <2>0, <2>1, <3>1, <4>1, <4>2
    <3>2. CASE d = e
      BY <2>0, <3>2
    <3>3. CASE e # Version + 1
      BY <1>1, <2>2, <3>3, Changed DEF StampInv, TypeOK
    <3>4. QED BY <3>1, <3>2, <3>3
  <2>3. \A e \in 1..(Version + 1) : created'[e] <= e
    BY <1>1, Changed DEF StampInv, TypeOK
  <2>4. QED BY <1>1, <2>2, <2>3, Changed DEF StampInv
<1>2. CASE UNCHANGED stripeVars
  BY <1>2 DEF StampInv, Version
<1>3. QED
  BY <1>1, <1>2 DEF Next, vars, Take, Retrieve, SaveIgnored, SaveApplied, SaveCollides,
                    Notify, Fail, Forget, Delete, LegacyFind, LegacyUpdates, LegacyEnds

(* What the workers have computed and the moments that are left.              *)
LEMMA TakeStep == TypeInv /\ TypeOK' /\ [Next]_vars => TakeInv'
<1> SUFFICES ASSUME TypeInv, TypeOK', [Next]_vars
             PROVE  TakeInv'
    OBVIOUS
<1> USE DEF TypeInv, TakeInv
<1>0. /\ wpc \in [Workers -> {"idle", "retrieve", "save", "notify"}]
      /\ wevent \in [Workers -> {0} \cup Events]
      /\ ticks \in Nat /\ retries \in Nat
  BY BoundsAssumption DEF TypeOK, MaxTicks
<1>1. ASSUME NEW w \in Workers, NEW e \in Events, Take(w, e)
      PROVE  TakeInv'
  <2>1. Retrieving' = Retrieving \cup {e} /\ e \notin Retrieving
    BY <1>0, <1>1 DEF Take, Retrieving
  <2>2. Cardinality(Retrieving') = Cardinality(Retrieving) + 1
    BY <2>1, Counts, FS_AddElement
  <2>3. \/ e \in taken /\ taken' = taken /\ retries' = retries + 1
        \/ e \notin taken /\ Cardinality(taken') = Cardinality(taken) + 1 /\ retries' = retries
    <3>1. IsFiniteSet(taken) /\ taken' = taken \cup {e}
          /\ retries' = IF e \in taken THEN retries + 1 ELSE retries
      BY <1>1, Counts DEF Take
    <3>2. e \notin taken => Cardinality(taken \cup {e}) = Cardinality(taken) + 1
      BY <3>1, FS_AddElement
    <3>3. e \in taken => taken \cup {e} = taken
      OBVIOUS
    <3>4. QED BY <3>1, <3>2, <3>3
  <2>4. ticks' + Cardinality(Retrieving)' <= Cardinality(taken)' + retries'
    BY <1>0, <1>1, <2>2, <2>3, Counts DEF Take
  <2>5. QED BY <1>0, <1>1, <2>4 DEF Take
<1>2. ASSUME NEW w \in Workers, Retrieve(w)
      PROVE  TakeInv'
  <2>1. Retrieving' = Retrieving \ {wevent[w]}
    BY <1>0, <1>2 DEF Retrieve, Retrieving
  <2>2. ticks' \in {ticks, ticks + 1}
    BY <1>2 DEF Retrieve
  <2>3. ticks' + Cardinality(Retrieving)' <= Cardinality(taken)' + retries'
    BY <1>0, <1>2, <2>1, <2>2, Counts, MomentLeft DEF Retrieve
  <2>4. QED BY <1>0, <1>2, <2>3 DEF Retrieve
<1>3. ASSUME UNCHANGED <<ticks, takeVars>>, Retrieving' \subseteq Retrieving
      PROVE  ticks' + Cardinality(Retrieving)' <= Cardinality(taken)' + retries'
  <2>1. Cardinality(Retrieving') \in Nat /\ Cardinality(Retrieving') <= Cardinality(Retrieving)
    BY <1>3, Counts, FS_Subset, FS_CardinalityType
  <2>2. QED BY <1>0, <1>3, <2>1, Counts
<1>4. ASSUME NEW w \in Workers,
             \/ SaveIgnored(w) \/ SaveApplied(w) \/ SaveCollides(w) \/ Notify(w) \/ Fail(w)
      PROVE  TakeInv'
  <2>1. /\ UNCHANGED <<ticks, takeVars>>
        /\ \A v \in Workers \ {w} : wpc'[v] = wpc[v] /\ wevent'[v] = wevent[v]
        /\ wpc[w] # "idle" /\ wpc'[w] # "retrieve"
        /\ wpc'[w] = "idle" \/ wevent'[w] = wevent[w]
    BY <1>0, <1>4 DEF SaveIgnored, SaveApplied, SaveCollides, Notify, Fail, Finish
  <2>2. Retrieving' \subseteq Retrieving
    BY <2>1 DEF Retrieving
  <2>3. \A u, v \in Workers :
           wpc'[u] # "idle" /\ wpc'[v] # "idle" /\ wevent'[u] = wevent'[v] => u = v
    BY <2>1
  <2>4. QED BY <1>3, <2>1, <2>2, <2>3
<1>5. CASE UNCHANGED <<ticks, takeVars, workerVars>>
  BY <1>3, <1>5 DEF Retrieving
<1>6. QED
  BY <1>1, <1>2, <1>4, <1>5
  DEF Next, vars, StripeChange, Forget, Delete, LegacyFind, LegacyUpdates, LegacyEnds

(* A worker that returns.                                                     *)
LEMMA Finished ==
    ASSUME TypeOK, NEW w \in Workers, wpc[w] # "idle", Finish(w)
    PROVE  /\ wpc' \in [Workers -> {"idle", "retrieve", "save", "notify"}]
           /\ wevent' \in [Workers -> {0} \cup Events]
           /\ wuntil' \in [Workers -> Dates]
           /\ done' = done \cup {wevent[w]} /\ wevent[w] \in Events
           /\ wpc'[w] = "idle"
           /\ \A v \in Workers \ {w} :
                 wpc'[v] = wpc[v] /\ wevent'[v] = wevent[v] /\ wuntil'[v] = wuntil[v]
BY DateFacts DEF TypeOK, Finish, Version, Events

(* A legacy insert.                                                           *)
LEMMA Inserted ==
    ASSUME LegacyInserts
    PROVE  /\ recordIn = "absent" /\ recordIn' = "present" /\ legacy' = "idle"
           /\ validUntil' \in Dates /\ foreignWrite' = "unread"
           /\ UNCHANGED <<lastEvent, lastCreated>>
BY DateFacts DEF LegacyInserts, LegacyDates

(* What a legacy save may change: validUntil, which then nobody has read, and *)
(* whether there is a record.                                                 *)
LEMMA LegacyWrites ==
    ASSUME TypeOK, LegacyFind \/ LegacyUpdates \/ LegacyEnds
    PROVE  /\ UNCHANGED <<stripeVars, ticks, lastEvent, lastCreated, queueVars, workerVars,
                          takeVars, done, deletes, swallowed>>
           /\ recordIn' \in {"absent", "present", "deleted"} /\ validUntil' \in Dates
           /\ legacy' \in {"idle", "found", "missing"} /\ foreign' \in 0..MaxForeign
           /\ foreignWrite' \in {"none", "read", "unread"}
           /\ legacy' = "found" => recordIn' # "absent" \/ legacy = "found"
           /\ recordIn' = "absent" => recordIn = "absent"
           /\ recordIn' # "absent" /\ recordIn = "absent" /\ legacy # "found"
                 => foreignWrite' = "unread"
           /\ \/ foreignWrite' = "unread"
              \/ validUntil' = validUntil /\ foreignWrite' = foreignWrite
<1>1. CASE LegacyFind
  BY <1>1, BoundsAssumption DEF LegacyFind, TypeOK
<1>2. CASE LegacyUpdates
  BY <1>2, DateFacts DEF LegacyUpdates, LegacyDates, Overwritten, TypeOK
<1>3. CASE LegacyEnds
  BY <1>3, Inserted DEF LegacyEnds, TypeOK
<1>4. QED BY <1>1, <1>2, <1>3

(* Every step keeps the types; there is a moment left for each that is taken. *)
LEMMA TypeStep == TypeInv /\ [Next]_vars => TypeOK'
<1> SUFFICES ASSUME TypeInv, [Next]_vars
             PROVE  TypeOK'
    OBVIOUS
<1> USE DEF TypeOK
<1>0. TypeOK /\ BoundsAssumption /\ \A e \in 1..Version : created[e] \in Events
  BY BoundsAssumption, ElementOfSeq DEF TypeInv
<1>1. ASSUME NEW s \in Snapshots, StripeChange(s)
      PROVE  TypeOK'
  <2>1. \A w \in Workers : wpc'[w] # "idle" => wevent'[w] \in 1..(Version + 1)
    BY <1>0, <1>1 DEF StripeChange
  <2>2. QED BY <1>0, <1>1, <2>1, Changed DEF StripeChange, TypeInv
<1>2. ASSUME NEW w \in Workers, NEW e \in Events, Take(w, e)
      PROVE  TypeOK'
  BY <1>0, <1>2 DEF Take, Version, Events, BoundsAssumption
<1>3. ASSUME NEW w \in Workers, Retrieve(w)
      PROVE  TypeOK'
  <2>1. ticks' \in 0..MaxTicks
    BY <1>0, <1>3, MomentLeft DEF Retrieve
  <2>2. history[Version] \in Snapshots
    BY <1>0, <1>3, ElementOfSeq DEF Retrieve, Version
  <2>3. wuntil' \in [Workers -> Dates]
    BY <1>0, <1>3, <2>1, <2>2, DateFacts DEF Retrieve, Snapshots
  <2>4. QED BY <1>0, <1>3, <2>1, <2>3 DEF Retrieve, Version
<1>4. ASSUME NEW w \in Workers,
             \/ SaveIgnored(w) \/ SaveApplied(w) \/ SaveCollides(w) \/ Notify(w)
      PROVE  TypeOK'
  <2>0. wpc[w] # "idle" /\ UNCHANGED <<stripeVars, ticks, takeVars, deletes>>
    BY <1>4 DEF SaveIgnored, SaveApplied, SaveCollides, Notify
  <2>1. \/ Finish(w)
        \/ wpc' = [wpc EXCEPT ![w] = "notify"] /\ UNCHANGED <<wevent, done>>
           /\ wuntil' \in {wuntil, [wuntil EXCEPT ![w] = validUntil]}
    BY <1>4 DEF SaveIgnored, SaveApplied, SaveCollides, Notify
  <2>2. /\ wpc' \in [Workers -> {"idle", "retrieve", "save", "notify"}]
        /\ wevent' \in [Workers -> {0} \cup Events]
        /\ wuntil' \in [Workers -> Dates]
        /\ done' \in SUBSET Events
        /\ \A v \in Workers : wpc'[v] # "idle" => wpc[v] # "idle" /\ wevent'[v] = wevent[v]
    BY <1>0, <2>0, <2>1, Finished
  <2>3. /\ recordIn' \in {"absent", "present", "deleted"} /\ validUntil' \in Dates
        /\ lastEvent' \in {0} \cup Events /\ lastCreated' \in {0} \cup Events
    <3>1. CASE SaveApplied(w)
      BY <1>0, <2>0, <3>1 DEF SaveApplied, Events
    <3>2. CASE SaveCollides(w)
      BY <1>0, <3>2, Inserted DEF SaveCollides
    <3>3. CASE SaveIgnored(w) \/ Notify(w)
      BY <1>0, <3>3 DEF SaveIgnored, Notify
    <3>4. QED BY <1>4, <3>1, <3>2, <3>3
  <2>4. jobIds' \in SUBSET Dates /\ told' \in SUBSET Dates /\ foreign' \in 0..MaxForeign
    BY <1>0, <1>4 DEF SaveIgnored, SaveApplied, SaveCollides, Notify, BoundsAssumption
  <2>5. /\ legacy' \in {"idle", "found", "missing"} /\ swallowed' \in SUBSET Events
        /\ foreignWrite' \in {"none", "read", "unread"}
    <3>1. wevent[w] \in Events
      BY <1>0, <2>0, <2>1, Finished DEF Version, Events
    <3>2. CASE SaveCollides(w)
      BY <1>0, <3>1, <3>2, Inserted DEF SaveCollides
    <3>3. CASE SaveIgnored(w) \/ SaveApplied(w) \/ Notify(w)
      BY <1>0, <3>3 DEF SaveIgnored, SaveApplied, Notify
    <3>4. QED BY <1>4, <3>2, <3>3
  <2>6. QED BY <1>0, <2>0, <2>2, <2>3, <2>4, <2>5 DEF Version
<1>5. ASSUME NEW w \in Workers, Fail(w)
      PROVE  TypeOK'
  BY <1>0, <1>5, DateFacts DEF Fail, Version
<1>6. CASE (\E id \in Dates : Forget(id)) \/ Delete
  BY <1>0, <1>6 DEF Forget, Delete, Version, BoundsAssumption
<1>7. CASE UNCHANGED vars
  BY <1>0, <1>7 DEF vars, Version
<1>8. CASE LegacyFind \/ LegacyUpdates \/ LegacyEnds
  BY <1>0, <1>8, LegacyWrites DEF Version
<1>11. QED
  BY <1>1, <1>2, <1>3, <1>4, <1>5, <1>6, <1>7, <1>8 DEF Next

(* The types, the takes and the stamps together are inductive.                *)
LEMMA TypeInvariant == Spec => []TypeInv
<1>1. Init => TypeInv
  <2> SUFFICES ASSUME Init
               PROVE  TypeInv
      OBVIOUS
  <2>1. TypeOK
    BY BoundsAssumption, DateFacts, EmptySeq DEF Init, TypeOK, Version, MaxTicks
  <2>2. TakeInv
    <3>1. Retrieving = {}
      BY DEF Init, Retrieving
    <3>2. QED BY <3>1, FS_EmptySet DEF Init, TakeInv
  <2>3. StampInv
    BY DEF Init, StampInv, Version
  <2>4. QED BY <2>1, <2>2, <2>3 DEF TypeInv
<1>2. TypeInv /\ [Next]_vars => TypeInv'
  BY TypeStep, TakeStep, StampStep DEF TypeInv
<1>3. QED BY <1>1, <1>2, PTL DEF Spec

(* Types, and that moments and seconds do not run out.                        *)
THEOREM TypeCorrect == Spec => []TypeOK
BY TypeInvariant, PTL DEF TypeInv

-----------------------------------------------------------------------------
(* The record, what is told of it, and what Stripe has.                      *)

(* A save that writes always has a change to announce: that the record's own  *)
(* event brings the same validUntil again is caught before it.                *)
LEMMA AppliedNotifies ==
    ASSUME TypeInv, RecordInv, NEW w \in Workers, SaveApplied(w)
    PROVE  /\ wpc[w] = "save" /\ wevent[w] \in 1..Version
           /\ recordIn' = "present" /\ validUntil' = wuntil[w]
           /\ lastEvent' = wevent[w] /\ lastCreated' = created[wevent[w]]
           /\ lastEvent # wevent[w]
           /\ wpc' = [wpc EXCEPT ![w] = "notify"]
           /\ foreignWrite' = "none"
           /\ UNCHANGED <<wevent, wuntil, done, stripeVars, queueVars, legacy, swallowed>>
<1>1. wpc[w] = "save" /\ recordIn # "deleted" /\ wevent[w] \in 1..Version
  BY DEF SaveApplied, TypeInv, TypeOK
<1>2. ~(recordIn = "present" /\ lastEvent = wevent[w])
  <2>1. SUFFICES ASSUME recordIn = "present", lastEvent = wevent[w]
                 PROVE  FALSE
      OBVIOUS
  <2>2. lastEvent # 0 /\ lastCreated = created[wevent[w]]
    BY <1>1, <2>1 DEF RecordInv, TypeInv, TypeOK
  <2>3. AlreadyApplied(wevent[w])
    BY <2>1, <2>2 DEF AlreadyApplied, IsDuplicate
  <2>4. QED BY <2>3 DEF SaveApplied
<1>3. lastEvent # wevent[w]
  BY <1>1, <1>2 DEF RecordInv, TypeInv, TypeOK
<1>4. QED BY <1>1, <1>3 DEF SaveApplied

(* A save that does not write: the record's own event is announced again, a   *)
(* later event's record is left alone.                                        *)
LEMMA IgnoredIsOlder ==
    ASSUME TypeInv, RecordInv, NEW w \in Workers, SaveIgnored(w)
    PROVE  /\ wpc[w] = "save" /\ wevent[w] \in 1..Version /\ recordIn = "present"
           /\ UNCHANGED <<stripeVars, dbVars, queueVars, legacy, swallowed>>
           /\ \/ /\ lastEvent = wevent[w]
                 /\ wpc' = [wpc EXCEPT ![w] = "notify"]
                 /\ wuntil' = [wuntil EXCEPT ![w] = validUntil]
                 /\ UNCHANGED <<wevent, done>>
                 /\ foreignWrite' = "none" => foreignWrite = "none"
                 /\ foreignWrite = "none" => foreignWrite' = "none"
              \/ /\ lastEvent \in 1..Version /\ wevent[w] < lastEvent
                 /\ created[wevent[w]] < created[lastEvent]
                 /\ Finish(w) /\ foreignWrite' = foreignWrite
<1>1. /\ wpc[w] = "save" /\ recordIn = "present" /\ wevent[w] \in 1..Version
      /\ lastEvent \in 1..Version /\ lastCreated = created[lastEvent]
  BY DEF SaveIgnored, AlreadyApplied, RecordInv, TypeInv, TypeOK
<1>2. Version \in Nat /\ \A e \in 1..Version : created[e] \in Nat
  <2>1. created \in Seq(Events) /\ Len(created) = Version /\ Version \in Nat
    BY DEF TypeInv, TypeOK
  <2>2. \A e \in 1..Version : created[e] \in Events
    BY <2>1, ElementOfSeq
  <2>3. QED BY <2>1, <2>2 DEF Events
<1>3. CASE IsDuplicate(wevent[w])
  BY <1>1, <1>3 DEF SaveIgnored, IsDuplicate
<1>4. CASE ~IsDuplicate(wevent[w])
  <2>1. created[wevent[w]] < created[lastEvent]
    BY <1>1, <1>2, <1>4 DEF SaveIgnored, AlreadyApplied
  <2>2. ~(lastEvent <= wevent[w])
    BY <1>1, <1>2, <2>1 DEF TypeInv, StampInv
  <2>3. QED BY <1>1, <1>2, <1>4, <2>1, <2>2 DEF SaveIgnored
<1>5. QED BY <1>3, <1>4

(* A save writes event and stamp together, and a new record has had neither.  *)
LEMMA RecordStep == TypeInv /\ RecordInv /\ [Next]_vars => RecordInv'
<1> SUFFICES ASSUME TypeInv, RecordInv, [Next]_vars
             PROVE  RecordInv'
    OBVIOUS
<1> USE DEF RecordInv
<1>0. /\ TypeOK /\ Version \in Nat
      /\ \A v, w \in Workers :
            wpc[v] # "idle" /\ wpc[w] # "idle" /\ wevent[v] = wevent[w] => v = w
  BY DEF TypeInv, TypeOK, TakeInv
<1> DEFINE Undone == /\ done' \subseteq 1..Version
                     /\ \A v \in Workers : wpc'[v] # "idle" => wevent'[v] \notin done'
<1>11. ASSUME NEW w \in Workers, wpc[w] # "idle", Finish(w)
      PROVE  Undone
  <2>1. done' = done \cup {wevent[w]} /\ wevent[w] \in 1..Version /\ wpc'[w] = "idle"
        /\ \A v \in Workers \ {w} : wpc'[v] = wpc[v] /\ wevent'[v] = wevent[v]
    BY <1>0, <1>11, Finished DEF TypeOK
  <2>2. ASSUME NEW v \in Workers, wpc'[v] # "idle"
        PROVE  wevent'[v] \notin done'
    <3>1. v # w /\ wpc[v] # "idle" /\ wevent'[v] = wevent[v]
      BY <2>1, <2>2
    <3>2. wevent[v] \notin done /\ wevent[v] # wevent[w]
      BY <1>0, <1>11, <3>1
    <3>3. QED BY <2>1, <3>1, <3>2
  <2>3. QED BY <2>1, <2>2
<1>12. ASSUME UNCHANGED stripeVars
      PROVE  Version' = Version
  BY <1>12 DEF Version
<1>1. ASSUME NEW s \in Snapshots, StripeChange(s)
      PROVE  RecordInv'
  <2>1. Version' = Version + 1 /\ \A e \in 1..Version : created'[e] = created[e]
    BY <1>1, Changed DEF TypeInv
  <2>2. QED BY <1>0, <1>1, <2>1 DEF StripeChange
<1>2. ASSUME NEW w \in Workers, NEW e \in Events, Take(w, e)
      PROVE  RecordInv'
  BY <1>0, <1>2 DEF Take, Version, TypeOK
<1>3. ASSUME NEW w \in Workers, Retrieve(w)
      PROVE  RecordInv'
  BY <1>0, <1>3 DEF Retrieve, Version, TypeOK
<1>4. ASSUME NEW w \in Workers, SaveIgnored(w)
      PROVE  RecordInv'
  <2>1. CASE wpc' = [wpc EXCEPT ![w] = "notify"] /\ UNCHANGED <<wevent, done>>
    BY <1>0, <1>4, <2>1, IgnoredIsOlder DEF Version, TypeOK
  <2>2. CASE Finish(w)
    <3>1. Undone /\ Version' = Version
      BY <1>4, <1>11, <1>12, <2>2, IgnoredIsOlder
    <3>2. QED BY <1>4, <3>1, IgnoredIsOlder
  <2>3. QED BY <1>4, <2>1, <2>2, IgnoredIsOlder
<1>5. ASSUME NEW w \in Workers, SaveApplied(w)
      PROVE  RecordInv'
  <2>1. Undone /\ Version' = Version
    BY <1>0, <1>5, <1>12, AppliedNotifies DEF TypeOK
  <2>2. /\ wevent[w] \in 1..Version /\ created' = created /\ recordIn' = "present"
        /\ lastEvent' = wevent[w] /\ lastCreated' = created[wevent[w]]
    BY <1>5, AppliedNotifies
  <2>3. QED BY <2>1, <2>2
<1>6. ASSUME NEW w \in Workers, SaveCollides(w)
      PROVE  RecordInv'
  <2>1. Undone /\ Version' = Version
    BY <1>6, <1>11, <1>12 DEF SaveCollides
  <2>2. QED BY <1>6, <2>1, Inserted DEF SaveCollides
<1>7. ASSUME NEW w \in Workers, Notify(w)
      PROVE  RecordInv'
  <2>1. Undone /\ Version' = Version
    BY <1>7, <1>11, <1>12 DEF Notify
  <2>2. recordIn # "absent"
    BY <1>7 DEF Notify
  <2>3. QED BY <1>7, <2>1, <2>2 DEF Notify
<1>8. ASSUME NEW w \in Workers, Fail(w)
      PROVE  RecordInv'
  BY <1>0, <1>8 DEF Fail, Version, TypeOK
<1>9. CASE (\E id \in Dates : Forget(id)) \/ Delete \/ UNCHANGED vars
  BY <1>0, <1>9 DEF Forget, Delete, vars, Version
<1>10. CASE LegacyFind \/ LegacyUpdates \/ LegacyEnds
  <2>1. Version' = Version
    BY <1>10, <1>12, LegacyWrites DEF TypeInv
  <2>2. legacy' = "found" => recordIn' # "absent"
    BY <1>0, <1>10, LegacyWrites
  <2>3. QED BY <1>0, <1>10, <2>1, <2>2, LegacyWrites
<1>13. QED
  BY <1>1, <1>2, <1>3, <1>4, <1>5, <1>6, <1>7, <1>8, <1>9, <1>10 DEF Next

(* The worker that applied the last event tells what the record holds, and an *)
(* event is remembered only once told.                                        *)
LEMMA ToldStep == TypeInv /\ RecordInv /\ ToldInv /\ [Next]_vars => ToldInv'
<1> SUFFICES ASSUME TypeInv, RecordInv, ToldInv, [Next]_vars
             PROVE  ToldInv'
    OBVIOUS
<1> USE DEF ToldInv
<1>0. /\ TypeOK /\ Version \in Nat
      /\ \A v, w \in Workers :
            wpc[v] # "idle" /\ wpc[w] # "idle" /\ wevent[v] = wevent[w] => v = w
      /\ \A w \in Workers : wpc[w] # "idle" => wevent[w] \in 1..Version /\ wevent[w] \notin done
  BY DEF TypeInv, TypeOK, TakeInv, RecordInv
<1>1. ASSUME NEW w \in Workers, NEW e \in Events, Take(w, e)
      PROVE  ToldInv'
  BY <1>0, <1>1 DEF Take, TypeOK
<1>2. ASSUME NEW w \in Workers, Retrieve(w)
      PROVE  ToldInv'
  BY <1>0, <1>2 DEF Retrieve, TypeOK
<1>3. ASSUME NEW w \in Workers, SaveIgnored(w)
      PROVE  ToldInv'
  <2>1. CASE /\ lastEvent = wevent[w]
             /\ wpc' = [wpc EXCEPT ![w] = "notify"]
             /\ wuntil' = [wuntil EXCEPT ![w] = validUntil]
             /\ UNCHANGED <<wevent, done>>
    BY <1>0, <1>3, <2>1, IgnoredIsOlder DEF TypeOK
  <2>2. CASE wevent[w] < lastEvent /\ Finish(w)
    BY <1>0, <1>3, <2>2, IgnoredIsOlder, Finished
  <2>3. QED BY <1>3, <2>1, <2>2, IgnoredIsOlder
<1>4. ASSUME NEW w \in Workers, SaveApplied(w)
      PROVE  ToldInv'
  BY <1>0, <1>4, AppliedNotifies DEF TypeOK
<1>5. ASSUME NEW w \in Workers, SaveCollides(w)
      PROVE  ToldInv'
  BY <1>0, <1>5, Finished, Inserted DEF SaveCollides
<1>6. ASSUME NEW w \in Workers, Notify(w)
      PROVE  ToldInv'
  BY <1>0, <1>6, Finished DEF Notify
<1>7. ASSUME NEW w \in Workers, Fail(w)
      PROVE  ToldInv'
  BY <1>0, <1>7 DEF Fail, TypeOK
<1>8. CASE \/ \E s \in Snapshots : StripeChange(s)
           \/ \E id \in Dates : Forget(id)
           \/ Delete \/ UNCHANGED vars
  BY <1>0, <1>8 DEF StripeChange, Forget, Delete, vars
<1>9. CASE LegacyFind \/ LegacyUpdates \/ LegacyEnds
  BY <1>0, <1>9, LegacyWrites
<1>10. QED
  BY <1>1, <1>2, <1>3, <1>4, <1>5, <1>6, <1>7, <1>8, <1>9 DEF Next

(* A record set by the last change is set by no older one afterwards: an      *)
(* older stamp is ignored.                                                    *)
LEMMA LatestStep == TypeInv /\ RecordInv /\ LatestInv /\ [Next]_vars => LatestInv'
<1> SUFFICES ASSUME TypeInv, RecordInv, LatestInv, [Next]_vars
             PROVE  LatestInv'
    OBVIOUS
<1> USE DEF LatestInv
<1>0. /\ TypeOK /\ Version \in Nat
      /\ \A v, w \in Workers :
            wpc[v] # "idle" /\ wpc[w] # "idle" /\ wevent[v] = wevent[w] => v = w
      /\ \A w \in Workers : wpc[w] # "idle" => wevent[w] \in 1..Version /\ wevent[w] \notin done
  BY DEF TypeInv, TypeOK, TakeInv, RecordInv
<1>1. ASSUME NEW s \in Snapshots, StripeChange(s)
      PROVE  LatestInv'
  <2>1. Version' = Version + 1
    BY <1>1, Changed DEF TypeInv
  <2>2. /\ lastEvent' # Version' /\ Version' \notin done'
        /\ \A w \in Workers : wpc'[w] # "idle" => wevent'[w] # Version'
    BY <1>0, <1>1, <2>1 DEF StripeChange, RecordInv
  <2>3. QED BY <2>2
<1>2. ASSUME UNCHANGED stripeVars
      PROVE  Version' = Version /\ LastIsDistinct' = LastIsDistinct
  BY <1>2 DEF Version, LastIsDistinct
<1>3. ASSUME NEW w \in Workers, NEW e \in Events, Take(w, e)
      PROVE  LatestInv'
  BY <1>0, <1>2, <1>3 DEF Take, TypeOK
<1>4. ASSUME NEW w \in Workers, Retrieve(w)
      PROVE  LatestInv'
  <2>1. Version # 0 /\ history[Version] \in Snapshots
    BY <1>0, <1>4, ElementOfSeq DEF Retrieve, Version, TypeOK
  <2>2. Agrees(wuntil'[w], history[Version])
    BY <1>0, <1>4, <2>1 DEF Retrieve, Agrees, Active, Revoked, Snapshots, TypeOK
  <2>3. QED BY <1>0, <1>2, <1>4, <2>2 DEF Retrieve, TypeOK
<1>5. ASSUME NEW w \in Workers, SaveIgnored(w)
      PROVE  LatestInv'
  <2>1. CASE /\ lastEvent = wevent[w]
             /\ wpc' = [wpc EXCEPT ![w] = "notify"]
             /\ wuntil' = [wuntil EXCEPT ![w] = validUntil]
             /\ UNCHANGED <<wevent, done>>
    <3>1. /\ \A v \in Workers \ {w} : wpc'[v] = wpc[v] /\ wuntil'[v] = wuntil[v]
          /\ wpc'[w] = "notify"
      BY <1>0, <2>1 DEF TypeOK
    <3>2. /\ UNCHANGED <<history, recordIn, validUntil, lastEvent, swallowed, wevent, done>>
          /\ foreignWrite' = "none" => foreignWrite = "none"
          /\ Version' = Version /\ LastIsDistinct' = LastIsDistinct
      BY <1>2, <1>5, <2>1, IgnoredIsOlder
    <3>3. \A v \in Workers : wpc'[v] = "save" /\ wevent'[v] = Version
             => Agrees(wuntil'[v], history[Version])
      BY <3>1, <3>2
    <3>4. \A v \in Workers : wpc'[v] = "notify" /\ v # w => wpc[v] = "notify"
      BY <3>1
    <3>5. QED BY <2>1, <3>2, <3>3, <3>4
  <2>2. CASE lastEvent \in 1..Version /\ wevent[w] < lastEvent /\ Finish(w)
    <3>1. wevent[w] # Version
      BY <1>0, <2>2
    <3>2. QED BY <1>0, <1>2, <1>5, <2>2, <3>1, IgnoredIsOlder, Finished
  <2>3. QED BY <1>5, <2>1, <2>2, IgnoredIsOlder
<1>6. ASSUME NEW w \in Workers, SaveApplied(w)
      PROVE  LatestInv'
  <2>1. \A e \in 1..Version : created[e] \in Nat
    <3>1. created \in Seq(Events) /\ Len(created) = Version
      BY <1>0 DEF TypeOK
    <3>2. \A e \in 1..Version : created[e] \in Events
      BY <3>1, ElementOfSeq
    <3>3. QED BY <3>2 DEF Events
  <2>2. ASSUME LastIsDistinct, recordIn = "present", lastEvent = Version
        PROVE  FALSE
    <3>1. wevent[w] \in 1..Version /\ wevent[w] # Version /\ Version # 0
      BY <1>0, <1>6, <2>2, AppliedNotifies
    <3>2. created[wevent[w]] # created[Version] /\ created[wevent[w]] <= created[Version]
      BY <1>0, <2>2, <3>1 DEF LastIsDistinct, TypeInv, StampInv
    <3>3. lastCreated > created[wevent[w]]
      BY <1>0, <2>1, <2>2, <3>1, <3>2 DEF RecordInv
    <3>4. AlreadyApplied(wevent[w])
      BY <2>2, <3>1, <3>3 DEF AlreadyApplied
    <3>5. QED BY <1>6, <3>4 DEF SaveApplied
  <2>3. \/ recordIn = "present"
        \/ recordIn = "absent" /\ done = {} /\ \A v \in Workers : wpc[v] # "notify"
    BY <1>0, <1>6 DEF SaveApplied, RecordInv, TypeOK
  <2>4. LastIsDistinct =>
          /\ Version \in done \ swallowed => wevent[w] = Version
          /\ \A v \in Workers : wpc[v] = "notify" /\ wevent[v] = Version
                => wevent[w] = Version
    BY <2>2, <2>3
  <2>5. QED BY SMTT(30), <1>0, <1>2, <1>6, <2>4, AppliedNotifies DEF TypeOK
<1>7. ASSUME NEW w \in Workers, SaveCollides(w)
      PROVE  LatestInv'
  <2>1. /\ \A v \in Workers : wpc'[v] # "idle" =>
              wpc[v] # "notify" /\ wpc'[v] = wpc[v] /\ wevent'[v] = wevent[v]
              /\ wuntil'[v] = wuntil[v]
        /\ done' = {wevent[w]} /\ wevent[w] \in swallowed'
    BY <1>0, <1>7, Finished, Inserted DEF SaveCollides, RecordInv, TypeOK
  <2>2. foreignWrite' = "unread" /\ UNCHANGED stripeVars
    BY <1>7, Inserted DEF SaveCollides
  <2>3. QED BY <1>2, <2>1, <2>2
<1>8. ASSUME NEW w \in Workers, Notify(w)
      PROVE  LatestInv'
  BY <1>0, <1>2, <1>8, Finished DEF Notify
<1>9. ASSUME NEW w \in Workers, Fail(w)
      PROVE  LatestInv'
  BY <1>0, <1>2, <1>9 DEF Fail, TypeOK
<1>10. CASE (\E id \in Dates : Forget(id)) \/ Delete \/ UNCHANGED vars
  BY <1>2, <1>10 DEF Forget, Delete, vars
<1>11. CASE LegacyFind \/ LegacyUpdates \/ LegacyEnds
  <2>1. recordIn = "absent" => done = {} /\ (\A v \in Workers : wpc[v] # "notify")
    BY DEF RecordInv
  <2>2. QED BY <1>2, <1>11, <2>1, LegacyWrites, <1>0
<1>12. QED
  BY <1>1, <1>3, <1>4, <1>5, <1>6, <1>7, <1>8, <1>9, <1>10, <1>11 DEF Next

(* All parts of the invariant are kept by every step.                         *)
LEMMA Inductive == Spec => []IInv
<1>1. Init => RecordInv /\ ToldInv /\ LatestInv
  BY DEF Init, RecordInv, ToldInv, LatestInv, Version
<1>2. TypeInv /\ RecordInv /\ [Next]_vars => RecordInv'
  BY RecordStep
<1>3. TypeInv /\ RecordInv /\ ToldInv /\ [Next]_vars => ToldInv'
  BY ToldStep
<1>4. TypeInv /\ RecordInv /\ LatestInv /\ [Next]_vars => LatestInv'
  BY LatestStep
<1>5. QED
  BY <1>1, <1>2, <1>3, <1>4, TypeInvariant, PTL DEF Spec, IInv

(* When the event that set the record counts as processed, an activation of   *)
(* the record's validUntil is or was in the queue, whoever died between       *)
(* commit and add, unless a legacy save wrote it after saveRecord had last    *)
(* written or returned it.                                                    *)
THEOREM ToldCorrect == Spec => []AppliedWasTold
<1>1. IInv => AppliedWasTold
  BY DEF IInv, ToldInv, AppliedWasTold
<1>2. QED BY <1>1, Inductive, PTL

(* Once the event of Stripe's last change is processed, and did not collide,  *)
(* the entitlement is what Stripe says it is, unless a legacy save has        *)
(* changed it since saveRecord last wrote it.                                 *)
THEOREM LatestCorrect == Spec => []LatestWins
<1>1. IInv => LatestWins
  <2> SUFFICES ASSUME IInv, Version \in done \ swallowed, recordIn = "present",
                      foreignWrite = "none", LastIsDistinct
               PROVE  Agrees(validUntil, history[Version])
      BY DEF LatestWins, Agrees
  <2>1. lastEvent = Version /\ Version # 0
    BY DEF IInv, LatestInv, RecordInv
  <2>2. QED BY <2>1 DEF IInv, LatestInv
<1>2. QED BY <1>1, Inductive, PTL
=============================================================================

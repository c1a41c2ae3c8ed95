------------------------ MODULE OneTimePaymentsProofs ------------------------
(***************************************************************************)
(* Refunds stick, revoke what they are of, and are announced: for any      *)
(* number of workers, payments, invoices, events and tries.                *)
(***************************************************************************)
EXTENDS OneTimePayments, TLAPS

USE DEF stripeVars, dbVars, workerVars

Note == [payment : Payments, id : Dates]

(* Each event is processed by one worker at a time, whose try is counted.     *)
HeldInv ==
    /\ \A v, w \in Workers :
          wpc[v] # "idle" /\ wpc[w] # "idle" /\ wevent[v] = wevent[w] => v = w
    /\ \A w \in Workers : wpc[w] # "idle" =>
          /\ wevent[w] \notin done
          /\ tries[wevent[w]] # 0

(* A row was set by an event that Stripe has emitted, and only its own        *)
(* session, once paid, grants it.                                             *)
RowIsOf(p) ==
    /\ last[p] \in Emitted /\ until[p] \in Dates
    /\ last[p].kind \in GrantKinds => last[p].charge = p /\ p \in paid
    /\ active[p] = IF last[p].kind \in GrantKinds THEN "granted" ELSE "revoked"

RowInv ==
    /\ \A e \in Emitted : e.kind = "succeeded" => e.charge \in paid
    /\ \A p \in Payments : last[p] # None => RowIsOf(p)
    /\ \A w \in Workers : wpc[w] = "notify" =>
          wnote[w] \in Note /\ wnote[w].payment \in wtodo[w] \cap Recorded

TypeInv == TypeOK /\ HeldInv /\ RowInv

(* What a worker may do to payments that are not its event's own: nothing     *)
(* unless the event leads to none, or the payment it leads to was not there.  *)
MayRevokeOthers(w) ==
    /\ wevent[w].kind \in RevokeKinds
    /\ wevent[w].charge \notin traced \/ Now(w) \in missed

(* What a worker at each of its steps has read, and may still do.             *)
PathOf(w) ==
    /\ wpc[w] = "session" => wevent[w].kind \in GrantKinds
    /\ wpc[w] = "find" => wevent[w].kind \in RevokeKinds /\ wevent[w].charge \in traced
    /\ wpc[w] = "list" =>
          /\ MayRevokeOthers(w)
          /\ wevent[w].charge \in traced => last[wevent[w].charge] # wevent[w]
    /\ wpc[w] \in {"save", "notify"} =>
          /\ \A p \in wtodo[w] : p = wevent[w].charge \/ MayRevokeOthers(w)
          /\ wevent[w].kind \in GrantKinds =>
                wtodo[w] \subseteq {wevent[w].charge} /\ wevent[w].charge \in paid
          /\ wevent[w].kind \in RevokeKinds => Known \/ wevent[w].charge \in traced

PathInv == \A w \in Workers : PathOf(w)

(* A worker still has the event's own payment to announce, or has done so.    *)
ToldInv ==
    /\ OwnIsTold
    /\ \A p \in Payments :
          last[p] # None /\ last[p].charge = p /\ last[p].kind \in RevokeKinds
             => Known \/ p \in traced
    /\ \A w \in Workers, p \in Payments :
          wpc[w] # "idle" /\ last[p] = wevent[w] /\ wevent[w].charge = p /\ p \notin told =>
             /\ wpc[w] = "save" => p \in wtodo[w]
             /\ wpc[w] = "notify" => \/ p \in wtodo[w] \ {wnote[w].payment}
                                     \/ wnote[w] = [payment |-> p, id |-> until[p]]

(* The payment is as e or a later event has set it.                           *)
Reached(p, e) == last[p] # None /\ created[last[p]] >= created[e]

(* A refund or dispute that has found its payment has set it, or is about to. *)
RefundInv ==
    /\ \A p \in Payments, e \in done :
          (/\ e.charge = p /\ e.kind \in RevokeKinds
           /\ [event |-> e, try |-> tries[e]] \notin missed)
          => Reached(p, e)
    /\ \A w \in Workers : \A p \in Payments :
          (/\ wpc[w] \in {"save", "notify"}
           /\ wevent[w].charge = p /\ wevent[w].kind \in RevokeKinds
           /\ Now(w) \notin missed)
          => \/ Reached(p, wevent[w])
             \/ p \in wtodo[w] /\ (wpc[w] = "notify" => p # wnote[w].payment)

IInv == TypeInv /\ PathInv /\ BystandersKeep /\ ToldInv /\ RefundInv

-----------------------------------------------------------------------------
(* What events, charges and workers are.                                     *)

(* An event grants or revokes; one that grants names its payment.             *)
LEMMA EventFacts ==
    /\ None \notin Events
    /\ \A e \in Events : /\ e.kind \in GrantKinds \/ e.kind \in RevokeKinds
                         /\ ~(e.kind \in GrantKinds /\ e.kind \in RevokeKinds)
                         /\ e.kind \in GrantKinds => e.charge \in Payments
                         /\ e.charge \notin Invoices => e.charge \in Payments
BY NoneAssumption DEF Events, GrantKinds, RevokeKinds

(* The parts of the type that the proofs use, without the cost of expanding   *)
(* it.                                                                        *)
LEMMA TypeFacts ==
    ASSUME TypeOK
    PROVE  /\ wpc \in [Workers -> {"idle", "session", "find", "list", "save", "notify"}]
           /\ wevent \in [Workers -> Events \cup {None}]
           /\ wtodo \in [Workers -> SUBSET Payments]
           /\ wnote \in [Workers -> Note \cup {None}]
           /\ active \in [Payments -> {"none", "granted", "revoked"}]
           /\ until \in [Payments -> Dates \cup {None}]
           /\ last \in [Payments -> Events \cup {None}]
           /\ created \in [Events -> 0..MaxSecond] /\ tries \in [Events -> 0..MaxTries]
           /\ Emitted \subseteq Events /\ Recorded \subseteq Payments
           /\ Recorded = {p \in Payments : last[p] # None}
           /\ \A w \in Workers : wpc[w] # "idle" => wevent[w] \in Emitted
BY DEF TypeOK, Note, Emitted, Recorded

(* The moment of a worker's try is a date.                                    *)
LEMMA NowFacts ==
    ASSUME TypeOK, HeldInv, NEW w \in Workers, wpc[w] # "idle"
    PROVE  Now(w) \in Dates
BY TypeFacts, BoundsAssumption DEF TypeOK, HeldInv, Now, Dates

(* A worker that rests keeps nothing.                                         *)
LEMMA Rested ==
    ASSUME TypeOK, NEW w \in Workers, Rest(w)
    PROVE  /\ wpc' \in [Workers -> {"idle", "session", "find", "list", "save", "notify"}]
           /\ wevent' \in [Workers -> Events \cup {None}]
           /\ wtodo' \in [Workers -> SUBSET Payments]
           /\ wnote' \in [Workers -> Note \cup {None}]
           /\ wpc'[w] = "idle"
           /\ \A v \in Workers \ {w} : /\ wpc'[v] = wpc[v] /\ wevent'[v] = wevent[v]
                                       /\ wtodo'[v] = wtodo[v] /\ wnote'[v] = wnote[v]
BY TypeFacts DEF Rest

(* A worker goes on to save what is left, or finishes.                        *)
LEMMA SavesAll ==
    ASSUME TypeOK, NEW w \in Workers, NEW todo \in SUBSET Payments, SaveAll(w, todo)
    PROVE  /\ wpc' \in [Workers -> {"idle", "session", "find", "list", "save", "notify"}]
           /\ wevent' \in [Workers -> Events \cup {None}]
           /\ wtodo' \in [Workers -> SUBSET Payments]
           /\ wnote' \in [Workers -> Note \cup {None}]
           /\ \A v \in Workers \ {w} : /\ wpc'[v] = wpc[v] /\ wevent'[v] = wevent[v]
                                       /\ wtodo'[v] = wtodo[v] /\ wnote'[v] = wnote[v]
           /\ \/ /\ todo = {} /\ wpc'[w] = "idle"
                 /\ done' = done \cup {wevent[w]}
              \/ /\ todo # {} /\ wpc'[w] = "save" /\ wtodo'[w] = todo
                 /\ wevent' = wevent /\ done' = done
<1>1. CASE todo = {}
  BY <1>1, Rested DEF SaveAll, Finish, Rest, TypeOK
<1>2. CASE todo # {}
  BY <1>2, TypeFacts DEF SaveAll
<1>3. QED BY <1>1, <1>2

(* The steps of a worker that is at an event.                                 *)
WorkerStep(w) ==
    \/ RetrieveSession(w) \/ FindPayment(w) \/ ListPayments(w)
    \/ \E p \in Payments : SaveIgnored(w, p) \/ SaveApplied(w, p)
    \/ Notify(w) \/ Fail(w)

(* What they all leave alone: Stripe, tries, the other workers, and, as long  *)
(* as it is at work, the event of the worker itself.                          *)
OneWorkerMoves(w) ==
    /\ wpc[w] # "idle" /\ UNCHANGED <<stripeVars, tries>>
    /\ missed' \in {missed, missed \cup {Now(w)}}
    /\ wpc' \in [Workers -> {"idle", "session", "find", "list", "save", "notify"}]
    /\ wevent' \in [Workers -> Events \cup {None}]
    /\ wtodo' \in [Workers -> SUBSET Payments]
    /\ wnote' \in [Workers -> Note \cup {None}]
    /\ \A v \in Workers \ {w} : /\ wpc'[v] = wpc[v] /\ wevent'[v] = wevent[v]
                                /\ wtodo'[v] = wtodo[v] /\ wnote'[v] = wnote[v]
    /\ \/ wpc'[w] = "idle" /\ done' \in {done, done \cup {wevent[w]}}
       \/ wpc'[w] # "idle" /\ wevent' = wevent /\ done' = done
    /\ wpc'[w] \notin {"session", "find"}
    /\ wpc'[w] = "save" => wtodo'[w] # {}

(* A worker's step keeps the worker's types, and moves nobody else.           *)
LEMMA WorkerSteps ==
    ASSUME TypeInv, PathInv, NEW w \in Workers, WorkerStep(w)
    PROVE  OneWorkerMoves(w)
<1> USE TypeFacts DEF TypeInv, OneWorkerMoves
<1>0. wevent[w].kind \in GrantKinds => wpc[w] = "idle" \/ wevent[w].charge \in Payments
  BY EventFacts DEF Emitted
<1>1. CASE RetrieveSession(w)
  <2>1. PICK todo \in SUBSET Payments : SaveAll(w, todo)
    BY <1>0, <1>1 DEF RetrieveSession, PathInv, PathOf
  <2>2. QED BY <1>1, <2>1, SavesAll DEF RetrieveSession
<1>2. CASE FindPayment(w)
  <2>1. CASE wevent[w].charge \in Recorded
    <3>1. SaveAll(w, {wevent[w].charge})
      BY <1>2, <2>1 DEF FindPayment
    <3>2. QED BY <1>2, <2>1, <3>1, SavesAll DEF FindPayment
  <2>2. CASE wevent[w].charge \notin Recorded
    BY <1>2, <2>2 DEF FindPayment
  <2>3. QED BY <2>1, <2>2
<1>3. CASE ListPayments(w)
  <2>1. PICK todo \in SUBSET Payments : SaveAll(w, todo)
    BY <1>3 DEF ListPayments
  <2>2. QED BY <1>3, <2>1, SavesAll DEF ListPayments
<1>4. ASSUME NEW p \in Payments, SaveIgnored(w, p)
      PROVE  OneWorkerMoves(w)
  <2>1. CASE last[p] = wevent[w]
    <3>1. until[p] \in Dates
      BY <1>4, <2>1 DEF SaveIgnored, AlreadyApplied, RowInv, RowIsOf
    <3>2. wnote' \in [Workers -> Note \cup {None}]
      BY <1>4, <2>1, <3>1 DEF SaveIgnored, Note
    <3>3. QED BY <1>4, <2>1, <3>2 DEF SaveIgnored
  <2>2. CASE last[p] # wevent[w]
    <3>1. SaveAll(w, wtodo[w] \ {p}) /\ wtodo[w] \ {p} \in SUBSET Payments
      BY <1>4, <2>2 DEF SaveIgnored
    <3>2. QED BY <1>4, <2>2, <3>1, SavesAll DEF SaveIgnored
  <2>3. QED BY <2>1, <2>2
<1>5. ASSUME NEW p \in Payments, SaveApplied(w, p)
      PROVE  OneWorkerMoves(w)
  <2>1. [payment |-> p, id |-> Now(w)] \in Note
    BY <1>5, NowFacts DEF SaveApplied, Note
  <2>2. wnote' \in [Workers -> Note \cup {None}]
    BY <1>5, <2>1 DEF SaveApplied
  <2>3. QED BY <1>5, <2>2 DEF SaveApplied
<1>6. CASE Notify(w)
  <2>1. SaveAll(w, wtodo[w] \ {wnote[w].payment})
        /\ wtodo[w] \ {wnote[w].payment} \in SUBSET Payments
    BY <1>6 DEF Notify
  <2>2. QED BY <1>6, <2>1, SavesAll DEF Notify
<1>7. CASE Fail(w)
  BY <1>7, Rested DEF Fail
<1>8. QED BY <1>1, <1>2, <1>3, <1>4, <1>5, <1>6, <1>7 DEF WorkerStep

(* A step is Stripe's, a worker's that takes an event, or one at an event.    *)
LEMMA StepKinds ==
    ASSUME [Next]_vars
    PROVE  \/ \E e \in Events : Emit(e)
           \/ \E w \in Workers, e \in Events : Take(w, e)
           \/ \E w \in Workers : WorkerStep(w)
           \/ UNCHANGED vars
BY DEF Next, WorkerStep

(* What Stripe emits next changes no event that there is.                     *)
LEMMA Emits ==
    ASSUME TypeOK, NEW e \in Events, Emit(e)
    PROVE  /\ created' \in [Events -> 0..MaxSecond] /\ second' \in 1..MaxSecond
           /\ e \notin Emitted /\ Emitted' = Emitted \cup {e}
           /\ \A d \in Emitted : created'[d] = created[d]
           /\ paid \subseteq paid' /\ paid' \subseteq Payments
           /\ UNCHANGED <<traced, dbVars, told, workerVars, tries, done, missed>>
<1>1. second' \in 1..MaxSecond /\ created' = [created EXCEPT ![e] = second']
  BY DEF Emit
<1>2. paid \subseteq paid' /\ paid' \subseteq Payments
  BY EventFacts DEF Emit, TypeOK, GrantKinds
<1>3. QED BY <1>1, <1>2, TypeFacts, BoundsAssumption DEF Emit, Emitted, TypeOK

(* A worker takes an event nobody is at.                                      *)
LEMMA Takes ==
    ASSUME TypeOK, NEW w \in Workers, NEW e \in Events, Take(w, e)
    PROVE  /\ wpc[w] = "idle" /\ e \in Emitted /\ \A v \in Workers : wevent[v] # e
           /\ tries' \in [Events -> 0..MaxTries] /\ tries'[e] # 0
           /\ \A d \in Events \ {e} : tries'[d] = tries[d]
           /\ done' = done \ {e}
           /\ wevent' = [wevent EXCEPT ![w] = e]
           /\ wpc' \in [Workers -> {"idle", "session", "find", "list", "save", "notify"}]
           /\ \A v \in Workers \ {w} : wpc'[v] = wpc[v]
           /\ \/ wpc'[w] = "session" /\ e.kind \in GrantKinds
              \/ wpc'[w] = "find" /\ e.kind \in RevokeKinds /\ e.charge \in traced
              \/ wpc'[w] = "list" /\ e.kind \in RevokeKinds /\ e.charge \notin traced
           /\ UNCHANGED <<stripeVars, dbVars, told, wtodo, wnote, missed>>
<1>1. tries[e] \in 0..MaxTries /\ tries[e] < MaxTries
      /\ tries' = [tries EXCEPT ![e] = tries[e] + 1]
  BY TypeFacts DEF Take
<1>2. \/ wpc' = [wpc EXCEPT ![w] = "session"] /\ e.kind \in GrantKinds
      \/ wpc' = [wpc EXCEPT ![w] = "find"] /\ e.kind \in RevokeKinds /\ e.charge \in traced
      \/ wpc' = [wpc EXCEPT ![w] = "list"] /\ e.kind \in RevokeKinds /\ e.charge \notin traced
  BY EventFacts DEF Take
<1>3. QED BY <1>1, <1>2, TypeFacts, BoundsAssumption DEF Take

(* Only a save that applies its event writes a row, and only such a save and  *)
(* an announcement change what is told.                                       *)
LEMMA RowWrites ==
    ASSUME NEW w \in Workers, WorkerStep(w)
    PROVE  \/ UNCHANGED <<dbVars, told>>
           \/ Notify(w) /\ UNCHANGED dbVars
           \/ \E p \in Payments : SaveApplied(w, p)
BY DEF WorkerStep, RetrieveSession, FindPayment, ListPayments, SaveIgnored, Notify, Fail

(* A save that applies its event makes it the one that set the row.           *)
LEMMA Applies ==
    ASSUME TypeInv, NEW w \in Workers, NEW p \in Payments, SaveApplied(w, p)
    PROVE  /\ last' = [last EXCEPT ![p] = wevent[w]] /\ wevent[w] \in Emitted
           /\ last[p] # None => created[last[p]] <= created[wevent[w]]
           /\ last[p] # wevent[w] /\ wevent[w] # None
           /\ until' = [until EXCEPT ![p] = Now(w)] /\ Now(w) \in Dates
           /\ Recorded' = Recorded \cup {p} /\ p \in wtodo[w]
<1>1. wevent[w] \in Emitted /\ Now(w) \in Dates
  BY TypeFacts, NowFacts DEF SaveApplied, TypeInv
<1>2. last[p] # None => created[last[p]] \in Nat /\ created[wevent[w]] \in Nat
  BY <1>1, TypeFacts, BoundsAssumption DEF TypeInv
<1>3. Recorded' = Recorded \cup {p}
  BY TypeFacts DEF SaveApplied, Recorded, TypeInv
<1>4. QED BY <1>1, <1>2, <1>3, EventFacts, TypeFacts
          DEF SaveApplied, AlreadyApplied, TypeInv

-----------------------------------------------------------------------------
(* Types, and who is at which event.                                         *)

(* Every step keeps the types.                                                *)
LEMMA TypeStep == TypeInv /\ PathInv /\ [Next]_vars => TypeOK'
<1> SUFFICES ASSUME TypeInv, PathInv, [Next]_vars
             PROVE  TypeOK'
    OBVIOUS
<1> USE DEF TypeInv
<1>1. ASSUME NEW e \in Events, Emit(e)
      PROVE  TypeOK'
  <2>1. Recorded' = Recorded
    BY <1>1, Emits DEF Recorded
  <2>2. QED BY <1>1, <2>1, Emits DEF TypeOK
<1>2. ASSUME NEW w \in Workers, NEW e \in Events, Take(w, e)
      PROVE  TypeOK'
  <2>1. Recorded' = Recorded /\ Emitted' = Emitted
    BY <1>2, Takes DEF Recorded, Emitted
  <2>2. QED BY <1>2, <2>1, Takes DEF TypeOK
<1>3. ASSUME NEW w \in Workers, WorkerStep(w)
      PROVE  TypeOK'
  <2>1. OneWorkerMoves(w) /\ Emitted' = Emitted /\ Now(w) \in Dates
    BY <1>3, WorkerSteps, NowFacts DEF OneWorkerMoves, Emitted
  <2>2. /\ active' \in [Payments -> {"none", "granted", "revoked"}]
        /\ until' \in [Payments -> Dates \cup {None}]
        /\ last' \in [Payments -> Events \cup {None}]
        /\ \A p \in Payments : active'[p] = "none" <=> last'[p] = None
        /\ told' \subseteq Recorded'
    <3>1. CASE UNCHANGED <<dbVars, told>>
      BY <3>1 DEF TypeOK, Recorded
    <3>2. CASE Notify(w) /\ UNCHANGED dbVars
      <4>1. wnote[w].payment \in Recorded /\ Recorded' = Recorded
        BY <3>2 DEF Notify, RowInv, Recorded
      <4>2. QED BY <3>2, <4>1 DEF Notify, TypeOK
    <3>3. ASSUME NEW p \in Payments, SaveApplied(w, p)
          PROVE  /\ active' \in [Payments -> {"none", "granted", "revoked"}]
                 /\ until' \in [Payments -> Dates \cup {None}]
                 /\ last' \in [Payments -> Events \cup {None}]
                 /\ \A q \in Payments : active'[q] = "none" <=> last'[q] = None
                 /\ told' \subseteq Recorded'
      <4>1. active' = [active EXCEPT ![p] = active'[p]] /\ active'[p] \in {"granted", "revoked"}
        BY <3>3 DEF SaveApplied, TypeOK
      <4>2. /\ active' \in [Payments -> {"none", "granted", "revoked"}]
            /\ active'[p] # "none" /\ \A q \in Payments \ {p} : active'[q] = active[q]
        BY <4>1, TypeFacts
      <4>3. /\ last' \in [Payments -> Events \cup {None}]
            /\ last'[p] # None /\ \A q \in Payments \ {p} : last'[q] = last[q]
        BY <3>3, Applies, TypeFacts
      <4>4. until' \in [Payments -> Dates \cup {None}]
        BY <3>3, Applies, TypeFacts
      <4>5. told' \subseteq Recorded'
        BY <3>3, Applies DEF SaveApplied, TypeOK
      <4>6. \A q \in Payments : active'[q] = "none" <=> last'[q] = None
        BY <4>2, <4>3 DEF TypeOK
      <4>7. QED BY <4>2, <4>3, <4>4, <4>5, <4>6
    <3>4. QED BY <1>3, <3>1, <3>2, <3>3, RowWrites
  <2>3. done' \subseteq Emitted' /\ missed' \subseteq Dates
    BY <2>1, TypeFacts DEF OneWorkerMoves, TypeOK
  <2>4. \A v \in Workers : /\ wpc'[v] # "idle" => wevent'[v] \in Emitted'
                           /\ wpc'[v] = "save" => wtodo'[v] # {}
    BY <2>1 DEF OneWorkerMoves, TypeOK
  <2>5. /\ UNCHANGED <<stripeVars, tries>>
        /\ wpc' \in [Workers -> {"idle", "session", "find", "list", "save", "notify"}]
        /\ wevent' \in [Workers -> Events \cup {None}]
        /\ wtodo' \in [Workers -> SUBSET Payments]
        /\ wnote' \in [Workers -> Note \cup {None}]
    BY <2>1 DEF OneWorkerMoves
  <2>6. QED BY <2>2, <2>3, <2>4, <2>5 DEF TypeOK, Note
<1>4. CASE UNCHANGED vars
  BY <1>4 DEF vars, TypeOK, Recorded, Emitted
<1>5. QED BY <1>1, <1>2, <1>3, <1>4, StepKinds

(* An event is held by one worker at a time, and not processed again while it *)
(* counts as done.                                                            *)
LEMMA HeldStep == TypeInv /\ PathInv /\ [Next]_vars => HeldInv'
<1> SUFFICES ASSUME TypeInv, PathInv, [Next]_vars
             PROVE  HeldInv'
    OBVIOUS
<1> USE DEF TypeInv
<1>1. ASSUME NEW e \in Events, Emit(e)
      PROVE  HeldInv'
  BY <1>1, Emits DEF HeldInv
<1>2. ASSUME NEW w \in Workers, NEW e \in Events, Take(w, e)
      PROVE  HeldInv'
  BY <1>2, Takes, TypeFacts DEF HeldInv, Emitted
<1>3. ASSUME NEW w \in Workers, WorkerStep(w)
      PROVE  HeldInv'
  BY <1>3, WorkerSteps DEF HeldInv, OneWorkerMoves
<1>4. CASE UNCHANGED vars
  BY <1>4 DEF vars, HeldInv
<1>5. QED BY <1>1, <1>2, <1>3, <1>4, StepKinds

(* A worker that comes to announce a row has the date its event set there.    *)
RowToTell(w) ==
    /\ wpc[w] = "save" /\ wtodo' = wtodo /\ wevent' = wevent
    /\ \E p \in wtodo[w] \cap Recorded' :
          /\ last'[p] = wevent[w] /\ until'[p] \in Dates
          /\ wnote'[w] = [payment |-> p, id |-> until'[p]]
          /\ \A q \in Payments \ {p} : last'[q] = last[q] /\ (q \in told => q \in told')

(* A worker is to tell about the row it has just written, or finds written by *)
(* its own event.                                                             *)
LEMMA Announces ==
    ASSUME TypeInv, PathInv, NEW w \in Workers, WorkerStep(w), wpc'[w] = "notify"
    PROVE  RowToTell(w)
<1> USE TypeFacts DEF TypeInv, RowToTell
<1>1. wtodo[w] \subseteq Payments
  OBVIOUS
<1>2. ASSUME NEW p \in Payments, SaveApplied(w, p)
      PROVE  RowToTell(w)
  <2>1. last'[p] = wevent[w] /\ until'[p] = Now(w) /\ Now(w) \in Dates
    BY <1>2, Applies
  <2>2. p \in wtodo[w] /\ p \in Recorded'
    BY <1>2, Applies
  <2>3. wnote'[w] = [payment |-> p, id |-> Now(w)]
    BY <1>2 DEF SaveApplied
  <2>4. \A q \in Payments \ {p} : last'[q] = last[q] /\ (q \in told => q \in told')
    BY <1>2 DEF SaveApplied
  <2>5. QED BY <1>2, <2>1, <2>2, <2>3, <2>4 DEF SaveApplied
<1>3. ASSUME NEW p \in Payments, SaveIgnored(w, p)
      PROVE  RowToTell(w)
  <2>1. last[p] = wevent[w]
    BY <1>3, SavesAll DEF SaveIgnored
  <2>2. p \in Recorded' /\ until[p] \in Dates
    BY <1>3, <2>1, EventFacts DEF SaveIgnored, AlreadyApplied, RowInv, RowIsOf, Recorded
  <2>3. QED BY <1>3, <2>1, <2>2 DEF SaveIgnored
<1>4. \E p \in Payments : SaveApplied(w, p) \/ SaveIgnored(w, p)
  <2>1. \A todo \in SUBSET Payments : ~SaveAll(w, todo)
    BY SavesAll
  <2>2. ~RetrieveSession(w)
    BY <2>1, EventFacts DEF RetrieveSession, PathInv, PathOf, Emitted
  <2>3. ~FindPayment(w)
    BY <2>1 DEF FindPayment
  <2>4. ~ListPayments(w) /\ ~Notify(w)
    BY <2>1 DEF ListPayments, Notify
  <2>5. ~Fail(w)
    BY Rested DEF Fail
  <2>6. QED BY <2>2, <2>3, <2>4, <2>5 DEF WorkerStep
<1>5. QED BY <1>2, <1>3, <1>4

(* What a worker that comes to save has to save: the event's own payment, all *)
(* of the customer's, or what is left of what it had.                         *)
RestToSave(w) ==
    /\ wevent' = wevent /\ UNCHANGED dbVars
    /\ \/ /\ wpc[w] = "session" /\ wevent[w].charge \in paid
          /\ wtodo'[w] = {wevent[w].charge} /\ UNCHANGED told
       \/ /\ wpc[w] = "find" /\ wevent[w].charge \in Recorded
          /\ wtodo'[w] = {wevent[w].charge} /\ UNCHANGED <<told, missed>>
       \/ /\ wpc[w] = "list" /\ Known
          /\ wtodo'[w] = Recorded /\ UNCHANGED told
          /\ \/ wevent[w].charge \in Recorded \cup Invoices
             \/ missed' = missed \cup {Now(w)}
       \/ /\ wpc[w] = "save" /\ UNCHANGED <<told, missed>>
          /\ \E p \in wtodo[w] : /\ wtodo'[w] = wtodo[w] \ {p}
                                 /\ last[p] # wevent[w] /\ AlreadyApplied(p, wevent[w])
       \/ /\ Notify(w) /\ UNCHANGED missed
          /\ wtodo'[w] = wtodo[w] \ {wnote[w].payment}

(* What a worker is left to save, when it is to save.                         *)
LEMMA Saves ==
    ASSUME TypeInv, PathInv, NEW w \in Workers, WorkerStep(w), wpc'[w] = "save"
    PROVE  RestToSave(w)
<1> USE TypeFacts DEF TypeInv, RestToSave
<1>0. wpc[w] # "idle" /\ wevent' = wevent
  BY WorkerSteps DEF OneWorkerMoves
<1>1. CASE RetrieveSession(w)
  <2>1. wevent[w].charge \in Payments /\ (wevent[w].kind # "completed" => wevent[w].kind = "succeeded")
    BY <1>0, <1>1, EventFacts DEF RetrieveSession, PathInv, PathOf, GrantKinds, Emitted
  <2>2. wevent[w].kind = "completed" => wevent[w].charge \in paid
    BY <1>1, SavesAll DEF RetrieveSession
  <2>3. wevent[w].charge \in paid
    BY <1>0, <2>1, <2>2 DEF RowInv
  <2>4. SaveAll(w, {wevent[w].charge})
    BY <1>1, <2>3 DEF RetrieveSession
  <2>5. QED BY <1>0, <1>1, <2>1, <2>3, <2>4, SavesAll DEF RetrieveSession
<1>2. CASE FindPayment(w)
  BY <1>0, <1>2, SavesAll DEF FindPayment
<1>3. CASE ListPayments(w)
  <2>1. PICK todo \in {Recorded, {}} : SaveAll(w, todo) /\ (todo # {} => Known /\ todo = Recorded)
    BY <1>3 DEF ListPayments
  <2>2. todo = Recorded /\ Known /\ wtodo'[w] = todo
    BY <2>1, SavesAll
  <2>3. QED BY <1>0, <1>3, <2>2 DEF ListPayments
<1>4. ASSUME NEW p \in Payments, SaveIgnored(w, p)
      PROVE  RestToSave(w)
  <2>1. last[p] # wevent[w]
    BY <1>4 DEF SaveIgnored
  <2>2. SaveAll(w, wtodo[w] \ {p}) /\ wtodo[w] \ {p} \in SUBSET Payments
    BY <1>4, <2>1 DEF SaveIgnored
  <2>3. QED BY <1>0, <1>4, <2>1, <2>2, SavesAll DEF SaveIgnored
<1>5. ASSUME NEW p \in Payments
      PROVE  ~SaveApplied(w, p)
  BY DEF SaveApplied
<1>6. CASE Notify(w)
  <2>1. SaveAll(w, wtodo[w] \ {wnote[w].payment})
        /\ wtodo[w] \ {wnote[w].payment} \in SUBSET Payments
    BY <1>6 DEF Notify
  <2>2. QED BY <1>0, <1>6, <2>1, SavesAll DEF Notify
<1>7. ~Fail(w)
  BY Rested DEF Fail
<1>8. QED BY <1>1, <1>2, <1>3, <1>4, <1>5, <1>6, <1>7 DEF WorkerStep

(* A worker that comes to list the customer's payments did not find its own.  *)
LEMMA Lists ==
    ASSUME TypeInv, PathInv, NEW w \in Workers, WorkerStep(w), wpc'[w] = "list"
    PROVE  /\ wpc[w] = "find" /\ wevent[w].charge \notin Recorded
           /\ wevent' = wevent /\ UNCHANGED dbVars /\ missed' = missed \cup {Now(w)}
<1> USE TypeFacts DEF TypeInv
<1>1. \A todo \in SUBSET Payments : ~SaveAll(w, todo)
  BY SavesAll
<1>2. ~RetrieveSession(w)
  BY <1>1, EventFacts DEF RetrieveSession, PathInv, PathOf, Emitted
<1>3. ~ListPayments(w) /\ ~Notify(w)
  BY <1>1 DEF ListPayments, Notify
<1>4. ASSUME NEW p \in Payments
      PROVE  ~SaveIgnored(w, p) /\ ~SaveApplied(w, p)
  BY <1>1 DEF SaveIgnored, SaveApplied
<1>5. ~Fail(w)
  BY Rested DEF Fail
<1>6. FindPayment(w)
  BY <1>2, <1>3, <1>4, <1>5 DEF WorkerStep
<1>7. QED BY <1>1, <1>6 DEF FindPayment

(* The steps that are not a worker's own.                                     *)
OtherStep(v) ==
    \/ \E e \in Events : Emit(e)
    \/ \E w \in Workers \ {v}, e \in Events : Take(w, e)
    \/ \E w \in Workers \ {v} : WorkerStep(w)
    \/ UNCHANGED vars

(* As one worker sees it, a step is its own, the taking of an event, or       *)
(* another's.                                                                 *)
LEMMA StepsOf ==
    ASSUME [Next]_vars, NEW v \in Workers
    PROVE  OtherStep(v) \/ WorkerStep(v) \/ \E e \in Events : Take(v, e)
BY StepKinds DEF OtherStep

(* They leave a worker where it is, its event's try the one it is at.         *)
LEMMA Undisturbed ==
    ASSUME TypeInv, PathInv, NEW v \in Workers, OtherStep(v)
    PROVE  /\ wpc'[v] = wpc[v] /\ wevent'[v] = wevent[v]
           /\ wtodo'[v] = wtodo[v] /\ wnote'[v] = wnote[v]
           /\ wpc[v] # "idle" => Now(v)' = Now(v)
<1>1. ASSUME NEW e \in Events, Emit(e)
      PROVE  UNCHANGED <<workerVars, tries>>
  BY <1>1, Emits DEF TypeInv
<1>2. ASSUME NEW w \in Workers \ {v}, NEW e \in Events, Take(w, e)
      PROVE  /\ wpc'[v] = wpc[v] /\ wevent'[v] = wevent[v] /\ UNCHANGED <<wtodo, wnote>>
             /\ wpc[v] # "idle" => tries'[wevent[v]] = tries[wevent[v]]
  BY <1>2, Takes, TypeFacts DEF TypeInv, Emitted
<1>3. ASSUME NEW w \in Workers \ {v}, WorkerStep(w)
      PROVE  /\ wpc'[v] = wpc[v] /\ wevent'[v] = wevent[v] /\ UNCHANGED tries
             /\ wtodo'[v] = wtodo[v] /\ wnote'[v] = wnote[v]
  BY <1>3, WorkerSteps DEF OneWorkerMoves
<1>4. QED BY <1>1, <1>2, <1>3 DEF OtherStep, Now, vars

(* What only grows.                                                           *)
LEMMA Grows ==
    ASSUME TypeInv, PathInv, [Next]_vars
    PROVE  /\ missed \subseteq missed' /\ paid \subseteq paid' /\ traced' = traced
           /\ Emitted \subseteq Emitted' /\ \A e \in Emitted : created'[e] = created[e]
<1>1. ASSUME NEW e \in Events, Emit(e)
      PROVE  /\ UNCHANGED <<missed, traced>> /\ paid \subseteq paid'
             /\ Emitted \subseteq Emitted' /\ \A d \in Emitted : created'[d] = created[d]
  BY <1>1, Emits DEF TypeInv
<1>2. ASSUME NEW w \in Workers, NEW e \in Events, Take(w, e)
      PROVE  UNCHANGED <<stripeVars, missed>>
  BY <1>2, Takes DEF TypeInv
<1>3. ASSUME NEW w \in Workers, WorkerStep(w)
      PROVE  UNCHANGED stripeVars /\ missed \subseteq missed'
  BY <1>3, WorkerSteps DEF OneWorkerMoves
<1>4. QED BY <1>1, <1>2, <1>3, StepKinds DEF vars, Emitted

(* A row stays as it is unless a worker applies its event to it.              *)
LEMMA RowSteps ==
    ASSUME TypeInv, PathInv, [Next]_vars, NEW p \in Payments
    PROVE  \/ last'[p] = last[p] /\ until'[p] = until[p] /\ active'[p] = active[p]
           \/ \E w \in Workers : SaveApplied(w, p)
<1>1. ASSUME NEW w \in Workers, NEW q \in Payments, SaveApplied(w, q), p # q
      PROVE  last'[p] = last[p] /\ until'[p] = until[p] /\ active'[p] = active[p]
  BY <1>1, TypeFacts DEF SaveApplied, TypeInv
<1>2. ASSUME NEW w \in Workers, WorkerStep(w)
      PROVE  \/ last'[p] = last[p] /\ until'[p] = until[p] /\ active'[p] = active[p]
             \/ SaveApplied(w, p)
  BY <1>1, <1>2, RowWrites
<1>3. QED BY <1>2, StepKinds, Emits, Takes DEF TypeInv, vars

(* A row is what its last event makes of it: granted or revoked, and paid     *)
(* for.                                                                       *)
LEMMA RowStep == TypeInv /\ PathInv /\ [Next]_vars => RowInv'
<1> SUFFICES ASSUME TypeInv, PathInv, [Next]_vars
             PROVE  RowInv'
    OBVIOUS
<1> USE DEF TypeInv
<1>1. ASSUME NEW e \in Emitted', e.kind = "succeeded"
      PROVE  e.charge \in paid'
  <2>1. CASE e \in Emitted
    BY <1>1, <2>1, Grows DEF RowInv
  <2>2. CASE e \notin Emitted
    <3>1. Emit(e)
      <4>1. ASSUME NEW d \in Events, Emit(d)
            PROVE  d = e
        BY <2>2, <4>1, Emits
      <4>2. ASSUME NEW w \in Workers, NEW d \in Events, Take(w, d)
            PROVE  FALSE
        BY <2>2, <4>2, Takes DEF Emitted
      <4>3. ASSUME NEW w \in Workers, WorkerStep(w)
            PROVE  FALSE
        BY <2>2, <4>3, WorkerSteps DEF Emitted, OneWorkerMoves
      <4>4. ~UNCHANGED vars
        BY <2>2 DEF Emitted, vars
      <4>5. QED BY <4>1, <4>2, <4>3, <4>4, StepKinds
    <3>2. QED BY <1>1, <3>1 DEF Emit, RevokeKinds
  <2>3. QED BY <2>1, <2>2
<1>2. ASSUME NEW p \in Payments, last'[p] # None
      PROVE  RowIsOf(p)'
  <2>1. CASE last'[p] = last[p] /\ until'[p] = until[p] /\ active'[p] = active[p]
    BY <1>2, <2>1, Grows DEF RowInv, RowIsOf
  <2>2. ASSUME NEW w \in Workers, SaveApplied(w, p)
        PROVE  RowIsOf(p)'
    <3>1. last'[p] = wevent[w] /\ wevent[w] \in Emitted /\ until'[p] \in Dates
      BY <2>2, Applies, TypeFacts
    <3>2. active'[p] = IF wevent[w].kind \in GrantKinds THEN "granted" ELSE "revoked"
      BY <2>2, TypeFacts DEF SaveApplied
    <3>3. wevent[w].kind \in GrantKinds => wevent[w].charge = p /\ p \in paid
      BY <2>2 DEF SaveApplied, PathInv, PathOf
    <3>4. QED BY <3>1, <3>2, <3>3, Grows DEF RowIsOf
  <2>3. QED BY <2>1, <2>2, RowSteps
<1>3. ASSUME NEW v \in Workers, wpc'[v] = "notify"
      PROVE  wnote'[v] \in Note /\ wnote'[v].payment \in wtodo'[v] \cap Recorded'
  <2>1. CASE OtherStep(v)
    <3>1. wnote[v] \in Note /\ wnote[v].payment \in wtodo[v] \cap Recorded
      BY <1>3, <2>1, Undisturbed DEF RowInv
    <3>2. wnote[v].payment \in Recorded'
      BY <3>1, RowSteps, Applies, TypeFacts DEF Recorded, Note
    <3>3. QED BY <2>1, <3>1, <3>2, Undisturbed
  <2>2. CASE WorkerStep(v)
    <3>1. PICK p \in wtodo[v] \cap Recorded' :
             until'[p] \in Dates /\ wnote'[v] = [payment |-> p, id |-> until'[p]]
      BY <1>3, <2>2, Announces DEF RowToTell
    <3>2. p \in Payments /\ p \in wtodo'[v]
      BY <1>3, <2>2, Announces, TypeFacts DEF RowToTell
    <3>3. QED BY <3>1, <3>2 DEF Note
  <2>3. ASSUME NEW e \in Events, Take(v, e)
        PROVE  FALSE
    BY <1>3, <2>3, Takes
  <2>4. QED BY <2>1, <2>2, <2>3, StepsOf
<1>4. QED BY <1>1, <1>2, <1>3 DEF RowInv

(* A worker's event stays set on a row, or not, while others work.            *)
LEMMA NotByOthers ==
    ASSUME TypeInv, PathInv, NEW v \in Workers, OtherStep(v), wpc[v] # "idle",
           NEW p \in Payments, last'[p] = wevent[v]
    PROVE  last[p] = wevent[v] /\ until'[p] = until[p] /\ (p \in told => p \in told')
<1>1. ASSUME NEW w \in Workers \ {v}, WorkerStep(w)
      PROVE  last[p] = wevent[v] /\ until'[p] = until[p] /\ (p \in told => p \in told')
  <2>1. wpc[w] # "idle" /\ wevent[w] # wevent[v]
    BY <1>1, WorkerSteps DEF OneWorkerMoves, TypeInv, HeldInv
  <2>2. ASSUME NEW q \in Payments, SaveApplied(w, q)
        PROVE  last[p] = wevent[v] /\ until'[p] = until[p] /\ (p \in told => p \in told')
    BY <2>1, <2>2, Applies, TypeFacts DEF TypeInv, SaveApplied
  <2>3. QED BY <1>1, <2>2, RowWrites DEF Notify
<1>2. CASE UNCHANGED <<dbVars, told>>
  BY <1>2
<1>3. QED BY <1>1, <1>2, Emits, Takes DEF OtherStep, TypeInv, vars

(* Where a worker is tells what it has read, and which rows it has written.   *)
LEMMA PathStep == TypeInv /\ PathInv /\ [Next]_vars => PathInv'
<1> SUFFICES ASSUME TypeInv, PathInv, [Next]_vars, NEW v \in Workers
             PROVE  PathOf(v)'
    BY DEF PathInv
<1> USE DEF TypeInv
<1>1. CASE OtherStep(v)
  <2>1. wpc[v] # "idle" /\ MayRevokeOthers(v) => MayRevokeOthers(v)'
    BY <1>1, Undisturbed, Grows DEF MayRevokeOthers
  <2>2. /\ wpc'[v] = wpc[v] /\ wevent'[v] = wevent[v] /\ wtodo'[v] = wtodo[v]
        /\ traced' = traced /\ paid \subseteq paid'
    BY <1>1, Undisturbed, Grows
  <2>3. wpc[v] # "idle" /\ wevent[v].charge \in traced /\ last'[wevent[v].charge] = wevent[v]
        => last[wevent[v].charge] = wevent[v]
    BY <1>1, NotByOthers DEF TypeOK
  <2>4. QED BY <2>1, <2>2, <2>3 DEF PathInv, PathOf
<1>2. ASSUME NEW e \in Events, Take(v, e)
      PROVE  PathOf(v)'
  <2>1. wevent'[v] = e /\ wpc'[v] \notin {"save", "notify"} /\ traced' = traced
    BY <1>2, Takes, TypeFacts
  <2>2. QED BY <1>2, <2>1, Takes DEF PathOf, MayRevokeOthers
<1>3. CASE WorkerStep(v)
  <2>1. OneWorkerMoves(v)
    BY <1>3, WorkerSteps
  <2>2. wevent' = wevent => Now(v)' = Now(v)
    BY <2>1 DEF OneWorkerMoves, Now
  <2>3. MayRevokeOthers(v) /\ wevent' = wevent => MayRevokeOthers(v)'
    BY <2>1, <2>2, Grows DEF MayRevokeOthers
  <2>4. CASE wpc'[v] = "list"
    <3>1. wevent[v].charge \in traced => last[wevent[v].charge] # wevent[v]
      BY <1>3, <2>4, Lists, TypeFacts, EventFacts DEF TypeOK, Emitted
    <3>2. MayRevokeOthers(v)'
      BY <1>3, <2>2, <2>4, Lists DEF MayRevokeOthers, PathInv, PathOf
    <3>3. QED BY <1>3, <2>1, <2>4, <3>1, <3>2, Lists DEF PathOf, OneWorkerMoves
  <2>5. CASE wpc'[v] = "notify"
    <3>1. wpc[v] = "save" /\ wtodo' = wtodo /\ wevent' = wevent
      BY <1>3, <2>5, Announces DEF RowToTell
    <3>2. QED BY <2>3, <2>5, <3>1, Grows DEF PathInv, PathOf
  <2>6. CASE wpc'[v] = "save"
    <3>1. wevent' = wevent /\ wevent[v] \in Events
      BY <1>3, <2>1, <2>6, Saves, TypeFacts DEF RestToSave, OneWorkerMoves
    <3>2. CASE wpc[v] \in {"session", "find"} /\ wtodo'[v] = {wevent[v].charge}
      <4>1. \/ wevent[v].kind \in GrantKinds /\ wevent[v].charge \in paid
            \/ wevent[v].kind \in RevokeKinds /\ wevent[v].charge \in traced
        BY <1>3, <2>6, <3>2, Saves DEF PathInv, PathOf, RestToSave, Notify
      <4>2. QED BY <2>6, <3>1, <3>2, <4>1, Grows, EventFacts DEF PathOf
    <3>3. CASE wpc[v] = "list" /\ Known
      BY <2>3, <2>6, <3>1, <3>3, EventFacts DEF PathInv, PathOf, MayRevokeOthers
    <3>4. CASE wpc[v] \in {"save", "notify"} /\ wtodo'[v] \subseteq wtodo[v]
      BY <2>3, <2>6, <3>1, <3>4, Grows DEF PathInv, PathOf
    <3>5. QED BY <1>3, <2>6, <3>2, <3>3, <3>4, Saves DEF RestToSave, Notify
  <2>7. QED BY <2>1, <2>4, <2>5, <2>6, TypeFacts DEF OneWorkerMoves, PathOf
<1>4. QED BY <1>1, <1>2, <1>3, StepsOf

-----------------------------------------------------------------------------
(* What is revoked, and who is told.                                         *)

(* A row is revoked for another charge's event only by a try that missed its  *)
(* payment.                                                                   *)
LEMMA BystandersStep == TypeInv /\ PathInv /\ BystandersKeep /\ [Next]_vars => BystandersKeep'
<1> SUFFICES ASSUME TypeInv, PathInv, BystandersKeep, [Next]_vars,
                    NEW p \in Payments, active'[p] = "revoked", last'[p].charge # p
             PROVE  last'[p].charge \notin traced' \/ until'[p] \in missed'
    BY DEF BystandersKeep
<1>1. CASE last'[p] = last[p] /\ until'[p] = until[p] /\ active'[p] = active[p]
  BY <1>1, Grows DEF BystandersKeep
<1>2. ASSUME NEW w \in Workers, SaveApplied(w, p)
      PROVE  last'[p].charge \notin traced' \/ until'[p] \in missed'
  <2>1. last'[p] = wevent[w] /\ until'[p] = Now(w) /\ p \in wtodo[w] /\ wpc[w] = "save"
    BY <1>2, Applies, TypeFacts DEF SaveApplied, TypeInv
  <2>2. MayRevokeOthers(w)
    BY <2>1 DEF PathInv, PathOf
  <2>3. QED BY <2>1, <2>2, Grows DEF MayRevokeOthers
<1>3. QED BY <1>1, <1>2, RowSteps

(* How a worker comes to the end of its event.                                *)
Finishes(w) ==
    /\ done' = done \cup {wevent[w]} /\ UNCHANGED dbVars
    /\ \/ /\ wpc[w] = "session" /\ wevent[w].charge \notin paid
          /\ UNCHANGED told
       \/ /\ wpc[w] = "list" /\ (Known => Recorded = {})
          /\ wevent[w].charge \in Invoices \/ Now(w) \in missed'
          /\ UNCHANGED told
       \/ /\ wpc[w] = "save" /\ UNCHANGED <<told, missed>>
          /\ \E p \in wtodo[w] : /\ wtodo[w] = {p} /\ last[p] # wevent[w]
                                 /\ AlreadyApplied(p, wevent[w])
       \/ /\ Notify(w) /\ UNCHANGED missed
          /\ wtodo[w] \subseteq {wnote[w].payment}

(* An event is done when its worker has nothing left to save or to tell.      *)
LEMMA EndsOf ==
    ASSUME TypeInv, PathInv, NEW w \in Workers, WorkerStep(w), wevent[w] \in done'
    PROVE  Finishes(w)
<1> USE TypeFacts DEF TypeInv, Finishes
<1>1. wpc[w] # "idle" /\ wevent[w] \notin done /\ done' # done
  BY WorkerSteps DEF OneWorkerMoves, HeldInv
<1>2. CASE RetrieveSession(w)
  <2>1. wevent[w].charge \in Payments
    BY <1>1, <1>2, EventFacts DEF RetrieveSession, PathInv, PathOf, Emitted
  <2>2. wevent[w].charge \notin paid
    <3>1. {wevent[w].charge} \in SUBSET Payments /\ {wevent[w].charge} # {}
      BY <2>1
    <3>2. ~SaveAll(w, {wevent[w].charge})
      BY <1>1, <3>1, SavesAll
    <3>3. QED BY <1>2, <3>2 DEF RetrieveSession
  <2>3. PICK todo \in SUBSET Payments : SaveAll(w, todo)
    BY <1>2, <2>1 DEF RetrieveSession
  <2>4. QED BY <1>1, <1>2, <2>2, <2>3, SavesAll DEF RetrieveSession
<1>3. CASE FindPayment(w)
  <2>1. PICK p \in Payments : SaveAll(w, {p})
    BY <1>1, <1>3 DEF FindPayment
  <2>2. {p} \in SUBSET Payments /\ {p} # {}
    OBVIOUS
  <2>3. QED BY <1>1, <2>1, <2>2, SavesAll
<1>4. CASE ListPayments(w)
  <2>1. SaveAll(w, {}) /\ (Known => Recorded = {})
    BY <1>1, <1>4, SavesAll DEF ListPayments
  <2>2. wevent[w].charge \in Invoices \/ Now(w) \in missed'
    BY <1>4, <2>1 DEF ListPayments
  <2>3. QED BY <1>1, <1>4, <2>1, <2>2, SavesAll DEF ListPayments
<1>5. ASSUME NEW p \in Payments, SaveIgnored(w, p)
      PROVE  Finishes(w)
  <2>1. last[p] # wevent[w] /\ SaveAll(w, wtodo[w] \ {p})
        /\ wtodo[w] \ {p} \in SUBSET Payments
    BY <1>1, <1>5 DEF SaveIgnored
  <2>2. wtodo[w] \ {p} = {}
    BY <1>1, <2>1, SavesAll
  <2>3. QED BY <1>1, <1>5, <2>1, <2>2, SavesAll DEF SaveIgnored
<1>6. ASSUME NEW p \in Payments
      PROVE  ~SaveApplied(w, p)
  BY <1>1 DEF SaveApplied
<1>7. CASE Notify(w)
  <2>1. SaveAll(w, wtodo[w] \ {wnote[w].payment})
        /\ wtodo[w] \ {wnote[w].payment} \in SUBSET Payments
    BY <1>7 DEF Notify
  <2>2. QED BY ZenonT(60), <1>1, <1>7, <2>1, SavesAll DEF Notify
<1>8. ~Fail(w)
  BY <1>1 DEF Fail
<1>9. QED BY <1>2, <1>3, <1>4, <1>5, <1>6, <1>7, <1>8 DEF WorkerStep

(* A row that its own refund revoked is told before the refund is done.       *)
LEMMA ToldStep == TypeInv /\ PathInv /\ ToldInv /\ [Next]_vars => ToldInv'
<1> SUFFICES ASSUME TypeInv, PathInv, ToldInv, [Next]_vars
             PROVE  ToldInv'
    OBVIOUS
<1> USE DEF TypeInv
<1>1. ASSUME NEW p \in Payments, last'[p] # None, last'[p].charge = p,
             last'[p].kind \in RevokeKinds
      PROVE  Known \/ p \in traced'
  <2>1. ASSUME NEW w \in Workers, SaveApplied(w, p)
        PROVE  Known \/ p \in traced'
    <3>1. last'[p] = wevent[w] /\ wpc[w] = "save"
      BY <2>1, Applies, TypeFacts DEF SaveApplied
    <3>2. QED BY <1>1, <3>1, Grows DEF PathInv, PathOf
  <2>2. QED BY <1>1, <2>1, RowSteps, Grows DEF ToldInv
<1>2. ASSUME NEW v \in Workers, wpc'[v] # "idle",
             NEW p \in Payments, last'[p] = wevent'[v], wevent'[v].charge = p, p \notin told'
      PROVE  /\ wpc'[v] = "save" => p \in wtodo'[v]
             /\ wpc'[v] = "notify" => \/ p \in wtodo'[v] \ {wnote'[v].payment}
                                      \/ wnote'[v] = [payment |-> p, id |-> until'[p]]
  <2>1. CASE OtherStep(v)
    <3>1. last[p] = wevent[v] /\ until'[p] = until[p] /\ p \notin told
      BY <1>2, <2>1, Undisturbed, NotByOthers
    <3>2. QED BY <1>2, <2>1, <3>1, Undisturbed DEF ToldInv
  <2>2. ASSUME NEW e \in Events, Take(v, e)
        PROVE  wpc'[v] \notin {"save", "notify"}
    BY <2>2, Takes
  <2>3. CASE WorkerStep(v) /\ wpc'[v] = "notify"
    <3>1. PICK q \in wtodo[v] :
             /\ wnote'[v] = [payment |-> q, id |-> until'[q]]
             /\ \A r \in Payments \ {q} : last'[r] = last[r] /\ (r \in told => r \in told')
      BY <2>3, Announces DEF RowToTell
    <3>2. wpc[v] = "save" /\ wtodo' = wtodo /\ wevent' = wevent
      BY <2>3, Announces DEF RowToTell
    <3>3. CASE p = q
      BY <2>3, <3>1, <3>3
    <3>4. CASE p # q
      <4>1. last[p] = wevent[v] /\ p \notin told
        BY <1>2, <3>1, <3>2, <3>4
      <4>2. p \in wtodo[v]
        BY <1>2, <3>2, <4>1 DEF ToldInv
      <4>3. wnote'[v].payment = q
        BY <3>1
      <4>4. QED BY <2>3, <3>2, <3>4, <4>2, <4>3
    <3>5. QED BY <3>3, <3>4
  <2>4. CASE WorkerStep(v) /\ wpc'[v] = "save"
    <3>1. RestToSave(v) /\ wevent' = wevent /\ last[p] = wevent[v] /\ until' = until
      BY <1>2, <2>4, Saves DEF RestToSave
    <3>2. last[p] # None
      BY <2>4, <3>1, WorkerSteps, TypeFacts, EventFacts DEF OneWorkerMoves, Emitted
    <3>3. CASE Notify(v)
      <4>1. p \notin told /\ wnote[v] # [payment |-> p, id |-> until[p]]
        BY <1>2, <3>3 DEF Notify
      <4>2. p \in wtodo[v] \ {wnote[v].payment}
        BY <1>2, <3>1, <3>3, <4>1 DEF ToldInv, Notify
      <4>3. QED BY <2>4, <3>1, <3>3, <4>2 DEF RestToSave, Notify
    <3>4. CASE ~Notify(v)
      <4>1. p \notin told
        BY <1>2, <3>1, <3>4 DEF RestToSave
      <4>2. p \in wtodo'[v]
        BY <1>2, <3>1, <3>2, <3>4, <4>1, TypeFacts DEF RestToSave, ToldInv
      <4>3. QED BY <2>4, <4>2
    <3>5. QED BY <3>3, <3>4
  <2>5. QED BY <2>1, <2>2, <2>3, <2>4, StepsOf
<1>3. ASSUME NEW p \in Payments, last'[p] \in done', last'[p].charge = p
      PROVE  p \in told'
  <2>1. ASSUME NEW w \in Workers, WorkerStep(w)
        PROVE  p \in told'
    <3>1. OneWorkerMoves(w) /\ wevent[w] \notin done
      BY <2>1, WorkerSteps DEF HeldInv, OneWorkerMoves
    <3>2. CASE last'[p] # wevent[w]
      <4>1. last'[p] = last[p] /\ (p \in told => p \in told')
        <5>1. ASSUME NEW q \in Payments, SaveApplied(w, q)
              PROVE  last'[p] = last[p] /\ (p \in told => p \in told')
          BY <3>2, <5>1, Applies, TypeFacts DEF SaveApplied
        <5>2. QED BY <2>1, <5>1, RowWrites DEF Notify
      <4>2. last[p] \in done
        BY <1>3, <3>1, <3>2, <4>1 DEF OneWorkerMoves
      <4>3. QED BY <1>3, <4>1, <4>2 DEF ToldInv, OwnIsTold
    <3>3. CASE last'[p] = wevent[w]
      <4>1. Finishes(w) /\ last[p] = wevent[w] /\ last[p].charge = p
        BY <1>3, <2>1, <3>3, EndsOf DEF Finishes
      <4>2. last[p] # None /\ p \in Recorded /\ wpc[w] # "idle"
        BY <3>1, <4>1, TypeFacts, EventFacts DEF OneWorkerMoves, Emitted
      <4>3. wpc[w] # "session" \/ wevent[w].charge \in paid
        BY <4>1, <4>2 DEF RowInv, RowIsOf, PathInv, PathOf
      <4>4. wpc[w] = "list" => Known
        BY <4>1, <4>2 DEF ToldInv, PathInv, PathOf, MayRevokeOthers
      <4>5. CASE wpc[w] = "save" /\ ~Notify(w)
        <5>1. p \notin wtodo[w] /\ told' = told
          BY <4>1, <4>5 DEF Finishes
        <5>2. QED BY <4>1, <4>5, <5>1 DEF ToldInv
      <4>6. CASE Notify(w)
        <5>1. wpc[w] = "notify" /\ wtodo[w] \subseteq {wnote[w].payment}
          BY <4>1, <4>6 DEF Finishes, Notify
        <5>2. p \in told \/ wnote[w] = [payment |-> p, id |-> until[p]]
          BY <4>1, <5>1 DEF ToldInv
        <5>3. QED BY <4>6, <5>2 DEF Notify
      <4>7. QED BY <4>1, <4>2, <4>3, <4>4, <4>5, <4>6 DEF Finishes
    <3>4. QED BY <3>2, <3>3
  <2>2. CASE last' = last /\ told' = told /\ done' \subseteq done
    BY <1>3, <2>2 DEF ToldInv, OwnIsTold
  <2>3. QED BY <2>1, <2>2, StepKinds, Emits, Takes DEF vars
<1>4. QED BY <1>1, <1>2, <1>3 DEF ToldInv, OwnIsTold

(* What an event has reached no step takes back.                              *)
LEMMA ReachedStays ==
    ASSUME TypeInv, PathInv, [Next]_vars,
           NEW p \in Payments, NEW e \in Emitted, Reached(p, e)
    PROVE  Reached(p, e)'
<1> USE DEF TypeInv, Reached
<1>1. last[p] \in Emitted /\ created[last[p]] \in Nat /\ created[e] \in Nat
  BY TypeFacts, BoundsAssumption DEF RowInv, RowIsOf, Emitted
<1>2. ASSUME NEW w \in Workers, SaveApplied(w, p)
      PROVE  Reached(p, e)'
  <2>1. last'[p] = wevent[w] /\ wevent[w] \in Emitted /\ wevent[w] # None
        /\ created[last[p]] <= created[wevent[w]] /\ created[wevent[w]] \in Nat
    BY <1>2, Applies, TypeFacts, BoundsAssumption DEF Emitted
  <2>2. QED BY <1>1, <2>1, Grows
<1>3. QED BY <1>1, <1>2, RowSteps, Grows

(* An event that was ignored came after the row had reached it.               *)
LEMMA IgnoredReached ==
    ASSUME TypeInv, NEW p \in Payments, NEW e \in Emitted, AlreadyApplied(p, e)
    PROVE  Reached(p, e)
<1>1. last[p] # None /\ created[last[p]] \in Nat /\ created[e] \in Nat
  BY TypeFacts, BoundsAssumption DEF TypeInv, AlreadyApplied, Emitted
<1>2. QED BY <1>1 DEF AlreadyApplied, Reached

(* A refund that is done has reached its row, or a later event has, and rows  *)
(* never go back.                                                             *)
LEMMA RefundStep == TypeInv /\ PathInv /\ RefundInv /\ [Next]_vars => RefundInv'
<1> SUFFICES ASSUME TypeInv, PathInv, RefundInv, [Next]_vars
             PROVE  RefundInv'
    OBVIOUS
<1> USE DEF TypeInv
<1>1. ASSUME NEW p \in Payments, NEW e \in done', e.charge = p, e.kind \in RevokeKinds,
             [event |-> e, try |-> tries'[e]] \notin missed'
      PROVE  Reached(p, e)'
  <2>1. CASE e \in done /\ tries'[e] = tries[e]
    <3>1. e \in Emitted /\ Reached(p, e)
      BY <1>1, <2>1, Grows DEF RefundInv, TypeOK
    <3>2. QED BY <3>1, ReachedStays
  <2>2. ASSUME NEW w \in Workers, WorkerStep(w), e \notin done
        PROVE  Reached(p, e)'
    <3>1. OneWorkerMoves(w) /\ e = wevent[w] /\ e \in Emitted /\ Finishes(w)
      <4>1. OneWorkerMoves(w) /\ e = wevent[w]
        BY <2>2, WorkerSteps DEF OneWorkerMoves
      <4>2. QED BY <2>2, <4>1, EndsOf, TypeFacts DEF OneWorkerMoves
    <3>2. Now(w) \notin missed' /\ Now(w) \notin missed
      BY <1>1, <3>1, Grows DEF OneWorkerMoves, Now
    <3>3. e.charge \notin Invoices /\ e.kind \notin GrantKinds
      BY <1>1, <3>1, EventFacts, ChargesAssumption DEF Emitted
    <3>4. wpc[w] # "session" /\ ~(wpc[w] = "list" /\ ~Notify(w))
      <4>1. wpc[w] # "session"
        BY <3>1, <3>3 DEF PathInv, PathOf
      <4>2. QED BY <3>1, <3>2, <3>3, <4>1 DEF Finishes, Notify
    <3>5. Reached(p, e)
      <4>1. CASE Notify(w)
        <5>1. wpc[w] = "notify" /\ wtodo[w] \subseteq {wnote[w].payment}
          BY <3>1, <4>1 DEF Finishes, Notify
        <5>2. QED BY <1>1, <3>1, <3>2, <5>1 DEF RefundInv
      <4>2. CASE ~Notify(w)
        <5>1. PICK q \in wtodo[w] : wpc[w] = "save" /\ wtodo[w] = {q}
                                    /\ AlreadyApplied(q, wevent[w])
          BY <3>1, <3>4, <4>2 DEF Finishes
        <5>2. p = q \/ Reached(p, e)
          BY <1>1, <3>1, <3>2, <5>1 DEF RefundInv
        <5>3. QED BY <3>1, <5>1, <5>2, IgnoredReached
      <4>3. QED BY <4>1, <4>2
    <3>6. QED BY <3>1, <3>5, ReachedStays
  <2>3. ASSUME NEW w \in Workers, NEW d \in Events, Take(w, d)
        PROVE  e \in done /\ tries'[e] = tries[e]
    BY <1>1, <2>3, Takes DEF TypeOK, Emitted
  <2>4. ASSUME NEW w \in Workers, WorkerStep(w)
        PROVE  tries' = tries
    BY <2>4, WorkerSteps DEF OneWorkerMoves
  <2>5. QED BY <2>1, <2>2, <2>3, <2>4, StepKinds, Emits DEF vars
<1>2. ASSUME NEW v \in Workers, NEW p \in Payments, wpc'[v] \in {"save", "notify"},
             wevent'[v].charge = p, wevent'[v].kind \in RevokeKinds, Now(v)' \notin missed'
      PROVE  \/ Reached(p, wevent[v])' 
             \/ p \in wtodo'[v] /\ (wpc'[v] = "notify" => p # wnote'[v].payment)
  <2>1. CASE OtherStep(v)
    <3>1. /\ wpc'[v] = wpc[v] /\ wevent'[v] = wevent[v] /\ wtodo'[v] = wtodo[v]
          /\ wnote'[v] = wnote[v] /\ Now(v)' = Now(v) /\ Now(v) \notin missed
          /\ wevent[v] \in Emitted
      BY <1>2, <2>1, Undisturbed, Grows, TypeFacts
    <3>2. Reached(p, wevent[v]) => Reached(p, wevent[v])'
      BY <3>1, ReachedStays DEF Reached
    <3>3. QED BY <1>2, <3>1, <3>2 DEF RefundInv
  <2>2. ASSUME NEW e \in Events, Take(v, e)
        PROVE  FALSE
    BY <1>2, <2>2, Takes
  <2>3. CASE WorkerStep(v)
    <3>1. OneWorkerMoves(v) /\ wevent' = wevent /\ wevent[v] \in Emitted
      BY <1>2, <2>3, WorkerSteps, TypeFacts DEF OneWorkerMoves
    <3>2. Now(v)' = Now(v) /\ Now(v) \notin missed /\ Now(v) \notin missed'
      BY <1>2, <3>1, Grows DEF OneWorkerMoves, Now
    <3>3. Reached(p, wevent[v]) => Reached(p, wevent[v])'
      BY <3>1, ReachedStays DEF Reached
    <3>4. CASE wpc'[v] = "notify"
      <4>1. PICK q \in wtodo[v] : /\ last'[q] = wevent[v]
                                  /\ wnote'[v] = [payment |-> q, id |-> until'[q]]
        BY <2>3, <3>4, Announces DEF RowToTell
      <4>2. wpc[v] = "save" /\ wtodo' = wtodo
        BY <2>3, <3>4, Announces DEF RowToTell
      <4>3. CASE p = q
        <5>1. wevent[v] # None /\ created'[wevent[v]] \in Nat
          BY <3>1, Grows, TypeFacts, EventFacts, BoundsAssumption DEF Emitted
        <5>2. QED BY <3>1, <4>1, <4>3, <5>1 DEF Reached
      <4>4. CASE p # q
        <5>1. Reached(p, wevent[v]) \/ p \in wtodo[v]
          BY <1>2, <3>1, <3>2, <4>2 DEF RefundInv
        <5>2. wnote'[v].payment = q
          BY <4>1
        <5>3. QED BY <3>1, <3>3, <4>2, <4>4, <5>1, <5>2
      <4>5. QED BY <4>3, <4>4
    <3>5. CASE wpc'[v] = "save"
      <4>1. RestToSave(v)
        BY <2>3, <3>5, Saves
      <4>2. wevent[v].charge \notin Invoices /\ wpc[v] # "session"
        BY <1>2, <3>1, EventFacts, ChargesAssumption DEF PathInv, PathOf, Emitted
      <4>3. CASE Notify(v)
        <5>1. wpc[v] = "notify" /\ wtodo'[v] = wtodo[v] \ {wnote[v].payment}
          BY <4>1, <4>3 DEF RestToSave, Notify
        <5>2. Reached(p, wevent[v]) \/ (p \in wtodo[v] /\ p # wnote[v].payment)
          BY <1>2, <3>1, <3>2, <5>1 DEF RefundInv
        <5>3. QED BY <3>1, <3>3, <3>5, <5>1, <5>2
      <4>4. CASE wpc[v] = "save" /\ ~Notify(v)
        <5>1. PICK q \in wtodo[v] : /\ wtodo'[v] = wtodo[v] \ {q}
                                    /\ AlreadyApplied(q, wevent[v])
          BY <4>1, <4>4 DEF RestToSave
        <5>2. Reached(p, wevent[v]) \/ p \in wtodo[v]
          BY <1>2, <3>1, <3>2, <4>4 DEF RefundInv
        <5>3. p = q => Reached(p, wevent[v])
          BY <3>1, <5>1, IgnoredReached
        <5>4. QED BY <3>1, <3>3, <3>5, <5>1, <5>2, <5>3
      <4>5. CASE wpc[v] \in {"find", "list"} /\ ~Notify(v)
        <5>1. p \in wtodo'[v]
          BY <1>2, <3>1, <3>2, <4>1, <4>2, <4>5 DEF RestToSave
        <5>2. QED BY <3>5, <5>1
      <4>6. QED BY <4>1, <4>2, <4>3, <4>4, <4>5 DEF RestToSave
    <3>6. QED BY <1>2, <3>4, <3>5
  <2>4. QED BY <2>1, <2>2, <2>3, StepsOf
<1>3. QED BY <1>1, <1>2 DEF RefundInv, Reached

-----------------------------------------------------------------------------
(* The invariant, and what follows from it.                                  *)

(* Nothing has happened yet; and a step keeps each part, given the types.     *)
LEMMA Inductive == /\ Init => IInv
                   /\ IInv /\ [Next]_vars => IInv'
<1>1. ASSUME Init
      PROVE  IInv
  <2>1. None \notin Events /\ Emitted = {} /\ Recorded = {}
    BY <1>1, NoneAssumption DEF Init, Emitted, Recorded
  <2>2. TypeOK
    BY <1>1, <2>1, BoundsAssumption DEF Init, TypeOK
  <2>3. HeldInv /\ RowInv /\ PathInv /\ BystandersKeep
    BY <1>1, <2>1 DEF Init, HeldInv, RowInv, PathInv, PathOf, BystandersKeep
  <2>4. ToldInv /\ RefundInv
    BY <1>1, <2>1 DEF Init, ToldInv, OwnIsTold, RefundInv
  <2>5. QED BY <2>2, <2>3, <2>4 DEF IInv, TypeInv
<1>2. ASSUME IInv, [Next]_vars
      PROVE  IInv'
  BY <1>2, TypeStep, HeldStep, RowStep, PathStep, BystandersStep, ToldStep, RefundStep
  DEF IInv, TypeInv
<1>3. QED BY <1>1, <1>2

(* A refund that found its payment is not undone by grants of earlier         *)
(* seconds: none of them can have set the row since.                          *)
LEMMA ReachedIsRevoked == RowInv /\ TypeOK /\ RefundInv => RefundSticks
<1> SUFFICES ASSUME RowInv, TypeOK, RefundInv, NEW p \in Payments, NEW e \in done,
                    e.charge = p, e.kind \in RevokeKinds,
                    [event |-> e, try |-> tries[e]] \notin missed,
                    \A g \in Grants(p) \cap Emitted : created[g] < created[e]
             PROVE  active[p] = "revoked"
    BY DEF RefundSticks
<1>1. last[p] # None /\ created[last[p]] >= created[e]
  BY DEF RefundInv, Reached
<1>2. RowIsOf(p) /\ last[p] \in Events
  BY <1>1, TypeFacts DEF RowInv
<1>3. created[last[p]] \in Nat /\ created[e] \in Nat
  BY <1>2, TypeFacts, BoundsAssumption DEF TypeOK, Emitted
<1>4. CASE last[p].kind \in GrantKinds
  <2>1. last[p] = [charge |-> p, kind |-> last[p].kind]
    BY <1>2, <1>4 DEF Events, RowIsOf
  <2>2. last[p] \in Grants(p) \cap Emitted
    BY <1>2, <1>4, <2>1 DEF Grants, RowIsOf
  <2>3. QED BY <1>1, <1>3, <2>2
<1>5. CASE last[p].kind \notin GrantKinds
  BY <1>2, <1>5 DEF RowIsOf
<1>6. QED BY <1>4, <1>5

(* So it always holds.                                                        *)
LEMMA Invariance == Spec => []IInv
BY Inductive, PTL DEF Spec

(* The rows, the workers and the history keep their types.                    *)
THEOREM TypeCorrect == Spec => []TypeOK
<1>1. IInv => TypeOK
  BY DEF IInv, TypeInv
<1>2. QED BY <1>1, Invariance, PTL

(* A refund or dispute that found its payment, once processed, leaves it      *)
(* revoked whatever is processed late or again (saveRecord).                  *)
THEOREM RefundCorrect == Spec => []RefundSticks
<1>1. IInv => RefundSticks
  BY ReachedIsRevoked DEF IInv, TypeInv
<1>2. QED BY <1>1, Invariance, PTL

(* No payment is revoked by another charge that had found its own             *)
(* (revokeChargeEntitlement).                                                 *)
THEOREM BystandersCorrect == Spec => []BystandersKeep
<1>1. IInv => BystandersKeep
  BY DEF IInv
<1>2. QED BY <1>1, Invariance, PTL

(* An own event that counts as processed has been announced (saveRecord).     *)
THEOREM OwnToldCorrect == Spec => []OwnIsTold
<1>1. IInv => OwnIsTold
  BY DEF IInv, ToldInv
<1>2. QED BY <1>1, Invariance, PTL
=============================================================================

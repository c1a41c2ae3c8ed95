------------------------------ MODULE EventInbox ------------------------------
(***************************************************************************)
(* What the durable webhook inbox of src/src/stripe-payments promises,     *)
(* without rows, jobs, claims or retries: an event is taken into custody   *)
(* before Stripe is told so, never leaves it but by being fulfilled or     *)
(* given up, and in the end is one or the other.  StripePaymentEvents      *)
(* implements this specification.                                          *)
(***************************************************************************)
CONSTANT Events   \* Stripe event ids

VARIABLES
    custody,   \* what has become of each event
    acked      \* events Stripe was given a 2xx for

vars == <<custody, acked>>

Custody == {"unknown", "pending", "givenUp", "fulfilled"}

Init ==
    /\ custody = [e \in Events |-> "unknown"]
    /\ acked = [e \in Events |-> FALSE]

\* Work for e is queued.
Accept(e) ==
    /\ custody[e] = "unknown"
    /\ custody' = [custody EXCEPT ![e] = "pending"]
    /\ UNCHANGED acked

\* Stripe is told that e is taken care of and will not send it again.
Acknowledge(e) ==
    /\ custody[e] # "unknown"
    /\ acked' = [acked EXCEPT ![e] = TRUE]
    /\ UNCHANGED custody

\* The work is done; one that was given up may be done by a replay, or by a
\* worker that was only slow.
Fulfil(e) ==
    /\ custody[e] \in {"pending", "givenUp"}
    /\ custody' = [custody EXCEPT ![e] = "fulfilled"]
    /\ UNCHANGED acked

\* The attempts are spent; the failed job is the operator's to look at.
GiveUp(e) ==
    /\ custody[e] = "pending"
    /\ custody' = [custody EXCEPT ![e] = "givenUp"]
    /\ UNCHANGED acked

Settle(e) == custody[e] = "pending" /\ (Fulfil(e) \/ GiveUp(e))

Next == \E e \in Events : Accept(e) \/ Acknowledge(e) \/ Fulfil(e) \/ GiveUp(e)

Spec == Init /\ [][Next]_vars

\* Pending work is settled in the end.
FairSpec == Spec /\ \A e \in Events : WF_vars(Settle(e))
=============================================================================

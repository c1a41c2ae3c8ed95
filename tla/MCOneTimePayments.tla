-------------------------- MODULE MCOneTimePayments --------------------------
(* Small instances of a customer's one-time payments.                       *)
EXTENDS OneTimePayments, TLC

Symmetry == Permutations(Workers) \cup Permutations(Payments)
=============================================================================

------------------------- MODULE MCCheckoutAttempts -------------------------
(* Small instances of the checkout attempts of one idempotency key.         *)
EXTENDS CheckoutAttempts, TLC

Symmetry == Permutations(Requests) \cup Permutations(Orders)
=============================================================================

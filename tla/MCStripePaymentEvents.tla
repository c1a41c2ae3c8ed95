----------------------- MODULE MCStripePaymentEvents -----------------------
(* Small instances of the webhook inbox.                                    *)
EXTENDS StripePaymentEvents, TLC

\* Handlers and workers are interchangeable.
Symmetry == Permutations(Handlers) \cup Permutations(Workers)
=============================================================================

--------------------------- MODULE MCLegacyPayments ---------------------------
(* Small instances of a purchase through the deprecated Stripe client.      *)
EXTENDS LegacyPayments, TLC

\* Workers are interchangeable.
Symmetry == Permutations(Workers)
=============================================================================

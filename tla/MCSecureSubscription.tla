------------------------ MODULE MCSecureSubscription ------------------------
(* Small instances of the entitlement store.                                *)
EXTENDS SecureSubscription, TLC

Symmetry == Permutations(Workers)
=============================================================================

----------------------------- MODULE MCAccounts -----------------------------
(* Small instances of login and invitations.                                *)
EXTENDS Accounts, TLC

\* Requests and identities are interchangeable, and the two spellings of an
\* e-mail.
Symmetry == Permutations(Requests) \cup Permutations(Identities)
                \cup Permutations(UNION Spellings)
=============================================================================

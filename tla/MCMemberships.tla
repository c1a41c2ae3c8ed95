---------------------------- MODULE MCMemberships ----------------------------
(* Small instances of an organisation and its members.                      *)
EXTENDS Memberships, TLC

\* Requests are interchangeable, and so are the users who are not the founder.
Symmetry == Permutations(Requests) \cup Permutations(Users \ {Founder})
=============================================================================

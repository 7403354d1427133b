------------------------------ MODULE MCMembership ------------------------------
(* Instances of Membership for TLC. *)
EXTENDS Membership, TLC

CONSTANTS u1, u2, u3, m1, m2, n1, i1, i2, r1, r2

Users == {u1, u2, u3}
Emails == {m1, m2}
OneName == {n1}
Identities == {i1, i2}
Requests == {r1, r2}

Symmetry == Permutations({u2, u3}) \cup Permutations(Identities) \cup Permutations(Requests)
===============================================================================

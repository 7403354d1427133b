------------------------------- MODULE MCComments -------------------------------
(* Instances of Comments for TLC. *)
EXTENDS Comments, TLC

CONSTANTS c1, c2, p1, p2, u1, r1, r2

Comments2 == {c1, c2}
Posts2 == {p1, p2}
Users1 == {u1}
Requests2 == {r1, r2}

Symmetry == Permutations(Comments2) \cup Permutations(Posts2) \cup Permutations(Requests2)
===============================================================================

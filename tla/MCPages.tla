-------------------------------- MODULE MCPages --------------------------------
(* Instances of Pages for TLC. *)
EXTENDS Pages, TLC

CONSTANTS p1, p2, p3, r1, r2

Pages3 == {p1, p2, p3}
Requests2 == {r1, r2}

Symmetry == Permutations(Pages3) \cup Permutations(Requests2)
===============================================================================

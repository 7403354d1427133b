-------------------------------- MODULE MCCaches --------------------------------
(* Instances of Caches for TLC. *)
EXTENDS Caches, TLC

CONSTANTS r1, r2, e1, e2

Readers2 == {r1, r2}
Editors2 == {e1, e2}

Symmetry == Permutations(Readers2) \cup Permutations(Editors2)
===============================================================================

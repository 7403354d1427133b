------------------------------ MODULE MCTaxonomy ------------------------------
(* Instances of Taxonomy for TLC. *)
EXTENDS Taxonomy, TLC

CONSTANTS p1, p2, c1, c2, t1, r1, r2, r3

Posts2 == {p1, p2}
Categories2 == {c1, c2}
Tags1 == {t1}
Requests3 == {r1, r2, r3}

Symmetry == Permutations(Posts2) \cup Permutations(Categories2) \cup Permutations(Requests3)
===============================================================================

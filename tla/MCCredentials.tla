----------------------------- MODULE MCCredentials -----------------------------
(* Instances of Credentials for TLC. *)
EXTENDS Credentials, TLC

CONSTANTS u1, t1, t2, r1, r2, s1

OneUser == {u1}
TwoTokens == {t1, t2}
TwoRequests == {r1, r2}
OneSession == {s1}

Symmetry == Permutations(TwoTokens) \cup Permutations(TwoRequests)
===============================================================================

-------------------------------- MODULE MCPosts --------------------------------
(* Instances of Posts for TLC. *)
EXTENDS Posts, TLC

CONSTANTS p1, p2, e1, e2, w1, w2

OnePost == {p1}
TwoPosts == {p1, p2}
OneRequest == {e1}
TwoRequests == {e1, e2}
OneWorker == {w1}
TwoWorkers == {w1, w2}

Symmetry == Permutations(TwoRequests) \cup Permutations(TwoWorkers)
===============================================================================

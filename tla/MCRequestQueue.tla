--------------------------- MODULE MCRequestQueue ---------------------------
(* Instances of RequestQueue for TLC. *)
EXTENDS RequestQueue

CONSTANTS r1, r2, w1, w2

TwoRequests == {r1, r2}
OneWorker == {w1}
TwoWorkers == {w1, w2}

\* Two values the INSERT accepts, one on each side of the sign test, and the
\* first one it refuses.
LowNormal == {-1, 0}
AllPriorities == {-1, 0, 1}
LowNormalTooHigh == {-1, 0, 2}

Symmetry == Permutations(TwoRequests) \cup Permutations(TwoWorkers)
=============================================================================

---------------------------- MODULE MCApiTracker ----------------------------
(* Instances of ApiTracker, with the queries of the dashboard, for TLC. *)
EXTENDS UsageQueries
CONSTANTS e1, e2, c1, c2
TwoEndpoints == {e1, e2}
TwoRecorders == {c1, c2}
Slow == [endpoint |-> e1, status |-> 200, time |-> 7, limited |-> FALSE]
Limited == [endpoint |-> e2, status |-> 429, time |-> 2, limited |-> TRUE]
Unanswered == [endpoint |-> e2, status |-> NoStatus, time |-> 3, limited |-> FALSE]
ThreeRequests == {Slow, Limited, Unanswered}
Symmetry == Permutations(TwoRecorders)
=============================================================================

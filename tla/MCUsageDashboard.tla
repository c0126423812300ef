-------------------------- MODULE MCUsageDashboard --------------------------
(* Instances of UsageDashboard for TLC. *)
EXTENDS UsageDashboard
CONSTANTS e1, e2, c1, r1, r2
OneRecorder == {c1}
TwoReaders == {r1, r2}
TwoEndpoints == {e1, e2}
Fine == [endpoint |-> e1, status |-> 200, time |-> 2, limited |-> FALSE]
OneRequest == {Fine}
TwoSections == [overview |-> <<"totals">>, usage_trends |-> <<"hourly">>]
Symmetry == Permutations(TwoReaders)
=============================================================================

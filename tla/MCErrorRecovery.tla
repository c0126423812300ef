--------------------------- MODULE MCErrorRecovery ---------------------------
(* Instances of ErrorRecovery for TLC. *)
EXTENDS ErrorRecovery

\* No wait at all, one below every cap, one above some of them and one above all.
SampleHints == {0, 3 * Second, 40 * Second, 400 * Second}
=============================================================================

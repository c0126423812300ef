--------------------------- MODULE MCRetryExecutor ---------------------------
(* Instances of RetryExecutor for TLC. *)
EXTENDS RetryExecutor

CONSTANTS c1, c2

TwoCallers == {c1, c2}
=============================================================================

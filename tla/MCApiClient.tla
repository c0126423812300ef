----------------------------- MODULE MCApiClient -----------------------------
(* Instances of ApiClient for TLC. *)
EXTENDS ApiClient

CONSTANTS c1, c2

TwoCallers == {c1, c2}
=============================================================================

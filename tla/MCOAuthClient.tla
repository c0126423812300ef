---------------------------- MODULE MCOAuthClient ----------------------------
(* Instances of OAuthClient for TLC. *)
EXTENDS OAuthClient

TwoFlows == 1..2
ShortAndLong == {1, 3}
=============================================================================

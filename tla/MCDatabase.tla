----------------------------- MODULE MCDatabase -----------------------------
(* Instances of Database for TLC. *)
EXTENDS Database
CONSTANTS c1, c2, p1, p2, w1, openai, rust, id1, sec1, junk
TwoCallers == {c1, c2}
TwoPosts == {p1, p2}
OneWord == {w1}
OneProvider == {openai}
OneSubreddit == {rust}
Both == [id |-> id1, secret |-> sec1, polling |-> 30, keys |-> <<>>]
SecretAndKey == [id |-> None, secret |-> id1, polling |-> 15, keys |-> (openai :> id1)]
TwoConfigs == {Both, SecretAndKey}
OneSetting == {[key |-> PollingKey, value |-> junk]}
Intervals == {15, 30}
Symmetry == Permutations(TwoCallers) \cup Permutations(TwoPosts)
=============================================================================

----------------------------- MODULE PermitPool -----------------------------
(***************************************************************************)
(* What the rate limiter promises about requests in flight: a task that    *)
(* has been given a permit has it until it drops it, and there are never   *)
(* more than Size of them.  When permits are given is left open.           *)
(***************************************************************************)
EXTENDS Naturals, FiniteSets

CONSTANTS Tasks, Size

VARIABLE holders  \* tasks between being given a permit and dropping it

Init == holders = {}

Grant(t) ==
  /\ t \notin holders
  /\ Cardinality(holders) < Size
  /\ holders' = holders \cup {t}

Release(t) ==
  /\ t \in holders
  /\ holders' = holders \ {t}

Next == \E t \in Tasks : Grant(t) \/ Release(t)

Spec == Init /\ [][Next]_holders

=============================================================================

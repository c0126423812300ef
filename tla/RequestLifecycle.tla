-------------------------- MODULE RequestLifecycle --------------------------
(***************************************************************************)
(* What the request queue promises for a request, without its heap, its    *)
(* maps, its table and its tasks: it waits, it runs at most MaxRuns times  *)
(* and never twice at once, and what is closed stays closed.               *)
(***************************************************************************)
EXTENDS Naturals

CONSTANTS Requests, MaxRuns

VARIABLES
  phase,  \* "new", "waiting", "running" or "closed"
  runs    \* how often each request has been started

Init ==
  /\ phase = [r \in Requests |-> "new"]
  /\ runs = [r \in Requests |-> 0]

Move(r, from, to) ==
  /\ phase[r] = from
  /\ phase' = [phase EXCEPT ![r] = to]

Submit(r) == Move(r, "new", "waiting") /\ UNCHANGED runs

Begin(r) ==
  /\ Move(r, "waiting", "running")
  /\ runs[r] < MaxRuns
  /\ runs' = [runs EXCEPT ![r] = @ + 1]

Again(r) == Move(r, "running", "waiting") /\ runs[r] < MaxRuns /\ UNCHANGED runs

\* Refused, completed, failed, cancelled or abandoned; a crash closes many.
Close(S) ==
  /\ phase' = [r \in Requests |-> IF r \in S THEN "closed" ELSE phase[r]]
  /\ UNCHANGED runs

Next ==
  \/ \E r \in Requests : Submit(r) \/ Begin(r) \/ Again(r)
  \/ \E S \in SUBSET Requests : Close(S)

Spec == Init /\ [][Next]_<<phase, runs>>

=============================================================================

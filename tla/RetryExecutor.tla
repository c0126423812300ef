---------------------------- MODULE RetryExecutor ----------------------------
(***************************************************************************)
(* RetryExecutor and its CircuitBreaker (reddit-client/src/retry.rs).      *)
(* Any number of callers run execute on one executor.  Each asks the       *)
(* breaker once, then tries its operation again and again, and tells the   *)
(* breaker and the metrics how it ended.  A step is one block under a      *)
(* mutex, or the end of one `await`: of the operation or of a sleep.       *)
(*                                                                         *)
(* Time is relative: what the breaker knows is how long ago the last       *)
(* failure was recorded, and beyond the recovery timeout that no longer    *)
(* matters.  How long a sleep lasts is left open.                          *)
(***************************************************************************)
EXTENDS Integers, FiniteSets

CONSTANTS
  Callers,            \* tasks that call execute, each again and again
  MaxAttempts,        \* max_attempts
  FailureThreshold,   \* failure_threshold
  RecoveryTimeout,    \* recovery_timeout_s, in ticks
  MaxCalls            \* bound: calls of execute

ASSUME ConfigAssumption ==
  /\ MaxAttempts \in Nat
  /\ FailureThreshold \in Nat \ {0}
  /\ RecoveryTimeout \in Nat
  /\ MaxCalls \in Nat

VARIABLES
  breaker,   \* state, failure_count and the age of last_failure_time
  metrics,   \* RetryMetrics
  caller,    \* where each caller is, and the attempt it is at
  calls,     \* calls of execute so far
  streak     \* history: failures recorded since a success was

vars == <<breaker, metrics, caller, calls, streak>>

Never == -1

Stages ==
  {"idle", "trying", "sleeping", "succeeded", "tallying", "exhausted", "failed"}

NoMetrics ==
  [total_retries |-> 0, successful_retries |-> 0, failed_retries |-> 0,
   circuit_breaker_trips |-> 0]

\* What get_retry_strategy tells apart: the delay of RetryWithDelay is a sleep
\* like any other.
Transient == {"rate_limit", "server", "timeout", "invalid_response", "unavailable", "connect"}
Permanent == {"authentication", "invalid_token", "forbidden", "not_found", "other"}

-----------------------------------------------------------------------------
(* Faulty variants of operators below.  Nothing uses them: each is a bug that *)
(* would be easy to write, and each makes a run report a violation.           *)

OpensTooLate(b) == b.failures >= FailureThreshold

HalfOpenStays(b) ==
  [state    |-> IF b.failures + 1 >= FailureThreshold /\ b.state = "closed" THEN "open" ELSE b.state,
   failures |-> b.failures + 1,
   last     |-> 0]

ForgetsTime(b) ==
  [state |-> IF b.state = "halfopen" THEN "closed" ELSE b.state, failures |-> 0, last |-> Never]

KeepsCount(b) ==
  IF b.state = "halfopen" THEN [b EXCEPT !.state = "closed"] ELSE b

SameAttempt(c) == caller[c].attempt

CountsAttempts(c) ==
  [metrics EXCEPT !.total_retries = @ + caller[c].attempt + 1, !.successful_retries = @ + 1]

-----------------------------------------------------------------------------
(* The breaker *)

At(c, stage) == caller[c].stage = stage
Goto(c, stage) == caller' = [caller EXCEPT ![c].stage = stage]
Leave(c) == caller' = [caller EXCEPT ![c] = [stage |-> "idle", attempt |-> 0]]

Recovered == breaker.last # Never /\ breaker.last >= RecoveryTimeout

\* What allow_request answers; when it does for an open breaker, that becomes
\* half-open.
Allows == breaker.state # "open" \/ Recovered

ReachesThreshold(b) == b.failures + 1 >= FailureThreshold

AfterAllow(b) == IF b.state = "open" THEN [b EXCEPT !.state = "halfopen"] ELSE b

\* record_success
AfterSuccess(b) ==
  IF b.state = "halfopen"
  THEN [state |-> "closed", failures |-> 0, last |-> Never]
  ELSE [b EXCEPT !.failures = 0]

\* record_failure
AfterFailure(b) ==
  [state    |-> IF b.state = "halfopen" \/ ReachesThreshold(b) THEN "open" ELSE b.state,
   failures |-> b.failures + 1,
   last     |-> 0]

-----------------------------------------------------------------------------
Init ==
  /\ breaker = [state |-> "closed", failures |-> 0, last |-> Never]
  /\ metrics = NoMetrics
  /\ caller = [c \in Callers |-> [stage |-> "idle", attempt |-> 0]]
  /\ calls = 0
  /\ streak = 0

\* execute asks the breaker.  With max_attempts 0 the loop has no round.
Admit(c) ==
  /\ At(c, "idle") /\ Allows
  /\ calls < MaxCalls /\ calls' = calls + 1
  /\ breaker' = AfterAllow(breaker)
  /\ Goto(c, IF MaxAttempts > 0 THEN "trying" ELSE "exhausted")
  /\ UNCHANGED <<metrics, streak>>

\* A blocked call is counted while the breaker is still locked.
Block(c) ==
  /\ At(c, "idle") /\ ~Allows
  /\ calls < MaxCalls /\ calls' = calls + 1
  /\ metrics' = [metrics EXCEPT !.circuit_breaker_trips = @ + 1]
  /\ UNCHANGED <<breaker, caller, streak>>

AttemptsLeft(c) == caller[c].attempt + 1 < MaxAttempts

\* The operation answers.
Succeed(c) ==
  /\ At(c, "trying")
  /\ Goto(c, "succeeded")
  /\ UNCHANGED <<breaker, metrics, calls, streak>>

Fail(c, error) ==
  /\ At(c, "trying")
  /\ Goto(c, IF error \in Transient /\ AttemptsLeft(c) THEN "sleeping" ELSE "exhausted")
  /\ UNCHANGED <<breaker, metrics, calls, streak>>

Answer(c) == Succeed(c) \/ \E error \in Transient \cup Permanent : Fail(c, error)

NextAttempt(c) == caller[c].attempt + 1

\* The sleep ends and the loop goes round; the breaker is not asked again.
Wake(c) ==
  /\ At(c, "sleeping")
  /\ caller' = [caller EXCEPT ![c] = [stage |-> "trying", attempt |-> NextAttempt(c)]]
  /\ UNCHANGED <<breaker, metrics, calls, streak>>

RetryWorked(c) == caller[c].attempt > 0

RecordSuccess(c) ==
  /\ At(c, "succeeded")
  /\ breaker' = AfterSuccess(breaker)
  /\ streak' = 0
  /\ IF RetryWorked(c) THEN Goto(c, "tallying") ELSE Leave(c)
  /\ UNCHANGED <<metrics, calls>>

WithRetries(c) ==
  [metrics EXCEPT !.total_retries = @ + caller[c].attempt, !.successful_retries = @ + 1]

TallySuccess(c) ==
  /\ At(c, "tallying")
  /\ metrics' = WithRetries(c)
  /\ Leave(c)
  /\ UNCHANGED <<breaker, calls, streak>>

RecordFailure(c) ==
  /\ At(c, "exhausted")
  /\ breaker' = AfterFailure(breaker)
  /\ streak' = streak + 1
  /\ Goto(c, "failed")
  /\ UNCHANGED <<metrics, calls>>

TallyFailure(c) ==
  /\ At(c, "failed")
  /\ metrics' = [metrics EXCEPT !.failed_retries = @ + 1]
  /\ Leave(c)
  /\ UNCHANGED <<breaker, calls, streak>>

\* reset_metrics, at any time; the breaker keeps its state.
ResetMetrics ==
  /\ metrics' = NoMetrics
  /\ UNCHANGED <<breaker, caller, calls, streak>>

Tick ==
  /\ breaker.last \in 0..RecoveryTimeout - 1
  /\ breaker' = [breaker EXCEPT !.last = @ + 1]
  /\ UNCHANGED <<metrics, caller, calls, streak>>

CallStep(c) ==
  \/ Answer(c) \/ Wake(c) \/ RecordSuccess(c) \/ TallySuccess(c)
  \/ RecordFailure(c) \/ TallyFailure(c)

Next ==
  \/ \E c \in Callers : Admit(c) \/ Block(c) \/ CallStep(c)
  \/ ResetMetrics
  \/ Tick

Spec == Init /\ [][Next]_vars

\* Operations answer (the HTTP client has a timeout, api.rs 114), sleeps end,
\* tasks are polled, time passes.  Nobody has to call.
Fairness == WF_vars(Tick) /\ \A c \in Callers : WF_vars(CallStep(c))

FairSpec == Spec /\ Fairness
-----------------------------------------------------------------------------
(* Properties *)

Breaker == [state : {"closed", "open", "halfopen"}, failures : Nat,
            last : {Never} \cup 0..RecoveryTimeout]

Metrics == [total_retries : Nat, successful_retries : Nat, failed_retries : Nat,
            circuit_breaker_trips : Nat]

\* A call's locals: the attempt is a round of the loop, a sleep has a round
\* after it, and what is tallied was a retry.
Call ==
  {l \in [stage : Stages, attempt : Nat] :
     /\ l.attempt = 0 \/ l.attempt < MaxAttempts
     /\ l.stage = "sleeping" => l.attempt + 1 < MaxAttempts
     /\ l.stage = "tallying" => l.attempt > 0}

\* Every variable has its type.
TypeOK ==
  /\ breaker \in Breaker
  /\ metrics \in Metrics
  /\ caller \in [Callers -> Call]
  /\ calls \in 0..MaxCalls
  /\ streak \in Nat

\* The breaker's three fields agree although calls admitted long ago report to
\* it in any state (104-143): a closed one is below its threshold, one that is
\* not closed knows when the last failure was (or it would block for ever,
\* 96-98), and a half-open one has waited for the whole recovery timeout.
BreakerConsistent ==
  /\ breaker.state = "closed" => breaker.failures < FailureThreshold
  /\ breaker.state # "closed" => breaker.last # Never
  /\ breaker.state = "halfopen" => breaker.last >= RecoveryTimeout

Undecided == {"trying", "sleeping", "succeeded", "exhausted"}

\* Half-open lets every call through (100); it is not a state to stay in: there
\* is always a call under way whose end will close or open the breaker.
HalfOpenHasProbe ==
  breaker.state = "halfopen" => \E c \in Callers : caller[c].stage \in Undecided

\* "Circuit breaker after 5 consecutive failures" (34): the breaker leaves
\* closed only when the last FailureThreshold reports were failures.
OpensAfterStreak ==
  [][breaker.state = "closed" /\ breaker'.state # "closed" =>
       breaker'.state = "open" /\ streak' >= FailureThreshold]_vars

\* The metrics make sense together, whatever callers and resets interleave
\* (308-315, 418-421): a call that succeeded in the end took at least one and
\* at most MaxAttempts - 1 retries.
RetriesAddUp ==
  /\ metrics.successful_retries <= metrics.total_retries
  /\ metrics.total_retries <= metrics.successful_retries * (MaxAttempts - 1)

\* Every call of execute returns.
CallEnds == \A c \in Callers : ~At(c, "idle") ~> At(c, "idle")

\* An open breaker does not block for ever, however many calls admitted before
\* still fail and put the recovery off (139-141).
OpenLapses == ~Allows ~> Allows

\* A half-open breaker makes up its mind.
ProbeDecides == breaker.state = "halfopen" ~> breaker.state # "halfopen"

\* The breaker gets back to closed or open calls from wherever it is (87-143).
BreakerRecovers == OpenLapses /\ ProbeDecides

=============================================================================

---------------------------- MODULE ErrorRecovery ----------------------------
(***************************************************************************)
(* Recovering from an error (likeminded-core/src/error_recovery.rs), and   *)
(* the plain retry loop beside it (error_utils.rs 505-542).  Both ask the  *)
(* error two questions, is_retryable and retry_after (error_utils.rs), and *)
(* recovery first asks it a third, determine_strategy; the three tables    *)
(* are written apart from one another.                                     *)
(*                                                                         *)
(* One call at a time: its locals are the state.  Delays are in tenths of  *)
(* a second.  History: how long the call has waited.                       *)
(***************************************************************************)
EXTENDS Integers

CONSTANTS
  Hints,          \* delays a service asks for (retry_after, Timeout's seconds)
  MaxRetries,     \* max_retries, given to the plain loop
  InitialDelay    \* initial_delay, given to the plain loop

ASSUME ConfigAssumption ==
  /\ Hints \subseteq Nat
  /\ MaxRetries \in Nat
  /\ InitialDelay \in Nat

VARIABLE call   \* the locals of apply_strategy, or of the plain loop

vars == <<call>>

None == -1
Second == 10
Forever == -1   \* no cap

\* The variants of the errors a CoreError wraps, as far as the tables tell them
\* apart; "permanent" stands for those no table names.
RedditApiVariants ==
  {"RateLimitExceeded", "RequestTimeout", "ServerError5xx", "EndpointUnavailable", "permanent"}
DatabaseVariants == {"DatabaseLocked", "ConnectionFailed", "TransactionFailed", "permanent"}
LlmVariants == {"RateLimitExceeded", "ServiceUnavailable", "RequestTimeout", "permanent"}
EmbeddingVariants == {"DownloadFailed", "InferenceFailed", "permanent"}

Wrapped ==
  [family : {"RedditApi"}, variant : RedditApiVariants, hint : Hints \cup {None}] \cup
  [family : {"Llm"}, variant : LlmVariants, hint : Hints \cup {None}] \cup
  [family : {"Database"}, variant : DatabaseVariants, hint : {None}] \cup
  [family : {"Embedding"}, variant : EmbeddingVariants, hint : {None}]

\* Of these only a RateLimitExceeded carries a delay, and it always does.
WrappedErrors == {e \in Wrapped : e.hint # None <=> e.variant = "RateLimitExceeded"}

OwnErrors ==
  [family : {"RequestFailed"}, variant : {"429", "5xx", "permanent"}, hint : {None}] \cup
  [family : {"Timeout"}, variant : {"plain"}, hint : Hints] \cup
  [family : {"RateLimited"}, variant : {"plain"}, hint : Hints \cup {None}] \cup
  [family : {"Network", "Config", "Io", "Serialization", "InvalidInput", "NotFound",
             "PermissionDenied", "Internal"}, variant : {"plain"}, hint : {None}]

Errors == WrappedErrors \cup OwnErrors

NoError == [family |-> "none", variant |-> "none", hint |-> None]
NotImplemented == [family |-> "Internal", variant |-> "plain", hint |-> None]

-----------------------------------------------------------------------------
(* Faulty variants of operators below.  Nothing uses them: each is a bug that *)
(* would be easy to write, and each makes the run report a violation.         *)

DefaultFirst(e) == 5 * Second
LastRunFails(c) == c.runs + 1 >= c.max
Uncapped(c, delay) == delay
NeverCounts(c) == c.runs

-----------------------------------------------------------------------------
(* What an error says of itself *)

\* is_retryable, the same for a wrapped error and for the CoreError around it
RetryableRedditApi ==
  {"RateLimitExceeded", "RequestTimeout", "ServerError5xx", "EndpointUnavailable"}
RetryableDatabase == {"DatabaseLocked", "ConnectionFailed", "TransactionFailed"}
RetryableLlm == {"RateLimitExceeded", "ServiceUnavailable", "RequestTimeout"}
RetryableEmbedding == {"DownloadFailed", "InferenceFailed"}

Retryable(e) ==
  \/ e.family = "RedditApi" /\ e.variant \in RetryableRedditApi
  \/ e.family = "Database" /\ e.variant \in RetryableDatabase
  \/ e.family = "Llm" /\ e.variant \in RetryableLlm
  \/ e.family = "Embedding" /\ e.variant \in RetryableEmbedding
  \/ e.family \in {"Network", "Timeout", "RateLimited"}

\* retry_after of a CoreError: a default for every retryable error but a
\* RateLimited that names no delay
CoreRetryAfter(e) ==
  IF e.hint # None \/ e.family = "RateLimited" THEN e.hint
  ELSE IF Retryable(e) THEN 5 * Second ELSE None

\* retry_after of the wrapped errors themselves
RedditApiRetryAfter(e) == IF e.hint # None THEN e.hint ELSE 30 * Second
DatabaseRetryAfter(e) == IF e.variant = "DatabaseLocked" THEN 1 ELSE Second
LlmRetryAfter(e) == IF e.hint # None THEN e.hint ELSE 10 * Second
EmbeddingRetryAfter(e) == 2 * Second

OwnRetryAfter(e) ==
  CASE ~Retryable(e)            -> None
    [] e.family = "RedditApi"   -> RedditApiRetryAfter(e)
    [] e.family = "Database"    -> DatabaseRetryAfter(e)
    [] e.family = "Llm"         -> LlmRetryAfter(e)
    [] OTHER                    -> EmbeddingRetryAfter(e)

RetryAfter(c, e) == IF c.type = "CoreError" THEN CoreRetryAfter(e) ELSE OwnRetryAfter(e)

-----------------------------------------------------------------------------
(* determine_strategy *)

Retry(max, initial, cap) == [does |-> "retry", max |-> max, initial |-> initial, cap |-> cap]
Once == [does |-> "fail", max |-> 1, initial |-> 0, cap |-> 0]
Without(what) == [does |-> what, max |-> 0, initial |-> 0, cap |-> 0]

Strategy(e) ==
  CASE e.family \in {"Network", "RedditApi", "Llm", "Embedding", "Io", "Serialization"} ->
         Retry(3, Second, 30 * Second)
    [] e.variant = "DatabaseLocked" -> Retry(5, 1, 5 * Second)
    [] e.family = "Timeout" -> Retry(1, 5 * Second, 10 * Second)
    [] e.family = "RateLimited" ->
         Retry(2, IF e.hint = None THEN 60 * Second ELSE e.hint, 300 * Second)
    [] e.variant = "429" -> Retry(2, 60 * Second, 300 * Second)
    [] e.variant = "5xx" -> Retry(3, 5 * Second, 60 * Second)
    [] e.family \in {"InvalidInput", "NotFound"} -> Without("skip")
    [] e.family = "Internal" -> Without("degrade")
    [] OTHER -> Once

-----------------------------------------------------------------------------
Idle ==
  [stage |-> "idle", does |-> "none", type |-> "CoreError", max |-> 0, cap |-> Forever,
   delay |-> 0, runs |-> 0, waited |-> 0, cause |-> NoError, error |-> NoError]

Init == call = Idle

At(stage) == call.stage = stage

\* apply_strategy with the strategy for `e`.  Skip does not run the operation and
\* Degrade fails without running it.
Recover(e) ==
  /\ At("idle")
  /\ LET s == Strategy(e) IN
     call' = [call EXCEPT
                !.stage = CASE s.does = "skip"    -> "skipped"
                            [] s.does = "degrade" -> "failed"
                            [] OTHER              -> "running",
                !.error = IF s.does = "degrade" THEN NotImplemented ELSE NoError,
                !.does = s.does, !.max = s.max, !.cap = s.cap, !.delay = s.initial,
                !.cause = e]

ErrorTypes == {"CoreError", "RedditApi", "Database", "Llm", "Embedding"}

\* error_utils::retry_with_backoff, for an operation with errors of one type: it
\* runs the operation once and then max_retries times more.
RetryPlainly(type) ==
  /\ At("idle")
  /\ call' = [call EXCEPT !.stage = "running", !.does = "plain", !.type = type,
                          !.max = MaxRetries + 1, !.delay = InitialDelay]

\* The operation answers.
Succeed ==
  /\ At("running")
  /\ call' = [call EXCEPT !.stage = "recovered", !.runs = @ + 1]

CountRun(c) == c.runs + 1

Exhausted(c) == c.runs >= c.max

GivesUp(c, e) == Exhausted(c) \/ ~Retryable(e)

\* retry_after replaces the delay, then the cap applies; the plain loop has none.
Capped(c, delay) == IF c.cap # Forever /\ delay > c.cap THEN c.cap ELSE delay

NextDelay(c, e) ==
  Capped(c, IF RetryAfter(c, e) # None THEN RetryAfter(c, e) ELSE c.delay)

Fail(e) ==
  LET failed == [call EXCEPT !.runs = CountRun(call), !.error = e] IN
  /\ At("running")
  /\ call.type \in {"CoreError", e.family}
  /\ call' = IF GivesUp(failed, e)
             THEN [failed EXCEPT !.stage = "failed"]
             ELSE [failed EXCEPT !.stage = "sleeping", !.delay = NextDelay(call, e),
                                 !.waited = @ + NextDelay(call, e)]

Double(c) ==
  LET cap == IF c.cap = Forever THEN 60 * Second ELSE c.cap
  IN  IF 2 * c.delay < cap THEN 2 * c.delay ELSE cap

Wake ==
  /\ At("sleeping")
  /\ call' = [call EXCEPT !.stage = "running", !.delay = Double(call)]

Return ==
  /\ call.stage \in {"recovered", "skipped", "failed"}
  /\ call' = Idle

Next ==
  \/ \E e \in Errors : Recover(e) \/ Fail(e)
  \/ \E type \in ErrorTypes : RetryPlainly(type)
  \/ Succeed \/ Wake \/ Return

Spec == Init /\ [][Next]_vars

\* The operation answers, the sleep ends, the task is polled.
Fairness == WF_vars(Succeed \/ \E e \in Errors : Fail(e)) /\ WF_vars(Wake) /\ WF_vars(Return)

FairSpec == Spec /\ Fairness
-----------------------------------------------------------------------------
(* Properties *)

Ended == {"recovered", "skipped", "failed"}

TypeOK ==
  call \in [stage : {"idle", "running", "sleeping"} \cup Ended,
            does : {"none", "retry", "fail", "skip", "degrade", "plain"},
            type : ErrorTypes, max : Nat, cap : Nat \cup {Forever}, delay : Nat, runs : Nat,
            waited : Nat, cause : Errors \cup {NoError}, error : Errors \cup {NoError}]

\* The two loops count differently (234: attempts, after the increment;
\* error_utils 521: retries, before it) and both use their budget: the operation is
\* run at most as often as asked, before a sleep or a round one more run is left, and
\* a call that gives up has made all its runs unless its last error is permanent or
\* there is no degraded operation (195-200).
AttemptBudget ==
  /\ At("sleeping") \/ At("running") => call.runs < call.max
  /\ call.runs <= call.max
  /\ At("failed") => call.runs = call.max \/ ~Retryable(call.error)

\* A recovery waits no longer in all than the strategy of the error it starts from
\* allows, its cap before each run but the first, whatever delays the errors of its
\* rounds ask for and whatever doubling has made of them (231-260).
WaitBounded ==
  call.does = "retry" =>
    LET s == Strategy(call.cause) IN call.waited <= (s.max - 1) * s.cap

\* When a run fails with an error that names a delay, the next run is not sooner
\* (239-246, error_utils.rs 525-536): only the strategy's cap shortens it, and neither
\* the doubled delay nor what an earlier error asked for takes its place.
HintsRespected ==
  At("sleeping") /\ call.error.hint # None =>
    call.delay >= call.error.hint \/ call.delay = call.cap

\* The delay named by the error that a recovery starts from is not waited out before
\* the first run, which comes at once (228; the comment at 117 says otherwise).  It
\* comes before the second, unless the error of the first run has a delay of its own.
CauseRespected ==
  At("sleeping") /\ call.does = "retry" /\ call.runs = 1 /\ call.cause.family = "RateLimited"
    /\ RetryAfter(call, call.error) = None =>
    call.delay >= call.cause.hint \/ call.delay = call.cap

\* The sleeps are as long as service and strategy ask together, and add up to no more
\* than the strategy allows.
WaitsAsAsked == WaitBounded /\ HintsRespected /\ CauseRespected

\* Every call returns.
CallReturns == ~At("idle") ~> At("idle")

=============================================================================

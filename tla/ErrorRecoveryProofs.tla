------------------------- MODULE ErrorRecoveryProofs -------------------------
(***************************************************************************)
(* Theorems about recovery, for any delays services ask for and any budget *)
(* and first delay the plain loop is given.                                *)
(***************************************************************************)
EXTENDS ErrorRecovery, TLAPS

\* What every error has, and which errors ask for a delay.
LEMMA ErrorFacts ==
  ASSUME NEW e \in Errors
  PROVE  /\ e.hint \in Nat \cup {None}
         /\ e.hint # None /\ e.family \in {"RedditApi", "Database", "Llm", "Embedding"} =>
              e.family \in {"RedditApi", "Llm"}
<1> USE ConfigAssumption
<1>1. CASE e \in WrappedErrors
  <2>1. e \in Wrapped
    BY <1>1 DEF WrappedErrors
  <2> QED
    BY <2>1 DEF Wrapped, None
<1>2. CASE e \in OwnErrors
  BY <1>2 DEF OwnErrors, None
<1> QED
  BY <1>1, <1>2 DEF Errors

LEMMA NotImplementedFacts == NotImplemented \in Errors /\ ~Retryable(NotImplemented)
<1>1. NotImplemented \in OwnErrors
  BY DEF NotImplemented, OwnErrors, None
<1> QED
  BY <1>1 DEF Errors, NotImplemented, Retryable

\* Both retry_after functions ask for a delay, and for the service's if it has one.
LEMMA RetryAfterFacts ==
  ASSUME TypeOK, NEW e \in Errors, Retryable(e), call.type \in {"CoreError", e.family}
  PROVE  /\ RetryAfter(call, e) \in Nat \cup {None}
         /\ e.hint # None => RetryAfter(call, e) = e.hint
<1>1. CASE call.type = "CoreError"
  BY <1>1, ErrorFacts DEF RetryAfter, CoreRetryAfter, Second, None
<1>2. CASE call.type # "CoreError"
  <2>1. e.family = call.type /\ call.type \in {"RedditApi", "Database", "Llm", "Embedding"}
    BY <1>2 DEF TypeOK, ErrorTypes
  <2> QED
    BY <1>2, <2>1, ErrorFacts
       DEF RetryAfter, OwnRetryAfter, RedditApiRetryAfter, DatabaseRetryAfter, LlmRetryAfter,
           EmbeddingRetryAfter, Second, None
<1> QED
  BY <1>1, <1>2

\* The strategies: every one that runs the operation runs it once at least.
Strategies == [does : {"retry", "fail", "skip", "degrade"}, max : Nat, initial : Nat, cap : Nat]

LEMMA StrategyFacts ==
  ASSUME NEW e \in Errors
  PROVE  /\ Strategy(e) \in Strategies
         /\ Strategy(e).does \in {"retry", "fail"} => Strategy(e).max > 0
<1> DEFINE Good(s) == s \in Strategies /\ (s.does \in {"retry", "fail"} => s.max > 0)
<1>1. ASSUME NEW max \in Nat \ {0}, NEW initial \in Nat, NEW cap \in Nat
      PROVE  Good(Retry(max, initial, cap))
  BY DEF Strategies, Retry
<1>2. Good(Once) /\ Good(Without("skip")) /\ Good(Without("degrade"))
  BY DEF Strategies, Once, Without
<1> HIDE DEF Good
<1>3. /\ Good(Retry(3, Second, 30 * Second)) /\ Good(Retry(5, 1, 5 * Second))
      /\ Good(Retry(1, 5 * Second, 10 * Second)) /\ Good(Retry(2, 60 * Second, 300 * Second))
      /\ Good(Retry(3, 5 * Second, 60 * Second))
      /\ Good(Retry(2, IF e.hint = None THEN 60 * Second ELSE e.hint, 300 * Second))
  BY <1>1, ErrorFacts DEF Second
<1>4. Good(Strategy(e))
  BY <1>2, <1>3, Zenon DEF Strategy
<1> QED
  BY <1>4 DEF Good

\* A RateLimited has a strategy of its own, which begins with the delay it names.
LEMMA CauseFacts ==
  ASSUME NEW e \in Errors, e.family = "RateLimited"
  PROVE  Strategy(e).initial >= e.hint
<1>1. e.variant = "plain"
  <2>1. e \notin Wrapped
    BY DEF Wrapped
  <2>2. e \in OwnErrors
    BY <2>1 DEF Errors, WrappedErrors
  <2> QED
    BY <2>2 DEF OwnErrors
<1>2. Strategy(e) = Retry(2, IF e.hint = None THEN 60 * Second ELSE e.hint, 300 * Second)
  BY <1>1 DEF Strategy
<1> QED
  BY <1>2, ErrorFacts DEF Retry, Second, None

-----------------------------------------------------------------------------
(* Types *)

LEMMA InitTypeOK == Init => TypeOK
BY DEF Init, Idle, TypeOK, Ended, ErrorTypes, Forever, NoError

\* What a failed run leaves of the locals.
LEMMA DelayFacts ==
  ASSUME TypeOK, NEW e \in Errors, Retryable(e), call.type \in {"CoreError", e.family}
  PROVE  /\ NextDelay(call, e) \in Nat
         /\ call.cap # Forever => NextDelay(call, e) <= call.cap
         /\ e.hint # None => NextDelay(call, e) >= e.hint \/ NextDelay(call, e) = call.cap
<1> DEFINE asked == IF RetryAfter(call, e) # None THEN RetryAfter(call, e) ELSE call.delay
<1>1. asked \in Nat /\ (e.hint # None => asked = e.hint) /\ e.hint \in Nat \cup {None}
  BY RetryAfterFacts, ErrorFacts DEF TypeOK, None
<1>2. call.cap \in Nat \cup {Forever}
  BY DEF TypeOK
<1> HIDE DEF asked
<1>3. Capped(call, asked) \in Nat /\ (call.cap # Forever => Capped(call, asked) <= call.cap)
  BY <1>1, <1>2 DEF Capped, Forever
<1>4. Capped(call, asked) = asked \/ Capped(call, asked) = call.cap
  BY DEF Capped
<1> QED
  BY <1>1, <1>3, <1>4 DEF NextDelay, asked, None

\* A run counted, and the two ways a failure leaves the loop.
LEMMA FailFacts ==
  ASSUME TypeOK, NEW e \in Errors, Fail(e)
  PROVE  /\ call'.runs = call.runs + 1 /\ call'.error = e
         /\ call'.does = call.does /\ call'.type = call.type /\ call'.max = call.max
         /\ call'.cap = call.cap /\ call'.cause = call.cause
         /\ \/ /\ call'.stage = "failed" /\ call'.delay = call.delay /\ call'.waited = call.waited
               /\ call.runs + 1 >= call.max \/ ~Retryable(e)
            \/ /\ call'.stage = "sleeping" /\ call'.delay = NextDelay(call, e)
               /\ call'.waited = call.waited + NextDelay(call, e)
               /\ ~(call.runs + 1 >= call.max) /\ Retryable(e)
         /\ DOMAIN call' = DOMAIN call
<1> DEFINE failed == [call EXCEPT !.runs = CountRun(call), !.error = e]
<1>1. /\ failed.runs = call.runs + 1 /\ failed.error = e /\ failed.max = call.max
      /\ failed.does = call.does /\ failed.type = call.type /\ failed.cap = call.cap
      /\ failed.cause = call.cause /\ failed.delay = call.delay /\ failed.waited = call.waited
      /\ DOMAIN failed = DOMAIN call
  BY DEF CountRun, TypeOK
<1>2. call' = IF GivesUp(failed, e)
              THEN [failed EXCEPT !.stage = "failed"]
              ELSE [failed EXCEPT !.stage = "sleeping", !.delay = NextDelay(call, e),
                                  !.waited = @ + NextDelay(call, e)]
  BY DEF Fail
<1>3. GivesUp(failed, e) <=> call.runs + 1 >= call.max \/ ~Retryable(e)
  BY <1>1 DEF GivesUp, Exhausted
<1>4. DOMAIN failed = {"stage", "does", "type", "max", "cap", "delay", "runs", "waited",
                       "cause", "error"}
  BY <1>1 DEF TypeOK
<1> HIDE DEF failed
<1>5. CASE GivesUp(failed, e)
  BY <1>1, <1>2, <1>3, <1>4, <1>5
<1>6. CASE ~GivesUp(failed, e)
  <2> DEFINE d == NextDelay(call, e)
  <2> DEFINE w == failed.waited + d
  <2>1. call' = [failed EXCEPT !.stage = "sleeping", !.delay = d, !.waited = w]
    BY <1>2, <1>6
  <2>3. w = call.waited + d
    BY <1>1
  <2> HIDE DEF d, w
  <2>2. call'.stage = "sleeping" /\ call'.delay = d /\ call'.waited = w
    BY <1>4, <2>1
  <2> QED
    BY <1>1, <1>3, <1>4, <1>6, <2>1, <2>2, <2>3 DEF d
<1> QED
  BY <1>5, <1>6

LEMMA NextTypeOK == TypeOK /\ [Next]_vars => TypeOK'
<1> SUFFICES ASSUME TypeOK, [Next]_vars PROVE TypeOK'
  OBVIOUS
<1> USE ConfigAssumption
<1>1. ASSUME NEW e \in Errors, Recover(e) PROVE TypeOK'
  <2> DEFINE s == Strategy(e)
  <2>1. s \in Strategies
    BY StrategyFacts
  <2>2. call' = [call EXCEPT
                  !.stage = CASE s.does = "skip"    -> "skipped"
                              [] s.does = "degrade" -> "failed"
                              [] OTHER              -> "running",
                  !.error = IF s.does = "degrade" THEN NotImplemented ELSE NoError,
                  !.does = s.does, !.max = s.max, !.cap = s.cap, !.delay = s.initial,
                  !.cause = e]
    BY <1>1 DEF Recover
  <2> HIDE DEF s
  <2>3. /\ s.does \in {"retry", "fail", "skip", "degrade"}
        /\ s.max \in Nat /\ s.initial \in Nat /\ s.cap \in Nat
    BY <2>1 DEF Strategies
  <2> DEFINE stage == CASE s.does = "skip"    -> "skipped"
                        [] s.does = "degrade" -> "failed"
                        [] OTHER              -> "running"
             error == IF s.does = "degrade" THEN NotImplemented ELSE NoError
  <2>4. stage \in {"skipped", "failed", "running"} /\ error \in Errors \cup {NoError}
    BY NotImplementedFacts
  <2>5. call' = [call EXCEPT !.stage = stage, !.error = error, !.does = s.does, !.max = s.max,
                             !.cap = s.cap, !.delay = s.initial, !.cause = e]
    BY <2>2
  <2> HIDE DEF stage, error
  <2> QED
    BY <2>3, <2>4, <2>5 DEF TypeOK, Ended
<1>2. ASSUME NEW e \in Errors, Fail(e) PROVE TypeOK'
  <2>1. call.type \in {"CoreError", e.family}
    BY <1>2 DEF Fail
  <2> DEFINE failed == [call EXCEPT !.runs = CountRun(call), !.error = e]
  <2>2. failed \in [stage : {"idle", "running", "sleeping"} \cup Ended,
            does : {"none", "retry", "fail", "skip", "degrade", "plain"},
            type : ErrorTypes, max : Nat, cap : Nat \cup {Forever}, delay : Nat, runs : Nat,
            waited : Nat, cause : Errors \cup {NoError}, error : Errors \cup {NoError}]
    <3> DEFINE n == CountRun(call)
    <3>1. n \in Nat
      BY DEF TypeOK, CountRun
    <3> HIDE DEF n
    <3>2. [call EXCEPT !.runs = n, !.error = e] \in
            [stage : {"idle", "running", "sleeping"} \cup Ended,
             does : {"none", "retry", "fail", "skip", "degrade", "plain"},
             type : ErrorTypes, max : Nat, cap : Nat \cup {Forever}, delay : Nat, runs : Nat,
             waited : Nat, cause : Errors \cup {NoError}, error : Errors \cup {NoError}]
      BY <3>1 DEF TypeOK
    <3> QED
      BY <3>2 DEF n
  <2>3. \/ call' = [failed EXCEPT !.stage = "failed"]
        \/ /\ Retryable(e)
           /\ call' = [failed EXCEPT !.stage = "sleeping", !.delay = NextDelay(call, e),
                                     !.waited = @ + NextDelay(call, e)]
    BY <1>2 DEF Fail, GivesUp
  <2> HIDE DEF failed
  <2>4. CASE call' = [failed EXCEPT !.stage = "failed"]
    BY <2>2, <2>4 DEF TypeOK, Ended
  <2>5. CASE /\ Retryable(e)
             /\ call' = [failed EXCEPT !.stage = "sleeping", !.delay = NextDelay(call, e),
                                       !.waited = @ + NextDelay(call, e)]
    <3> DEFINE d == NextDelay(call, e)
               w == failed.waited + d
    <3>1. d \in Nat /\ w \in Nat
      BY <2>1, <2>2, <2>5, DelayFacts
    <3>2. call' = [failed EXCEPT !.stage = "sleeping", !.delay = d, !.waited = w]
      BY <2>5
    <3> HIDE DEF d, w
    <3> QED
      BY <2>2, <3>1, <3>2 DEF TypeOK
  <2> QED
    BY <2>3, <2>4, <2>5
<1>3. ASSUME NEW type \in ErrorTypes, RetryPlainly(type) PROVE TypeOK'
  <2> DEFINE m == MaxRetries + 1
  <2>1. m \in Nat
    OBVIOUS
  <2>2. call' = [call EXCEPT !.stage = "running", !.does = "plain", !.type = type,
                             !.max = m, !.delay = InitialDelay]
    BY <1>3 DEF RetryPlainly
  <2> HIDE DEF m
  <2> QED
    BY <2>1, <2>2 DEF TypeOK
<1>4. CASE Succeed
  <2> DEFINE n == call.runs + 1
  <2>1. n \in Nat
    BY DEF TypeOK
  <2>2. call' = [call EXCEPT !.stage = "recovered", !.runs = n]
    BY <1>4 DEF Succeed
  <2> HIDE DEF n
  <2> QED
    BY <2>1, <2>2 DEF TypeOK, Ended
<1>5. CASE Wake
  <2> DEFINE d == Double(call)
  <2>1. d \in Nat
    BY DEF Double, TypeOK, Forever, Second
  <2>2. call' = [call EXCEPT !.stage = "running", !.delay = d]
    BY <1>5 DEF Wake
  <2> HIDE DEF d
  <2> QED
    BY <2>1, <2>2 DEF TypeOK
<1>6. CASE Return
  BY <1>6, InitTypeOK DEF Return, Init, Idle, TypeOK, Ended, ErrorTypes, Forever, NoError
<1>7. CASE UNCHANGED vars
  BY <1>7 DEF vars, TypeOK
<1> QED
  BY <1>1, <1>2, <1>3, <1>4, <1>5, <1>6, <1>7 DEF Next

-----------------------------------------------------------------------------
(* Budgets and delays *)

\* A recovery keeps to the strategy it chose: it has slept at most the cap for each
\* run so far, and before the first run its delay is still the strategy's.
StrategyKept ==
  call.does = "retry" =>
    LET s == Strategy(call.cause) IN
    /\ call.cause \in Errors /\ s.does = "retry" /\ call.type = "CoreError"
    /\ call.max = s.max /\ call.cap = s.cap
    /\ call.waited <= (call.max - 1) * call.cap
    /\ At("sleeping") \/ At("running") => call.waited <= call.runs * call.cap
    /\ At("running") /\ call.runs = 0 => call.delay = s.initial

\* The inductive invariant: a call that has not begun has used nothing.
IInv ==
  /\ TypeOK /\ AttemptBudget /\ HintsRespected /\ CauseRespected /\ StrategyKept
  /\ At("sleeping") => call.runs # 0
  /\ At("idle") => call = Idle

\* The sum of waits up to a number of runs grows with the runs.
LEMMA Products ==
  ASSUME NEW m \in Nat, NEW n \in Nat, NEW c \in Nat, m <= n
  PROVE  m * c \in Nat /\ n * c \in Nat /\ m * c <= n * c /\ (m + 1) * c = m * c + c
<1>1. PICK d \in Nat : n = m + d
  <2>1. n - m \in Nat /\ n = m + (n - m)
    OBVIOUS
  <2> QED
    BY <2>1
<1>2. n * c = m * c + d * c /\ d * c \in Nat /\ m * c \in Nat
  BY <1>1, SMT
<1> QED
  BY <1>2, SMT

LEMMA InitInv == Init => IInv
<1> SUFFICES ASSUME Init PROVE IInv
  OBVIOUS
<1>1. call = Idle /\ TypeOK
  BY InitTypeOK DEF Init
<1> QED
  BY <1>1 DEF IInv, Idle, AttemptBudget, HintsRespected, CauseRespected, StrategyKept, At

\* The three parts about waiting, for a step that does not begin a sleep and leaves
\* alone what they look at.
LEMMA WaitsKept ==
  ASSUME IInv, call'.stage # "sleeping", call'.does = call.does, call'.type = call.type,
         call'.max = call.max, call'.cap = call.cap, call'.cause = call.cause,
         call'.waited = call.waited, call'.runs \in Nat,
         call'.stage = "running" => call.stage = "sleeping" /\ call'.runs = call.runs,
         call.stage = "sleeping" => call.runs # 0
  PROVE  HintsRespected' /\ CauseRespected' /\ StrategyKept'
BY DEF IInv, HintsRespected, CauseRespected, StrategyKept, At

LEMMA NextInv == IInv /\ TypeOK' /\ [Next]_vars => IInv'
<1> SUFFICES ASSUME IInv, TypeOK', [Next]_vars PROVE IInv'
  OBVIOUS
<1> USE ConfigAssumption
<1>0. /\ TypeOK
      /\ call.runs \in Nat /\ call.max \in Nat /\ call.waited \in Nat
      /\ call'.runs \in Nat /\ call'.max \in Nat /\ call'.waited \in Nat
  BY DEF IInv, TypeOK
<1>1. ASSUME NEW e \in Errors, Recover(e) PROVE IInv'
  <2> DEFINE s == Strategy(e)
  <2>1. /\ s.does \in {"retry", "fail", "skip", "degrade"} /\ s.max \in Nat /\ s.cap \in Nat
        /\ s.does \in {"retry", "fail"} => s.max > 0
    BY StrategyFacts DEF Strategies
  <2>2. call.runs = 0 /\ call.waited = 0 /\ call.type = "CoreError"
    BY <1>1 DEF IInv, Recover, Idle
  <2>3. /\ call'.stage = CASE s.does = "skip"    -> "skipped"
                           [] s.does = "degrade" -> "failed"
                           [] OTHER              -> "running"
        /\ call'.error = IF s.does = "degrade" THEN NotImplemented ELSE NoError
        /\ call'.max = s.max /\ call'.runs = 0 /\ call'.does = s.does /\ call'.cap = s.cap
        /\ call'.delay = s.initial /\ call'.cause = e /\ call'.waited = 0
        /\ call'.type = "CoreError"
    <3>1. call' = [call EXCEPT
                  !.stage = CASE s.does = "skip"    -> "skipped"
                              [] s.does = "degrade" -> "failed"
                              [] OTHER              -> "running",
                  !.error = IF s.does = "degrade" THEN NotImplemented ELSE NoError,
                  !.does = s.does, !.max = s.max, !.cap = s.cap, !.delay = s.initial,
                  !.cause = e]
      BY <1>1 DEF Recover
    <3> HIDE DEF s
    <3> QED
      BY <1>0, <2>2, <3>1 DEF TypeOK
  <2>4. s.does = "retry" => StrategyKept'
    <3> SUFFICES ASSUME s.does = "retry" PROVE StrategyKept'
      OBVIOUS
    <3>1. s.max - 1 \in Nat
      BY <2>1
    <3>2. 0 <= 0 * s.cap /\ 0 * s.cap <= (s.max - 1) * s.cap
      BY <2>1, <3>1, Products
    <3>3. call'.cause = e /\ Strategy(call'.cause) = s
      BY <2>3
    <3>4. e \in Errors
      OBVIOUS
    <3> HIDE DEF s
    <3>5. call'.waited = 0 /\ call'.max = s.max /\ call'.cap = s.cap /\ call'.runs = 0
      BY <2>3
    <3>6. call'.waited <= (call'.max - 1) * call'.cap /\ call'.waited <= call'.runs * call'.cap
      <4>1. 0 <= (s.max - 1) * s.cap
        BY <2>1, <3>2, 0 * s.cap = 0
      <4>2. 0 <= 0 * s.cap
        BY <3>2
      <4> QED
        BY <3>5, <4>1, <4>2
    <3>7. call'.delay = s.initial /\ call'.type = "CoreError"
      BY <2>3
    <3> QED
      BY <3>3, <3>4, <3>5, <3>6, <3>7 DEF StrategyKept, At
  <2> HIDE DEF s
  <2>5. CASE s.does = "skip"
    BY <2>1, <2>3, <2>5 DEF IInv, AttemptBudget, HintsRespected, CauseRespected, StrategyKept, At
  <2>6. CASE s.does = "degrade"
    BY <2>1, <2>3, <2>6, NotImplementedFacts
       DEF IInv, AttemptBudget, HintsRespected, CauseRespected, StrategyKept, At
  <2>7. CASE s.does \in {"retry", "fail"}
    <3>1. call'.stage = "running"
      BY <2>3, <2>7
    <3>2. StrategyKept'
      BY <2>3, <2>4, <2>7 DEF StrategyKept
    <3> QED
      BY <2>1, <2>3, <2>7, <3>1, <3>2 DEF IInv, AttemptBudget, HintsRespected, CauseRespected, At
  <2> QED
    BY <2>1, <2>5, <2>6, <2>7
<1>2. ASSUME NEW e \in Errors, Fail(e) PROVE IInv'
  <2>1. call.runs < call.max /\ call.stage = "running"
    BY <1>2 DEF IInv, AttemptBudget, Fail, At
  <2>2. call.type \in {"CoreError", e.family}
    BY <1>2 DEF Fail
  <2> DEFINE d == NextDelay(call, e)
  <2>3. /\ call'.runs = call.runs + 1 /\ call'.error = e /\ call'.max = call.max /\ call'.cap = call.cap
        /\ call'.does = call.does /\ call'.type = call.type /\ call'.cause = call.cause
        /\ \/ /\ call'.stage = "failed" /\ call'.waited = call.waited
              /\ call.runs + 1 >= call.max \/ ~Retryable(e)
           \/ /\ call'.stage = "sleeping" /\ call'.delay = d /\ call'.waited = call.waited + d
              /\ ~(call.runs + 1 >= call.max) /\ Retryable(e)
    BY <1>0, <1>2, FailFacts
  <2>4. AttemptBudget'
    BY <1>0, <2>1, <2>3 DEF AttemptBudget, At
  <2>5. CASE call'.stage = "failed"
    <3>1. call'.waited = call.waited
      BY <2>3, <2>5
    <3>2. HintsRespected' /\ CauseRespected' /\ StrategyKept'
      BY <1>0, <2>1, <2>3, <2>5, <3>1, WaitsKept
    <3> QED
      BY <2>4, <2>5, <3>2 DEF IInv, At
  <2>6. CASE call'.stage = "sleeping"
    <3>1. /\ call'.delay = d /\ call'.waited = call.waited + d
          /\ call.runs + 1 < call.max /\ Retryable(e)
      BY <1>0, <2>3, <2>6
    <3>2. /\ d \in Nat
          /\ call.cap # Forever => d <= call.cap
          /\ e.hint # None => d >= e.hint \/ d = call.cap
      BY <1>0, <2>2, <3>1, DelayFacts
    <3>3. RetryAfter(call, e) = None => d = call.delay \/ d = call.cap
      BY DEF NextDelay, Capped
    <3> HIDE DEF d
    <3>4. HintsRespected'
      BY <2>3, <3>1, <3>2 DEF HintsRespected
    <3>5. CauseRespected' /\ StrategyKept'
      <4>1. CASE call.does # "retry"
        BY <2>3, <4>1 DEF CauseRespected, StrategyKept
      <4>2. CASE call.does = "retry"
        <5> DEFINE s == Strategy(call.cause)
        <5>1. /\ call.cause \in Errors /\ s.does = "retry" /\ call.type = "CoreError"
              /\ call.max = s.max /\ call.cap = s.cap
              /\ call.waited <= call.runs * call.cap
              /\ call.runs = 0 => call.delay = s.initial
          BY <2>1, <4>2 DEF IInv, StrategyKept, At
        <5>2. call.cap \in Nat
          BY <5>1, StrategyFacts DEF Strategies
        <5>3. call.cause.family = "RateLimited" => s.initial >= call.cause.hint
          BY <5>1, CauseFacts
        <5>4. CauseRespected'
          <6>1. RetryAfter(call', e) = RetryAfter(call, e)
            BY <2>3 DEF RetryAfter
          <6> SUFFICES ASSUME call'.runs = 1, call.cause.family = "RateLimited",
                              RetryAfter(call, e) = None
                       PROVE  call'.delay >= call.cause.hint \/ call'.delay = call.cap
            BY <2>3, <6>1 DEF CauseRespected
          <6>2. call.delay = s.initial
            BY <1>0, <2>3, <5>1
          <6> QED
            BY <3>1, <3>3, <5>3, <6>2
        <5>5. StrategyKept'
          <6>1. d <= call.cap
            BY <3>2, <5>2 DEF Forever
          <6>2. (call.runs + 1) * call.cap = call.runs * call.cap + call.cap
                /\ call.runs * call.cap \in Nat
            BY <1>0, <5>2, Products
          <6>3. call.max - 1 \in Nat /\ call.runs + 1 \in Nat /\ call.runs + 1 <= call.max - 1
            BY <1>0, <3>1
          <6>4. (call.runs + 1) * call.cap <= (call.max - 1) * call.cap
                /\ (call.runs + 1) * call.cap \in Nat /\ (call.max - 1) * call.cap \in Nat
            BY <5>2, <6>3, Products
          <6>5. call.waited + d <= (call.runs + 1) * call.cap
                /\ call.waited + d <= (call.max - 1) * call.cap
            <7> DEFINE a == call.runs * call.cap
                       b == (call.runs + 1) * call.cap
                       c == (call.max - 1) * call.cap
            <7>1. call.waited <= a /\ b = a + call.cap /\ b <= c /\ a \in Nat /\ b \in Nat /\ c \in Nat
              BY <5>1, <6>2, <6>4
            <7> HIDE DEF a, b, c
            <7>2. call.waited + d <= b /\ call.waited + d <= c
              BY <1>0, <3>2, <5>2, <6>1, <7>1
            <7> QED
              BY <7>2 DEF b, c
          <6> HIDE DEF s
          <6>6. Strategy(call'.cause) = s
            BY <2>3 DEF s
          <6>7. call'.waited <= (call'.max - 1) * call'.cap /\ call'.waited <= call'.runs * call'.cap
            BY <2>3, <3>1, <6>5
          <6> QED
            BY <2>3, <2>6, <5>1, <6>6, <6>7 DEF StrategyKept, At
        <5> QED
          BY <5>4, <5>5
      <4> QED
        BY <4>1, <4>2
    <3>6. call'.runs # 0
      BY <1>0, <2>3
    <3> QED
      BY <2>4, <2>6, <3>4, <3>5, <3>6 DEF IInv, At
  <2> QED
    BY <2>3, <2>5, <2>6
<1>3. ASSUME NEW type \in ErrorTypes, RetryPlainly(type) PROVE IInv'
  <2>1. call'.stage = "running" /\ call'.max = MaxRetries + 1 /\ call'.runs = 0 /\ call'.does = "plain"
    BY <1>0, <1>3 DEF RetryPlainly, IInv, Idle, TypeOK
  <2> QED
    BY <2>1 DEF IInv, AttemptBudget, HintsRespected, CauseRespected, StrategyKept, At
<1>4. CASE Succeed
  <2>1. call.runs < call.max /\ call.stage = "running"
    BY <1>4 DEF IInv, AttemptBudget, Succeed, At
  <2>2. /\ call'.stage = "recovered" /\ call'.max = call.max /\ call'.runs = call.runs + 1
        /\ call'.does = call.does /\ call'.type = call.type /\ call'.cap = call.cap
        /\ call'.cause = call.cause /\ call'.waited = call.waited
    BY <1>0, <1>4 DEF Succeed, TypeOK
  <2>3. HintsRespected' /\ CauseRespected' /\ StrategyKept'
    BY <1>0, <2>1, <2>2, WaitsKept
  <2> QED
    BY <1>0, <2>1, <2>2, <2>3 DEF IInv, AttemptBudget, At
<1>5. CASE Wake
  <2>1. /\ call'.stage = "running" /\ call'.max = call.max /\ call'.runs = call.runs
        /\ call'.does = call.does /\ call'.type = call.type /\ call'.cap = call.cap
        /\ call'.cause = call.cause /\ call'.waited = call.waited
    BY <1>0, <1>5 DEF Wake, TypeOK
  <2>2. call.stage = "sleeping" /\ call.runs # 0
    BY <1>5 DEF Wake, At, IInv, AttemptBudget
  <2>3. HintsRespected' /\ CauseRespected' /\ StrategyKept'
    BY <1>0, <2>1, <2>2, WaitsKept
  <2> QED
    BY <1>0, <2>1, <2>2, <2>3 DEF IInv, AttemptBudget, At
<1>6. CASE Return
  <2>1. call' = Idle
    BY <1>6 DEF Return
  <2>2. Idle.stage = "idle" /\ Idle.runs = 0 /\ Idle.max = 0 /\ Idle.does = "none"
    BY DEF Idle
  <2>3. AttemptBudget' /\ HintsRespected' /\ CauseRespected' /\ StrategyKept'
    BY <2>1, <2>2 DEF AttemptBudget, HintsRespected, CauseRespected, StrategyKept, At
  <2> QED
    BY <2>1, <2>2, <2>3 DEF IInv, At
<1>7. CASE UNCHANGED vars
  BY <1>7 DEF vars, IInv, AttemptBudget, HintsRespected, CauseRespected, StrategyKept, At, Idle
<1> QED
  BY <1>1, <1>2, <1>3, <1>4, <1>5, <1>6, <1>7 DEF Next

LEMMA RecoveryInv == Spec => []IInv
<1>1. IInv /\ [Next]_vars => IInv'
  BY NextTypeOK, NextInv DEF IInv
<1> QED
  BY InitInv, <1>1, PTL DEF Spec

\* Both loops use their budget and no more: the operation is never run more often
\* than asked, a round is only begun with a run left, and a call that gives up has
\* used them all or met an error that no retry mends (error_recovery.rs 195-234,
\* error_utils.rs 515-527).
THEOREM BudgetKept == Spec => []AttemptBudget
<1>1. IInv => AttemptBudget
  BY DEF IInv
<1> QED
  BY <1>1, RecoveryInv, PTL

\* A recovery sleeps no longer in all than its strategy allows; before each run that
\* follows a failed one it sleeps as long as the failure asked, but for the strategy's
\* cap, and before the second run as long as the error it started from asked, unless
\* the first failure has a delay of its own (error_recovery.rs 224-260).  Nothing is
\* said of the first run, which is not waited for.
THEOREM SleepsAsAsked == Spec => []WaitsAsAsked
<1>1. IInv => WaitsAsAsked
  BY DEF IInv, WaitsAsAsked, WaitBounded, StrategyKept
<1> QED
  BY <1>1, RecoveryInv, PTL

-----------------------------------------------------------------------------
(* Coming to an end: the safety half of CallReturns.                           *)

\* More steps than a call still can take: a run and a sleep for each run it has
\* left, and its return.
StepsLeft ==
  CASE At("sleeping")        -> 2 * (call.max - call.runs) + 1
    [] At("running")         -> 2 * (call.max - call.runs)
    [] call.stage \in Ended  -> 1
    [] At("idle")            -> 0

Budget == 2 * call.max + 1

StepsBounded == StepsLeft \in 0..Budget

StepsRunOut == [][~At("idle") => StepsLeft' < StepsLeft]_vars

LEMMA StepsFacts ==
  ASSUME IInv
  PROVE  /\ At("sleeping") => StepsLeft = 2 * (call.max - call.runs) + 1
         /\ At("running") => StepsLeft = 2 * (call.max - call.runs)
         /\ call.stage \in Ended => StepsLeft = 1
         /\ At("idle") => StepsLeft = 0
         /\ call.stage \in {"idle", "running", "sleeping"} \cup Ended
         /\ call.max \in Nat /\ call.runs \in Nat
         /\ At("sleeping") \/ At("running") => call.runs < call.max
BY DEF IInv, TypeOK, AttemptBudget, StepsLeft, At, Ended

LEMMA StepsAreBounded == IInv => StepsBounded
<1> SUFFICES ASSUME IInv PROVE StepsLeft \in 0..Budget
  BY DEF StepsBounded
<1>1. call.max \in Nat /\ call.runs \in Nat
  BY StepsFacts
<1> QED
  BY <1>1, StepsFacts DEF Budget, At

LEMMA NextSteps ==
  ASSUME IInv, Next, ~At("idle")
  PROVE  StepsLeft' < StepsLeft
<1>0. TypeOK /\ call.max \in Nat /\ call.runs \in Nat
  BY StepsFacts DEF IInv
<1>1. ASSUME NEW e \in Errors, Fail(e) PROVE StepsLeft' < StepsLeft
  <2>1. At("running") /\ call.runs < call.max /\ StepsLeft = 2 * (call.max - call.runs)
    BY <1>1, StepsFacts DEF Fail
  <2>2. call'.runs = call.runs + 1 /\ call'.max = call.max /\ call'.stage \in {"failed", "sleeping"}
    BY <1>0, <1>1, FailFacts
  <2>3. StepsLeft' = 1 \/ StepsLeft' = 2 * (call'.max - call'.runs) + 1
    BY <2>2 DEF StepsLeft, At, Ended
  <2> QED
    BY <1>0, <2>1, <2>2, <2>3
<1>2. CASE Succeed
  <2>1. At("running") /\ call.runs < call.max /\ StepsLeft = 2 * (call.max - call.runs)
    BY <1>2, StepsFacts DEF Succeed
  <2>2. call'.stage = "recovered"
    BY <1>0, <1>2 DEF Succeed, TypeOK
  <2>3. StepsLeft' = 1
    BY <2>2 DEF StepsLeft, At, Ended
  <2> QED
    BY <1>0, <2>1, <2>3
<1>3. CASE Wake
  <2>1. At("sleeping") /\ call.runs < call.max /\ StepsLeft = 2 * (call.max - call.runs) + 1
    BY <1>3, StepsFacts DEF Wake
  <2>2. call'.stage = "running" /\ call'.max = call.max /\ call'.runs = call.runs
    BY <1>0, <1>3 DEF Wake, TypeOK
  <2>3. StepsLeft' = 2 * (call'.max - call'.runs)
    BY <2>2 DEF StepsLeft, At, Ended
  <2> QED
    BY <1>0, <2>1, <2>2, <2>3
<1>4. CASE Return
  <2>1. call.stage \in Ended /\ call' = Idle /\ Idle.stage = "idle"
    BY <1>4 DEF Return, Ended, Idle
  <2>2. StepsLeft = 1 /\ StepsLeft' = 0
    BY <2>1, StepsFacts DEF StepsLeft, At, Ended
  <2> QED
    BY <2>2
<1> QED
  BY <1>1, <1>2, <1>3, <1>4 DEF Next, Recover, RetryPlainly

\* Every step of a call brings it closer to its return, whatever errors it meets and
\* whatever delays they ask for: it takes two steps for each run of its budget and one
\* more at most (error_recovery.rs 208-257, error_utils.rs 505-542).
THEOREM CallsRunOut == Spec => []StepsBounded /\ StepsRunOut
<1>1. IInv /\ [Next]_vars => [~At("idle") => StepsLeft' < StepsLeft]_vars
  BY NextSteps
<1> QED
  BY <1>1, StepsAreBounded, RecoveryInv, PTL DEF Spec, StepsRunOut

=============================================================================

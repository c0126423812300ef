------------------------ MODULE RetryExecutorProofs ------------------------
(***************************************************************************)
(* Theorems about the retry executor and its breaker, for any number of    *)
(* callers and calls and any configuration.                                *)
(***************************************************************************)
EXTENDS RetryExecutor, TLAPS

USE ConfigAssumption

\* The functions on the breaker return a breaker.
LEMMA BreakerFacts ==
  ASSUME NEW b \in Breaker
  PROVE  AfterAllow(b) \in Breaker /\ AfterSuccess(b) \in Breaker /\ AfterFailure(b) \in Breaker
BY DEF Breaker, AfterAllow, AfterSuccess, AfterFailure, Never

\* A caller's stage changes, and its attempt stays.
LEMMA GotoFacts ==
  ASSUME caller \in [Callers -> Call], NEW c \in Callers,
         NEW stage \in Stages, Goto(c, stage),
         stage = "sleeping" => AttemptsLeft(c),
         stage = "tallying" => RetryWorked(c)
  PROVE  caller' \in [Callers -> Call]
<1>1. [caller[c] EXCEPT !.stage = stage] \in Call
  BY DEF Call, AttemptsLeft, RetryWorked
<1> QED
  BY <1>1 DEF Goto

LEMMA LeaveFacts ==
  ASSUME caller \in [Callers -> Call], NEW c \in Callers, Leave(c)
  PROVE  caller' \in [Callers -> Call]
<1>1. [stage |-> "idle", attempt |-> 0] \in Call
  BY DEF Call, Stages
<1> QED
  BY <1>1 DEF Leave

LEMMA InitTypeOK == Init => TypeOK
<1> SUFFICES ASSUME Init PROVE TypeOK
  OBVIOUS
<1>1. [stage |-> "idle", attempt |-> 0] \in Call
  BY DEF Call, Stages
<1> QED
  BY <1>1 DEF Init, TypeOK, NoMetrics, Metrics, Breaker, Never

LEMMA NextTypeOK == TypeOK /\ [Next]_vars => TypeOK'
<1> SUFFICES ASSUME TypeOK, [Next]_vars PROVE TypeOK'
  OBVIOUS
<1> USE DEF TypeOK
<1>1. ASSUME NEW c \in Callers, Admit(c) PROVE TypeOK'
  <2>1. caller' \in [Callers -> Call]
    BY <1>1, GotoFacts DEF Admit, Stages
  <2> QED
    BY <1>1, <2>1, BreakerFacts DEF Admit
<1>2. ASSUME NEW c \in Callers, Block(c) PROVE TypeOK'
  BY <1>2 DEF Block, Metrics
<1>3. ASSUME NEW c \in Callers, Answer(c) PROVE TypeOK'
  <2>1. caller' \in [Callers -> Call]
    BY <1>3, GotoFacts DEF Answer, Succeed, Fail, Stages
  <2> QED
    BY <1>3, <2>1 DEF Answer, Succeed, Fail
<1>4. ASSUME NEW c \in Callers, Wake(c) PROVE TypeOK'
  <2>1. [stage |-> "trying", attempt |-> NextAttempt(c)] \in Call
    BY <1>4 DEF Wake, At, Call, Stages, NextAttempt
  <2> QED
    BY <1>4, <2>1 DEF Wake
<1>5. ASSUME NEW c \in Callers, RecordSuccess(c) PROVE TypeOK'
  <2>1. caller' \in [Callers -> Call]
    BY <1>5, GotoFacts, LeaveFacts DEF RecordSuccess, Stages
  <2> QED
    BY <1>5, <2>1, BreakerFacts DEF RecordSuccess
<1>6. ASSUME NEW c \in Callers, TallySuccess(c) PROVE TypeOK'
  <2>1. caller[c].attempt \in Nat
    BY DEF Call
  <2>2. /\ metrics.total_retries + caller[c].attempt \in Nat
        /\ metrics.successful_retries + 1 \in Nat
    BY <2>1 DEF Metrics
  <2>3. WithRetries(c) \in Metrics
    BY <2>2 DEF WithRetries, Metrics
  <2>4. metrics' \in Metrics
    BY <1>6, <2>3 DEF TallySuccess
  <2> QED
    BY <1>6, <2>4, LeaveFacts DEF TallySuccess
<1>7. ASSUME NEW c \in Callers, RecordFailure(c) PROVE TypeOK'
  <2>1. caller' \in [Callers -> Call]
    BY <1>7, GotoFacts DEF RecordFailure, Stages
  <2> QED
    BY <1>7, <2>1, BreakerFacts DEF RecordFailure
<1>8. ASSUME NEW c \in Callers, TallyFailure(c) PROVE TypeOK'
  BY <1>8, LeaveFacts DEF TallyFailure, Metrics
<1>9. CASE ResetMetrics
  BY <1>9 DEF ResetMetrics, NoMetrics, Metrics
<1>10. CASE Tick
  BY <1>10 DEF Tick, Breaker
<1>11. CASE UNCHANGED vars
  BY <1>11 DEF vars
<1> QED
  BY <1>1, <1>2, <1>3, <1>4, <1>5, <1>6, <1>7, <1>8, <1>9, <1>10, <1>11 DEF Next, CallStep

\* Every variable keeps its type; no call starts more than max_attempts rounds
\* of the loop (retry.rs 294-383).
THEOREM TypeCorrect == Spec => []TypeOK
<1>1. TypeOK /\ [Next]_vars => TypeOK'
  BY NextTypeOK
<1> QED
  BY InitTypeOK, <1>1, PTL DEF Spec

-----------------------------------------------------------------------------
(* The breaker *)

LEMMA NextBreaker ==
  ASSUME TypeOK, BreakerConsistent, HalfOpenHasProbe, [Next]_vars
  PROVE  BreakerConsistent' /\ HalfOpenHasProbe'
<1> USE DEF TypeOK
<1>1. ASSUME NEW c \in Callers, Admit(c)
      PROVE  BreakerConsistent' /\ HalfOpenHasProbe'
  <2>1. BreakerConsistent'
    BY <1>1 DEF Admit, AfterAllow, Allows, Recovered, BreakerConsistent, Breaker, Never
  <2>2. caller'[c].stage \in Undecided
    BY <1>1 DEF Admit, Goto, Call, Undecided
  <2> QED
    BY <2>1, <2>2 DEF HalfOpenHasProbe
<1>2. ASSUME NEW c \in Callers, Block(c)
      PROVE  BreakerConsistent' /\ HalfOpenHasProbe'
  BY <1>2 DEF Block, BreakerConsistent, HalfOpenHasProbe
<1>3. ASSUME NEW c \in Callers, Answer(c) \/ Wake(c)
      PROVE  BreakerConsistent' /\ HalfOpenHasProbe'
  <2>1. UNCHANGED breaker
    BY <1>3 DEF Answer, Succeed, Fail, Wake
  <2>2. \A d \in Callers : caller[d].stage \in Undecided => caller'[d].stage \in Undecided
    BY <1>3 DEF Answer, Succeed, Fail, Wake, Goto, Call, Undecided
  <2> QED
    BY <2>1, <2>2 DEF BreakerConsistent, HalfOpenHasProbe
<1>4. ASSUME NEW c \in Callers, RecordSuccess(c) \/ RecordFailure(c)
      PROVE  BreakerConsistent' /\ HalfOpenHasProbe'
  <2>1. breaker' = AfterSuccess(breaker) \/ breaker' = AfterFailure(breaker)
    BY <1>4 DEF RecordSuccess, RecordFailure
  <2>2. breaker'.state # "halfopen"
    BY <2>1 DEF AfterSuccess, AfterFailure, Breaker
  <2>3. BreakerConsistent'
    BY <2>1, <2>2 DEF AfterSuccess, AfterFailure, ReachesThreshold, Breaker, BreakerConsistent, Never
  <2> QED
    BY <2>2, <2>3 DEF HalfOpenHasProbe
<1>5. ASSUME NEW c \in Callers, TallySuccess(c) \/ TallyFailure(c)
      PROVE  BreakerConsistent' /\ HalfOpenHasProbe'
  <2>1. UNCHANGED breaker /\ caller[c].stage \notin Undecided
    BY <1>5 DEF TallySuccess, TallyFailure, At, Undecided
  <2>2. \A d \in Callers : caller[d].stage \in Undecided => caller'[d].stage \in Undecided
    BY <1>5, <2>1 DEF TallySuccess, TallyFailure, Leave
  <2> QED
    BY <2>1, <2>2 DEF BreakerConsistent, HalfOpenHasProbe
<1>6. CASE ResetMetrics \/ UNCHANGED vars
  BY <1>6 DEF ResetMetrics, vars, BreakerConsistent, HalfOpenHasProbe
<1>7. CASE Tick
  <2>1. breaker'.state = breaker.state /\ breaker'.failures = breaker.failures
        /\ breaker'.last \in 0..RecoveryTimeout /\ breaker'.last >= breaker.last
    BY <1>7 DEF Tick, Breaker
  <2>2. HalfOpenHasProbe'
    BY <1>7, <2>1 DEF Tick, HalfOpenHasProbe
  <2> QED
    BY <2>1, <2>2 DEF BreakerConsistent, Breaker, Never
<1> QED
  BY <1>1, <1>2, <1>3, <1>4, <1>5, <1>6, <1>7 DEF Next, CallStep

LEMMA BreakerInv == Spec => [](BreakerConsistent /\ HalfOpenHasProbe)
<1>1. Init => BreakerConsistent /\ HalfOpenHasProbe
  BY DEF Init, BreakerConsistent, HalfOpenHasProbe
<1>2. TypeOK /\ (BreakerConsistent /\ HalfOpenHasProbe) /\ [Next]_vars
        => (BreakerConsistent /\ HalfOpenHasProbe)'
  BY NextBreaker
<1> QED
  BY <1>1, <1>2, TypeCorrect, PTL DEF Spec

\* Whatever calls from before the breaker opened still report, a closed breaker
\* is below its threshold, one that is not closed can recover, and a half-open
\* one has waited (retry.rs 83-143).
THEOREM BreakerAgrees == Spec => []BreakerConsistent
BY BreakerInv, PTL

\* A half-open breaker never waits for a call that is not there (retry.rs 100).
THEOREM ProbeUnderWay == Spec => []HalfOpenHasProbe
BY BreakerInv, PTL

-----------------------------------------------------------------------------
(* The metrics *)

\* One more retried success, and what it adds.
LEMMA OneMore ==
  ASSUME NEW n \in Nat, NEW total \in Nat, NEW done \in Nat, NEW attempt \in Nat,
         total <= done * n, attempt <= n
  PROVE  total + attempt <= (done + 1) * n
<1>1. (done + 1) * n = done * n + n
  OBVIOUS
<1>2. done * n \in Nat
  OBVIOUS
<1> QED
  BY <1>1, <1>2

LEMMA NextRetries == TypeOK /\ RetriesAddUp /\ [Next]_vars => RetriesAddUp'
<1> SUFFICES ASSUME TypeOK, RetriesAddUp, [Next]_vars PROVE RetriesAddUp'
  OBVIOUS
<1> USE DEF TypeOK
<1>1. ASSUME NEW c \in Callers, TallySuccess(c) PROVE RetriesAddUp'
  <2>1. /\ caller[c].attempt \in Nat /\ caller[c].attempt >= 1
        /\ caller[c].attempt <= MaxAttempts - 1 /\ MaxAttempts - 1 \in Nat
    BY <1>1 DEF TallySuccess, At, Call
  <2>2. /\ metrics'.total_retries = metrics.total_retries + caller[c].attempt
        /\ metrics'.successful_retries = metrics.successful_retries + 1
        /\ metrics.total_retries \in Nat /\ metrics.successful_retries \in Nat
    BY <1>1 DEF TallySuccess, WithRetries, Metrics
  <2>3. metrics'.successful_retries <= metrics'.total_retries
    BY <2>1, <2>2 DEF RetriesAddUp
  <2>4. metrics'.total_retries <= metrics'.successful_retries * (MaxAttempts - 1)
    BY <2>1, <2>2, OneMore DEF RetriesAddUp
  <2> QED
    BY <2>3, <2>4 DEF RetriesAddUp
<1>2. CASE ResetMetrics
  BY <1>2 DEF ResetMetrics, NoMetrics, RetriesAddUp
<1>3. CASE /\ metrics'.total_retries = metrics.total_retries
           /\ metrics'.successful_retries = metrics.successful_retries
  BY <1>3 DEF RetriesAddUp
<1>4. ASSUME NEW c \in Callers, Block(c) \/ TallyFailure(c)
      PROVE  /\ metrics'.total_retries = metrics.total_retries
             /\ metrics'.successful_retries = metrics.successful_retries
  BY <1>4 DEF Block, TallyFailure, Metrics
<1>5. ASSUME NEW c \in Callers,
             Admit(c) \/ Answer(c) \/ Wake(c) \/ RecordSuccess(c) \/ RecordFailure(c)
      PROVE  UNCHANGED metrics
  BY <1>5 DEF Admit, Answer, Succeed, Fail, Wake, RecordSuccess, RecordFailure
<1>6. CASE Tick \/ UNCHANGED vars
  BY <1>6 DEF Tick, vars, RetriesAddUp
<1> QED
  BY <1>1, <1>2, <1>3, <1>4, <1>5, <1>6 DEF Next, CallStep

\* The retry metrics stay in proportion through every interleaving of calls
\* and resets (retry.rs 308-315, 418-421).
THEOREM RetriesProportionate == Spec => []RetriesAddUp
<1>1. Init => RetriesAddUp
  BY DEF Init, NoMetrics, RetriesAddUp
<1> QED
  BY <1>1, NextRetries, TypeCorrect, PTL DEF Spec

-----------------------------------------------------------------------------
(* Opening *)

\* The breaker counts failures that were reported one after the other.
CountsStreak == breaker.failures <= streak

LEMMA NextStreak ==
  ASSUME TypeOK, CountsStreak, [Next]_vars
  PROVE  /\ CountsStreak'
         /\ breaker.state = "closed" /\ breaker'.state # "closed" =>
              breaker'.state = "open" /\ streak' >= FailureThreshold
<1> USE DEF TypeOK, CountsStreak
<1> DEFINE Opens == breaker'.state = "open" /\ streak' >= FailureThreshold
<1>1. ASSUME NEW c \in Callers, RecordFailure(c)
      PROVE  CountsStreak' /\ (breaker.state = "closed" /\ breaker'.state # "closed" => Opens)
  <2>1. breaker' = AfterFailure(breaker) /\ streak' = streak + 1
    BY <1>1 DEF RecordFailure
  <2>2. breaker.failures \in Nat /\ breaker'.failures = breaker.failures + 1
    BY <2>1 DEF AfterFailure, Breaker
  <2>3. breaker.state = "closed" /\ breaker'.state # "closed" =>
          breaker'.state = "open" /\ breaker.failures + 1 >= FailureThreshold
    BY <2>1, <2>2 DEF AfterFailure, ReachesThreshold
  <2> QED
    BY <2>1, <2>2, <2>3
<1>2. ASSUME NEW c \in Callers, RecordSuccess(c)
      PROVE  CountsStreak' /\ (breaker.state = "closed" => breaker'.state = "closed")
  BY <1>2 DEF RecordSuccess, AfterSuccess, Breaker
<1>3. ASSUME NEW c \in Callers, Admit(c)
      PROVE  CountsStreak' /\ (breaker.state = "closed" => breaker'.state = "closed")
  BY <1>3 DEF Admit, AfterAllow, Breaker
<1>4. CASE Tick
  BY <1>4 DEF Tick, Breaker
<1>5. ASSUME NEW c \in Callers,
             Block(c) \/ Answer(c) \/ Wake(c) \/ TallySuccess(c) \/ TallyFailure(c)
      PROVE  UNCHANGED <<breaker, streak>>
  BY <1>5 DEF Block, Answer, Succeed, Fail, Wake, TallySuccess, TallyFailure
<1>6. CASE UNCHANGED <<breaker, streak>>
  BY <1>6
<1> QED
  BY <1>1, <1>2, <1>3, <1>4, <1>5, <1>6 DEF Next, CallStep, ResetMetrics, vars

\* A closed breaker opens only after a streak of failures, whichever calls reported
\* them and in whatever order (retry.rs 34, 113-143).
THEOREM OpensOnStreak == Spec => OpensAfterStreak
<1>1. Init => CountsStreak
  BY DEF Init, CountsStreak
<1>2. TypeOK /\ CountsStreak /\ [Next]_vars => CountsStreak'
  BY NextStreak
<1>3. Spec => []CountsStreak
  BY <1>1, <1>2, TypeCorrect, PTL DEF Spec
<1>4. TypeOK /\ CountsStreak /\ [Next]_vars =>
        [breaker.state = "closed" /\ breaker'.state # "closed" =>
           breaker'.state = "open" /\ streak' >= FailureThreshold]_vars
  BY NextStreak
<1> QED
  BY <1>3, <1>4, TypeCorrect, PTL DEF Spec, OpensAfterStreak

-----------------------------------------------------------------------------
(* Coming to an end.  This is the safety half of CallEnds: what is left to its *)
(* fairness is only that the steps of a call are taken.                        *)

\* More steps than a call of execute still can take: two for each round it has
\* left, the report to the breaker, and the metrics.
StepsLeft(c) ==
  CASE At(c, "trying")                          -> 2 * (MaxAttempts - caller[c].attempt) + 3
    [] At(c, "sleeping")                        -> 2 * (MaxAttempts - caller[c].attempt) + 2
    [] caller[c].stage \in {"succeeded", "exhausted"} -> 2
    [] caller[c].stage \in {"tallying", "failed"}     -> 1
    [] At(c, "idle")                            -> 0

StepsBounded == \A c \in Callers : StepsLeft(c) \in 0..2 * MaxAttempts + 3

StepsRunOut ==
  [][\A c \in Callers :
       /\ CallStep(c) => StepsLeft(c)' < StepsLeft(c)
       /\ ~At(c, "idle") => caller'[c] = caller[c] \/ StepsLeft(c)' < StepsLeft(c)]_vars

LEMMA StepsFacts ==
  ASSUME TypeOK, NEW c \in Callers
  PROVE  /\ At(c, "trying") => StepsLeft(c) = 2 * (MaxAttempts - caller[c].attempt) + 3
         /\ At(c, "sleeping") => StepsLeft(c) = 2 * (MaxAttempts - caller[c].attempt) + 2
         /\ caller[c].stage \in {"succeeded", "exhausted"} => StepsLeft(c) = 2
         /\ caller[c].stage \in {"tallying", "failed"} => StepsLeft(c) = 1
         /\ At(c, "idle") => StepsLeft(c) = 0
         /\ caller[c].attempt \in 0..MaxAttempts /\ caller[c].stage \in Stages
<1>1. caller[c].attempt \in 0..MaxAttempts /\ caller[c].stage \in Stages
  BY DEF TypeOK, Call
<1> QED
  BY <1>1 DEF StepsLeft, At

LEMMA StepsAreBounded == TypeOK => StepsBounded
<1> SUFFICES ASSUME TypeOK, NEW c \in Callers PROVE StepsLeft(c) \in 0..2 * MaxAttempts + 3
  BY DEF StepsBounded
<1>1. caller[c].attempt \in 0..MaxAttempts /\ caller[c].stage \in Stages
  BY StepsFacts
<1> QED
  BY <1>1, StepsFacts DEF Stages, At

\* What a step of a call does to its locals.
LEMMA CallMoves ==
  ASSUME TypeOK, NEW c \in Callers, CallStep(c)
  PROVE  /\ StepsLeft(c)' < StepsLeft(c)
         /\ \A d \in Callers \ {c} : caller'[d] = caller[d]
<1> USE DEF TypeOK
<1>0. /\ caller[c] \in [stage : Stages, attempt : Nat]
      /\ caller' \in [Callers -> Call]
  BY NextTypeOK DEF Call, Next
<1>1. TypeOK'
  BY NextTypeOK DEF Next
<1>2. ASSUME NEW stage \in Stages, Goto(c, stage)
      PROVE  /\ caller'[c].stage = stage /\ caller'[c].attempt = caller[c].attempt
             /\ \A d \in Callers \ {c} : caller'[d] = caller[d]
  BY <1>0, <1>2 DEF Goto
<1>3. ASSUME Leave(c)
      PROVE  /\ caller'[c].stage = "idle"
             /\ \A d \in Callers \ {c} : caller'[d] = caller[d]
  BY <1>3 DEF Leave
<1> HIDE DEF TypeOK
<1>4. caller[c].attempt \in 0..MaxAttempts
  BY StepsFacts
<1>5. CASE Answer(c)
  <2>1. At(c, "trying")
    BY <1>5 DEF Answer, Succeed, Fail
  <2>2. Goto(c, "succeeded") \/ Goto(c, "exhausted") \/ Goto(c, "sleeping")
    BY <1>5 DEF Answer, Succeed, Fail
  <2>3. /\ caller'[c].stage \in {"succeeded", "exhausted", "sleeping"}
        /\ caller'[c].attempt = caller[c].attempt
        /\ \A d \in Callers \ {c} : caller'[d] = caller[d]
    BY <1>2, <2>2 DEF Stages
  <2>4. StepsLeft(c) = 2 * (MaxAttempts - caller[c].attempt) + 3
    BY <2>1, StepsFacts
  <2>5. StepsLeft(c)' = 2 \/ StepsLeft(c)' = 2 * (MaxAttempts - caller'[c].attempt) + 2
    BY <1>1, <2>3 DEF StepsLeft, At
  <2> QED
    BY <1>4, <2>3, <2>4, <2>5
<1>6. CASE Wake(c)
  <2>1. /\ At(c, "sleeping")
        /\ caller'[c].stage = "trying" /\ caller'[c].attempt = caller[c].attempt + 1
        /\ \A d \in Callers \ {c} : caller'[d] = caller[d]
    BY <1>6 DEF Wake, NextAttempt, TypeOK
  <2>2. StepsLeft(c) = 2 * (MaxAttempts - caller[c].attempt) + 2
    BY <2>1, StepsFacts
  <2>3. StepsLeft(c)' = 2 * (MaxAttempts - caller'[c].attempt) + 3
    BY <2>1 DEF StepsLeft, At
  <2> QED
    BY <1>4, <2>1, <2>2, <2>3
<1>7. CASE RecordSuccess(c) \/ RecordFailure(c)
  <2>1. caller[c].stage \in {"succeeded", "exhausted"}
    BY <1>7 DEF RecordSuccess, RecordFailure, At
  <2>2. Goto(c, "tallying") \/ Goto(c, "failed") \/ Leave(c)
    BY <1>7 DEF RecordSuccess, RecordFailure
  <2>3. /\ caller'[c].stage \in {"tallying", "failed", "idle"}
        /\ \A d \in Callers \ {c} : caller'[d] = caller[d]
    BY <1>2, <1>3, <2>2 DEF Stages
  <2>4. StepsLeft(c) = 2 /\ StepsLeft(c)' \in {0, 1}
    BY <2>1, <2>3, StepsFacts DEF StepsLeft, At
  <2> QED
    BY <2>3, <2>4
<1>8. CASE TallySuccess(c) \/ TallyFailure(c)
  <2>1. caller[c].stage \in {"tallying", "failed"} /\ Leave(c)
    BY <1>8 DEF TallySuccess, TallyFailure, At
  <2>2. StepsLeft(c) = 1 /\ StepsLeft(c)' = 0
    BY <1>3, <2>1, StepsFacts DEF StepsLeft, At
  <2> QED
    BY <1>3, <2>1, <2>2
<1> QED
  BY <1>5, <1>6, <1>7, <1>8 DEF CallStep

\* Every step of a call of execute brings it closer to its end, and nothing another
\* call, the breaker or a reset does takes it further away: a call takes no more than
\* 2 * max_attempts + 3 steps (retry.rs 294-383).
THEOREM CallsRunOut == Spec => []StepsBounded /\ StepsRunOut
<1> DEFINE RunOut == \A c \in Callers :
              /\ CallStep(c) => StepsLeft(c)' < StepsLeft(c)
              /\ ~At(c, "idle") => caller'[c] = caller[c] \/ StepsLeft(c)' < StepsLeft(c)
<1>1. TypeOK /\ [Next]_vars => RunOut
  <2> SUFFICES ASSUME TypeOK, [Next]_vars, NEW c \in Callers, ~At(c, "idle")
               PROVE  caller'[c] = caller[c] \/ StepsLeft(c)' < StepsLeft(c)
    BY CallMoves DEF CallStep, Answer, Succeed, Fail, Wake, RecordSuccess, TallySuccess,
                     RecordFailure, TallyFailure, At
  <2>1. ASSUME NEW d \in Callers, Admit(d) \/ Block(d) PROVE caller'[c] = caller[c]
    BY <2>1 DEF Admit, Block, Goto, At, TypeOK
  <2>2. ASSUME NEW d \in Callers, CallStep(d)
        PROVE  caller'[c] = caller[c] \/ StepsLeft(c)' < StepsLeft(c)
    BY <2>2, CallMoves
  <2>3. CASE ResetMetrics \/ Tick \/ UNCHANGED vars
    BY <2>3 DEF ResetMetrics, Tick, vars
  <2> QED
    BY <2>1, <2>2, <2>3 DEF Next
<1> QED
  BY <1>1, StepsAreBounded, TypeCorrect, PTL DEF Spec, StepsRunOut

=============================================================================

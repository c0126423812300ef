--------------------------- MODULE ApiClientProofs ---------------------------
(***************************************************************************)
(* Theorems about the API client, for any number of callers, any burst and *)
(* any retry configuration.  What the executor guarantees alone it         *)
(* guarantees under the client, because the client runs it: its own        *)
(* theorems are used, not repeated.                                        *)
(***************************************************************************)
EXTENDS ApiClient, FiniteSetTheorems, TLAPS

USE ConfigAssumption

\* The executor and its theorems.
Alone == INSTANCE RetryExecutorProofs

-----------------------------------------------------------------------------
(* The client runs the executor *)

LEMMA SameConfig == Alone!ConfigAssumption
BY DEF Executor!ConfigAssumption, Alone!ConfigAssumption

LEMMA SameInit == Executor!Init => Alone!Init
BY DEF Executor!Init, Executor!Never, Executor!NoMetrics,
       Alone!Init, Alone!Never, Alone!NoMetrics

LEMMA SameNext == Executor!Next <=> Alone!Next
BY Zenon
   DEF Executor!Next, Executor!CallStep, Executor!Admit, Executor!Block, Executor!Answer,
       Executor!Succeed, Executor!Fail, Executor!Wake, Executor!RecordSuccess,
       Executor!TallySuccess, Executor!RecordFailure, Executor!TallyFailure,
       Executor!ResetMetrics, Executor!Tick, Executor!At, Executor!Goto, Executor!Leave,
       Executor!Recovered, Executor!Allows, Executor!ReachesThreshold, Executor!AfterAllow,
       Executor!AfterSuccess, Executor!AfterFailure, Executor!AttemptsLeft,
       Executor!NextAttempt, Executor!RetryWorked, Executor!WithRetries, Executor!NoMetrics,
       Executor!Never, Executor!Transient, Executor!Permanent,
       Alone!Next, Alone!CallStep, Alone!Admit, Alone!Block, Alone!Answer,
       Alone!Succeed, Alone!Fail, Alone!Wake, Alone!RecordSuccess,
       Alone!TallySuccess, Alone!RecordFailure, Alone!TallyFailure,
       Alone!ResetMetrics, Alone!Tick, Alone!At, Alone!Goto, Alone!Leave,
       Alone!Recovered, Alone!Allows, Alone!ReachesThreshold, Alone!AfterAllow,
       Alone!AfterSuccess, Alone!AfterFailure, Alone!AttemptsLeft,
       Alone!NextAttempt, Alone!RetryWorked, Alone!WithRetries, Alone!NoMetrics,
       Alone!Never, Alone!Transient, Alone!Permanent

LEMMA ErrorFacts ==
  /\ DOMAIN ErrorOf = Replies \ {"success", "other"}
  /\ \A r \in DOMAIN ErrorOf : ErrorOf[r] \in Executor!Transient \cup Executor!Permanent
BY DEF ErrorOf, Replies, Executor!Transient, Executor!Permanent

LEMMA NextExecutor == [Next]_vars => [Executor!Next]_(Executor!vars)
<1> SUFFICES ASSUME [Next]_vars PROVE [Executor!Next]_(Executor!vars)
  OBVIOUS
<1>1. ASSUME NEW c \in Callers, Request(c) PROVE Executor!Next
  BY <1>1 DEF Request, Executor!Next
<1>2. ASSUME NEW c \in Callers, ReceiveError(c) PROVE Executor!Next
  <2>1. PICK r \in Replies \ Delivered : Executor!Fail(c, ErrorOf[r])
    BY <1>2 DEF ReceiveError
  <2>2. ErrorOf[r] \in Executor!Transient \cup Executor!Permanent
    BY ErrorFacts DEF Delivered
  <2> QED
    BY <2>1, <2>2 DEF Executor!Next, Executor!CallStep, Executor!Answer
<1>3. ASSUME NEW c \in Callers, Return(c) \/ Conclude(c) \/ Wake(c) PROVE Executor!Next
  BY <1>3 DEF Return, Conclude, Wake, Executor!Next, Executor!CallStep, Executor!Answer
<1>4. ASSUME NEW c \in Callers, Send(c) \/ Receive(c) \/ Count(c) PROVE UNCHANGED Executor!vars
  BY <1>4 DEF Send, Receive, Count, executor, Executor!vars
<1>5. CASE ResetMetrics \/ UNCHANGED vars
  BY <1>5 DEF ResetMetrics, vars, executor, Executor!vars
<1>6. CASE ResetRetryMetrics \/ Tick
  BY <1>6 DEF ResetRetryMetrics, Tick, Executor!Next
<1> QED
  BY <1>1, <1>2, <1>3, <1>4, <1>5, <1>6 DEF Next, CallStep

\* Every step of the client is one of the executor or leaves it alone: what is
\* done with permits, responses and metrics (api.rs 169-382) does not interfere.
THEOREM RunsExecutor == Spec => Executor!Spec
<1>1. Init => Executor!Init
  BY DEF Init
<1> QED
  BY <1>1, NextExecutor, PTL DEF Spec, Executor!Spec

LEMMA RunsAlone == Spec => Alone!Spec
<1>1. [Executor!Next]_(Executor!vars) => [Alone!Next]_(Alone!vars)
  BY SameNext DEF Executor!vars, Alone!vars
<1> QED
  BY <1>1, SameInit, RunsExecutor, PTL DEF Executor!Spec, Alone!Spec

\* Under the client, too, the fields of the breaker agree in every state: it
\* never blocks for ever and never probes before its time (retry.rs 83-143).
THEOREM BreakerAgreesInClient == Spec => []Executor!BreakerConsistent
<1>1. Alone!BreakerConsistent => Executor!BreakerConsistent
  BY DEF Alone!BreakerConsistent, Executor!BreakerConsistent, Alone!Never, Executor!Never
<1> QED
  BY <1>1, SameConfig, RunsAlone, Alone!BreakerAgrees, PTL

\* So does what the executor's module shows of probes and retries: a half-open
\* breaker waits for a call of the client that will decide it, and the retries
\* counted are as many as the calls that took them can have taken (retry.rs 100,
\* 308-315).
THEOREM ProbesAndRetriesInClient == Spec => [](Executor!HalfOpenHasProbe /\ Executor!RetriesAddUp)
<1>1. Alone!HalfOpenHasProbe => Executor!HalfOpenHasProbe
  BY DEF Alone!HalfOpenHasProbe, Executor!HalfOpenHasProbe, Alone!Undecided, Executor!Undecided
<1>2. Alone!RetriesAddUp => Executor!RetriesAddUp
  BY DEF Alone!RetriesAddUp, Executor!RetriesAddUp
<1> QED
  BY <1>1, <1>2, SameConfig, RunsAlone, Alone!ProbeUnderWay, Alone!RetriesProportionate, PTL

\* And the breaker opens for a client, too, only after a streak of failed calls
\* (retry.rs 34, 113-143).
THEOREM OpensOnStreakInClient == Spec => Executor!OpensAfterStreak
<1> DEFINE Opens == breaker.state = "closed" /\ breaker'.state # "closed" =>
                      breaker'.state = "open" /\ streak' >= FailureThreshold
<1>1. [Opens]_(Alone!vars) => [Opens]_(Executor!vars)
  BY DEF Alone!vars, Executor!vars
<1> QED
  BY <1>1, SameConfig, RunsAlone, Alone!OpensOnStreak, PTL
     DEF Alone!OpensAfterStreak, Executor!OpensAfterStreak

-----------------------------------------------------------------------------
(* The client uses the limiter *)

\* Each step takes a permit when one is free, drops one it has, or leaves them alone:
\* the client is a user of the pool that the limiter implements (api.rs 244,
\* rate_limiter.rs 111-139).
THEOREM UsesPool == Spec => Pool!Spec
<1>1. Init => Pool!Init
  BY DEF Init
<1>2. [Next]_vars => [Pool!Next]_holders
  <2> SUFFICES ASSUME [Next]_vars PROVE Pool!Next \/ UNCHANGED holders
    OBVIOUS
  <2>1. ASSUME NEW c \in Callers, Send(c) \/ ReceiveError(c) \/ Return(c) PROVE Pool!Next
    BY <2>1 DEF Send, ReceiveError, Return, DropPermit, Pool!Next
  <2>2. ASSUME NEW c \in Callers, Request(c) \/ Receive(c) \/ Count(c) \/ Conclude(c) \/ Wake(c)
        PROVE  UNCHANGED holders
    BY <2>2 DEF Request, Receive, Count, Conclude, Wake
  <2>3. CASE ResetMetrics \/ ResetRetryMetrics \/ Tick \/ UNCHANGED vars
    BY <2>3 DEF ResetMetrics, ResetRetryMetrics, Tick, vars
  <2> QED
    BY <2>1, <2>2, <2>3 DEF Next, CallStep
<1> QED
  BY <1>1, <1>2, PTL DEF Spec, Pool!Spec

-----------------------------------------------------------------------------
(* Types *)

Locals == [stage : Executor!Stages, attempt : Nat]

LEMMA ExecutorType == Spec => []Executor!TypeOK
<1>1. Alone!TypeOK => Executor!TypeOK
  BY DEF Executor!TypeOK, Executor!Never, Executor!Breaker, Executor!Metrics, Executor!Call,
         Executor!Stages,
         Alone!TypeOK, Alone!Never, Alone!Breaker, Alone!Metrics, Alone!Call, Alone!Stages
<1> QED
  BY <1>1, SameConfig, RunsAlone, Alone!TypeCorrect, PTL

ClientTypeOK ==
  /\ holders \subseteq Callers
  /\ reply \in [Callers -> Replies \cup {"none"}]
  /\ counts \in [successful : Nat, failed : Nat]
  /\ tracking \subseteq Callers /\ tracked \in Nat
  /\ result \in [Callers -> Results]

LEMMA NextClientType == ClientTypeOK /\ [Next]_vars => ClientTypeOK'
<1> SUFFICES ASSUME ClientTypeOK, [Next]_vars PROVE ClientTypeOK'
  OBVIOUS
<1> USE DEF ClientTypeOK, records
<1>1. ASSUME NEW c \in Callers, Request(c) PROVE ClientTypeOK'
  BY <1>1 DEF Request, Results
<1>2. ASSUME NEW c \in Callers, Send(c) PROVE ClientTypeOK'
  BY <1>2 DEF Send, Pool!Grant
<1>3. ASSUME NEW c \in Callers, ReceiveError(c) PROVE ClientTypeOK'
  BY <1>3 DEF ReceiveError, DropPermit, Pool!Release
<1>4. ASSUME NEW c \in Callers, Receive(c) PROVE ClientTypeOK'
  BY <1>4 DEF Receive, Delivered, Replies
<1>5. ASSUME NEW c \in Callers, Count(c) \/ Return(c) PROVE ClientTypeOK'
  BY <1>5 DEF Count, Counted, Return, Tracked, DropPermit, Pool!Release
<1>6. ASSUME NEW c \in Callers, Conclude(c) PROVE ClientTypeOK'
  BY <1>6 DEF Conclude, Flattened, Results
<1>7. ASSUME NEW c \in Callers, Wake(c) PROVE ClientTypeOK'
  BY <1>7 DEF Wake
<1>8. CASE ResetMetrics \/ ResetRetryMetrics \/ Tick \/ UNCHANGED vars
  BY <1>8 DEF ResetMetrics, ResetRetryMetrics, Tick, vars, NoCounts
<1> QED
  BY <1>1, <1>2, <1>3, <1>4, <1>5, <1>6, <1>7, <1>8 DEF Next, CallStep

\* Every variable keeps its type, the executor's included: no call makes more
\* than max_attempts attempts (retry.rs 294).
THEOREM TypeCorrect == Spec => []TypeOK
<1>1. Init => ClientTypeOK
  BY DEF Init, ClientTypeOK, Pool!Init, Results, NoCounts
<1>2. Executor!TypeOK /\ ClientTypeOK => TypeOK
  BY DEF TypeOK, ClientTypeOK
<1> QED
  BY <1>1, <1>2, NextClientType, ExecutorType, PTL DEF Spec

-----------------------------------------------------------------------------
(* Permits and replies *)

\* A step of a call leaves the other calls where they are.
LEMMA OneCaller ==
  ASSUME TypeOK, NEW c \in Callers, Request(c) \/ CallStep(c)
  PROVE  \A d \in Callers \ {c} : caller'[d] = caller[d] /\ reply'[d] = reply[d]
                                  /\ result'[d] = result[d] /\ (d \in holders' <=> d \in holders)
                                  /\ (d \in tracking' <=> d \in tracking)
<1>1. \A d \in Callers \ {c} : caller'[d] = caller[d]
  BY DEF TypeOK, Executor!TypeOK, Request, CallStep, Send, ReceiveError, Receive, Count, Return,
         Conclude, Wake, executor, Executor!Admit, Executor!Block, Executor!Fail,
         Executor!Succeed, Executor!Wake, Executor!RecordSuccess, Executor!TallySuccess,
         Executor!RecordFailure, Executor!TallyFailure, Executor!Goto, Executor!Leave
<1>2. \A d \in Callers \ {c} : /\ reply'[d] = reply[d] /\ result'[d] = result[d]
                               /\ d \in holders' <=> d \in holders
                               /\ d \in tracking' <=> d \in tracking
  BY DEF TypeOK, Request, CallStep, Send, ReceiveError, Receive, Count, Return, Conclude, Wake,
         records, Pool!Grant, DropPermit, Pool!Release
<1> QED
  BY <1>1, <1>2

LEMMA HoldersFinite == ASSUME TypeOK PROVE IsFiniteSet(holders) /\ Cardinality(holders) \in Nat
BY FS_Subset, FS_CardinalityType DEF TypeOK

\* One caller more and one less.
LEMMA OneMore ==
  ASSUME NEW S, IsFiniteSet(S), NEW c, c \notin S
  PROVE  Cardinality(S \cup {c}) = Cardinality(S) + 1
BY FS_AddElement

LEMMA OneLess ==
  ASSUME NEW S, IsFiniteSet(S), NEW c, c \in S
  PROVE  Cardinality(S \ {c}) = Cardinality(S) - 1 /\ Cardinality(S \ {c}) \in Nat
<1>1. IsFiniteSet(S \ {c}) /\ Cardinality(S \ {c}) = Cardinality(S) - 1
  BY FS_RemoveElement
<1> QED
  BY <1>1, FS_CardinalityType

\* The parts of the two invariants that are about one call.
PermitInv(c) ==
  /\ c \in holders => Executor!At(c, "trying") /\ reply[c] \notin DOMAIN ErrorOf
  /\ Executor!At(c, "trying") /\ reply[c] \in Responses => c \in holders
  /\ c \in tracking => c \in holders /\ reply[c] \in Responses

AnswerInv(c) ==
  /\ Executor!At(c, "sleeping") =>
       reply[c] \in DOMAIN ErrorOf /\ ErrorOf[reply[c]] \in Executor!Transient
  /\ caller[c].stage \in {"exhausted", "failed"} /\ MaxAttempts > 0 =>
       /\ reply[c] \in DOMAIN ErrorOf
       /\ ErrorOf[reply[c]] \in Executor!Permanent \/ AttemptsUsed(c)
  /\ caller[c].stage \in {"succeeded", "tallying"} => reply[c] \in Responses
  /\ Executor!At(c, "idle") /\ result[c] = "ok" => reply[c] \in Responses

LEMMA NextCall ==
  ASSUME TypeOK, NEW c \in Callers, PermitInv(c), AnswerInv(c), Request(c) \/ CallStep(c)
  PROVE  PermitInv(c)' /\ AnswerInv(c)'
<1> USE DEF PermitInv, AnswerInv, Executor!At
<1>0. /\ DOMAIN ErrorOf = Replies \ {"success", "other"}
      /\ Responses = {"success", "other"} /\ "none" \notin Replies
  BY ErrorFacts DEF Responses, Replies
<1>1. /\ caller[c].stage \in Executor!Stages /\ caller[c].attempt \in Nat
      /\ caller \in [Callers -> Locals] /\ MaxAttempts \in Nat
  BY DEF TypeOK, Executor!TypeOK, Executor!Call, Locals, Executor!ConfigAssumption
<1>2. reply \in [Callers -> Replies \cup {"none"}] /\ result \in [Callers -> Results]
  BY DEF TypeOK
<1>3. CASE Request(c)
  <2>1. caller[c].stage = "idle" /\ c \notin holders /\ holders' = holders /\ reply'[c] = "none"
    BY <1>2, <1>3 DEF Request, Executor!Admit, Executor!Block
  <2>0. c \notin tracking'
    BY <1>3, <2>1 DEF Request, records
  <2>2. CASE Executor!Block(c)
    <3>1. caller' = caller /\ result'[c] = "internal"
      BY <1>2, <1>3, <2>2 DEF Request, Executor!Block, Executor!Admit
    <3> QED
      BY <2>0, <2>1, <3>1, <1>0
  <2>3. CASE Executor!Admit(c)
    <3>1. caller'[c].stage = IF MaxAttempts > 0 THEN "trying" ELSE "exhausted"
      BY <1>1, <2>3 DEF Executor!Admit, Executor!Goto, Locals
    <3> QED
      BY <1>0, <1>1, <2>0, <2>1, <3>1
  <2> QED
    BY <1>3, <2>2, <2>3 DEF Request
<1>4. CASE Send(c)
  BY <1>0, <1>2, <1>4 DEF Send, Waiting, Pool!Grant, executor, records
<1>5. CASE ReceiveError(c)
  <2>1. PICK r \in Replies \ Delivered : reply' = [reply EXCEPT ![c] = r] /\ Executor!Fail(c, ErrorOf[r])
    BY <1>5 DEF ReceiveError
  <2>2. r \in DOMAIN ErrorOf /\ reply'[c] = r /\ r \notin Responses
    BY <1>0, <1>2, <2>1 DEF Delivered
  <2>3. c \notin holders' /\ c \notin tracking'
    <3>1. c \notin tracking
      BY <1>0, <1>5 DEF ReceiveError, Sending
    <3> QED
      BY <1>5, <3>1 DEF ReceiveError, DropPermit, Pool!Release, records
  <2>4. /\ caller'[c].attempt = caller[c].attempt
        /\ \/ caller'[c].stage = "sleeping" /\ ErrorOf[r] \in Executor!Transient
           \/ /\ caller'[c].stage = "exhausted"
              /\ ErrorOf[r] \notin Executor!Transient \/ ~Executor!AttemptsLeft(c)
    BY <1>1, <2>1 DEF Executor!Fail, Executor!Goto, Locals
  <2>5. ErrorOf[r] \in Executor!Transient \cup Executor!Permanent
    BY <2>2, ErrorFacts
  <2> QED
    BY <1>1, <2>2, <2>3, <2>4, <2>5 DEF AttemptsUsed, Executor!AttemptsLeft
<1>6. CASE Receive(c)
  BY <1>0, <1>2, <1>6 DEF Receive, Sending, Delivered, executor, records
<1>7. CASE Return(c)
  <2>1. reply[c] \in Responses /\ reply' = reply /\ c \notin holders' /\ c \notin tracking'
    BY <1>0, <1>2, <1>7 DEF Return, DropPermit, Pool!Release
  <2>2. caller'[c].stage = "succeeded"
    BY <1>1, <1>7 DEF Return, Executor!Succeed, Executor!Goto, Locals
  <2> QED
    BY <2>1, <2>2
<1>8. CASE Conclude(c)
  <2>1. holders' = holders /\ reply' = reply /\ tracking' = tracking
    BY <1>8 DEF Conclude, records
  <2>2. CASE Executor!RecordSuccess(c) \/ Executor!TallySuccess(c)
    <3>1. /\ caller[c].stage \in {"succeeded", "tallying"}
          /\ caller'[c].stage \in {"idle", "tallying"}
      BY <1>1, <2>2 DEF Executor!RecordSuccess, Executor!TallySuccess, Executor!Goto,
                        Executor!Leave, Locals
    <3> QED
      BY <2>1, <3>1
  <2>3. CASE Executor!RecordFailure(c)
    <3>1. /\ caller[c].stage = "exhausted" /\ caller'[c].stage = "failed"
          /\ caller'[c].attempt = caller[c].attempt
      BY <1>1, <2>3 DEF Executor!RecordFailure, Executor!Goto, Locals
    <3> QED
      BY <2>1, <3>1 DEF AttemptsUsed
  <2>4. CASE Executor!TallyFailure(c)
    <3>1. caller[c].stage = "failed" /\ caller'[c].stage = "idle"
      BY <1>1, <2>4 DEF Executor!TallyFailure, Executor!Leave, Locals
    <3>2. result'[c] = "internal"
      BY <1>2, <1>8, <3>1 DEF Conclude, Flattened
    <3> QED
      BY <2>1, <3>1, <3>2
  <2> QED
    BY <1>8, <2>2, <2>3, <2>4 DEF Conclude
<1>9. CASE Wake(c)
  <2>1. caller[c].stage = "sleeping" /\ caller'[c].stage = "trying"
    BY <1>1, <1>9 DEF Wake, Executor!Wake, Locals
  <2> QED
    BY <1>0, <1>9, <2>1 DEF Wake, records
<1>10. CASE Count(c)
  <2>1. /\ caller' = caller /\ reply' = reply /\ holders' = holders /\ result' = result
        /\ c \in holders /\ reply[c] # "none"
    BY <1>10 DEF Count, Counting, executor
  <2>2. reply[c] \in Responses
    BY <1>0, <1>2, <2>1
  <2> QED
    BY <2>1, <2>2 DEF AttemptsUsed
<1> QED
  BY <1>3, <1>4, <1>5, <1>6, <1>7, <1>8, <1>9, <1>10 DEF CallStep

\* Steps that are of no call touch nothing of one.
LEMMA OtherSteps ==
  ASSUME ResetMetrics \/ ResetRetryMetrics \/ Tick \/ UNCHANGED vars
  PROVE  UNCHANGED <<caller, reply, result, holders, calls, tracking, tracked>>
BY DEF ResetMetrics, ResetRetryMetrics, Tick, vars, executor, records, Executor!ResetMetrics, Executor!Tick

LEMMA NextCalls ==
  ASSUME TypeOK, [Next]_vars, \A c \in Callers : PermitInv(c) /\ AnswerInv(c)
  PROVE  \A c \in Callers : PermitInv(c)' /\ AnswerInv(c)'
<1>1. ASSUME NEW c \in Callers, Request(c) \/ CallStep(c)
      PROVE  \A d \in Callers : PermitInv(d)' /\ AnswerInv(d)'
  <2>1. PermitInv(c)' /\ AnswerInv(c)'
    BY <1>1, NextCall
  <2>2. \A d \in Callers \ {c} : PermitInv(d)' /\ AnswerInv(d)'
    BY <1>1, OneCaller DEF PermitInv, AnswerInv, Executor!At, AttemptsUsed
  <2> QED
    BY <2>1, <2>2
<1>2. CASE ResetMetrics \/ ResetRetryMetrics \/ Tick \/ UNCHANGED vars
  BY <1>2, OtherSteps DEF PermitInv, AnswerInv, Executor!At, AttemptsUsed
<1> QED
  BY <1>1, <1>2 DEF Next

\* Permits are given only while there are some.
LEMMA NextHolders ==
  ASSUME TypeOK, [Next]_vars, Cardinality(holders) <= Burst
  PROVE  Cardinality(holders') <= Burst
<1>0. IsFiniteSet(holders) /\ Cardinality(holders) \in Nat /\ Burst \in Nat
  BY HoldersFinite
<1>1. ASSUME NEW c \in Callers, Send(c) PROVE Cardinality(holders') <= Burst
  <2>1. c \notin holders /\ holders' = holders \cup {c}
    BY <1>1 DEF Send, Pool!Grant
  <2>2. Cardinality(holders) < Burst
    <3>1. Pool!Cardinality(holders) = Cardinality(holders)
      BY Zenon DEF Pool!Cardinality, Cardinality
    <3> QED
      BY <1>1, <3>1 DEF Send, Pool!Grant
  <2>3. Cardinality(holders') = Cardinality(holders) + 1
    BY <1>0, <2>1, OneMore
  <2> QED
    BY <1>0, <2>2, <2>3
<1>2. ASSUME NEW c \in Callers, ReceiveError(c) \/ Return(c) PROVE Cardinality(holders') <= Burst
  <2>1. c \in holders /\ holders' = holders \ {c}
    BY <1>2 DEF ReceiveError, Return, DropPermit, Pool!Release
  <2>2. Cardinality(holders') = Cardinality(holders) - 1
    BY <1>0, <2>1, OneLess
  <2> QED
    BY <1>0, <2>2
<1>3. ASSUME NEW c \in Callers, Request(c) \/ Receive(c) \/ Count(c) \/ Conclude(c) \/ Wake(c)
      PROVE  holders' = holders
  BY <1>3 DEF Request, Receive, Count, Conclude, Wake
<1>4. CASE ResetMetrics \/ ResetRetryMetrics \/ Tick \/ UNCHANGED vars
  BY <1>4, OtherSteps
<1> QED
  BY <1>1, <1>2, <1>3, <1>4 DEF Next, CallStep

LEMMA AnswersInv == Spec => [](PermitsAreOfAttempts /\ EndsAsAnswered)
<1> DEFINE Inv == Cardinality(holders) <= Burst /\ \A c \in Callers : PermitInv(c) /\ AnswerInv(c)
<1>1. Init => Inv
  <2> SUFFICES ASSUME Init PROVE Inv
    OBVIOUS
  <2>1. holders = {} /\ Cardinality(holders) = 0 /\ tracking = {}
    BY FS_EmptySet DEF Init, Pool!Init
  <2>2. \A c \in Callers : caller[c].stage = "idle" /\ result[c] = "none"
    BY DEF Init, Executor!Init
  <2> QED
    BY <2>1, <2>2 DEF PermitInv, AnswerInv, Executor!At
<1>2. TypeOK /\ Inv /\ [Next]_vars => Inv'
  BY NextCalls, NextHolders
<1>3. TypeOK /\ Inv => PermitsAreOfAttempts /\ EndsAsAnswered
  BY DEF TypeOK, PermitsAreOfAttempts, EndsAsAnswered, AccessAnswer, PermitInv, AnswerInv
<1> HIDE DEF Inv
<1> QED
  BY <1>1, <1>2, <1>3, TypeCorrect, PTL DEF Spec

\* A permit is never held by anything but an attempt that has not been told an
\* error, and never by more than the burst of them (api.rs 238-339).
THEOREM PermitsOfAttempts == Spec => []PermitsAreOfAttempts
BY AnswersInv, PTL

\* Retries, failures and results follow from what Reddit said to the latest
\* attempt (api.rs 264-339, retry.rs 299-404).
THEOREM AnswersDecide == Spec => []EndsAsAnswered
BY AnswersInv, PTL

-----------------------------------------------------------------------------
(* The metrics *)

\* The calls that are in no counter yet.
Uncounted == UnderWay \ tracking

LEMMA UnderWayFinite ==
  /\ IsFiniteSet(UnderWay) /\ Cardinality(UnderWay) \in Nat
  /\ IsFiniteSet(Uncounted) /\ Cardinality(Uncounted) \in Nat
<1>1. UnderWay \subseteq Callers /\ Uncounted \subseteq Callers
  BY DEF UnderWay, Uncounted
<1> QED
  BY <1>1, FS_Subset, FS_CardinalityType

LEMMA NoMore ==
  ASSUME NEW S, IsFiniteSet(S), NEW T, T \subseteq S
  PROVE  Cardinality(T) <= Cardinality(S) /\ Cardinality(T) \in Nat
BY FS_Subset, FS_CardinalityType

LEMMA AtMostOneMore ==
  ASSUME NEW S, IsFiniteSet(S), NEW c, NEW T, T \subseteq S \cup {c}
  PROVE  Cardinality(T) <= Cardinality(S) + 1 /\ Cardinality(T) \in Nat
<1>1. IsFiniteSet(S \cup {c}) /\ Cardinality(S) \in Nat
      /\ Cardinality(S \cup {c}) \in {Cardinality(S), Cardinality(S) + 1}
  BY FS_AddElement, FS_CardinalityType
<1>2. Cardinality(T) <= Cardinality(S \cup {c}) /\ Cardinality(T) \in Nat
  BY <1>1, NoMore
<1> QED
  BY <1>1, <1>2

\* CountedOnce, with the calls counted for it
CountsInv ==
  /\ counts.successful + counts.failed <= calls - Cardinality(Uncounted)
  /\ tracked <= calls - Cardinality(UnderWay)

LEMMA NextCounts == TypeOK /\ PermitsAreOfAttempts /\ CountsInv /\ [Next]_vars => CountsInv'
<1> SUFFICES ASSUME TypeOK, PermitsAreOfAttempts, CountsInv, [Next]_vars PROVE CountsInv'
  OBVIOUS
<1>0. /\ IsFiniteSet(UnderWay) /\ Cardinality(UnderWay) \in Nat
      /\ IsFiniteSet(Uncounted) /\ Cardinality(Uncounted) \in Nat
      /\ counts \in [successful : Nat, failed : Nat] /\ calls \in Nat /\ tracked \in Nat
      /\ caller \in [Callers -> Locals] /\ MaxAttempts \in Nat
  BY UnderWayFinite DEF TypeOK, Executor!TypeOK, Executor!Call, Locals, Executor!ConfigAssumption
<1>1. ASSUME NEW c \in Callers, Request(c) PROVE CountsInv'
  <2>1. counts' = counts /\ tracking' = tracking /\ tracked' = tracked /\ calls' = calls + 1
    BY <1>1 DEF Request, records, Executor!Admit, Executor!Block
  <2>2. UnderWay' \subseteq UnderWay \cup {c}
    BY <1>0, <1>1 DEF Request, Executor!Admit, Executor!Block, Executor!Goto, UnderWay, Locals
  <2>3. Uncounted' \subseteq Uncounted \cup {c}
    BY <2>1, <2>2 DEF Uncounted
  <2>4. /\ Cardinality(UnderWay') <= Cardinality(UnderWay) + 1 /\ Cardinality(UnderWay') \in Nat
        /\ Cardinality(Uncounted') <= Cardinality(Uncounted) + 1 /\ Cardinality(Uncounted') \in Nat
    BY <1>0, <2>2, <2>3, AtMostOneMore
  <2> QED
    BY <1>0, <2>1, <2>4 DEF CountsInv
<1>2. ASSUME NEW c \in Callers, Count(c) PROVE CountsInv'
  <2>1. /\ counts'.successful + counts'.failed = counts.successful + counts.failed + 1
        /\ caller' = caller /\ calls' = calls /\ tracked' = tracked /\ tracking' = tracking \cup {c}
    BY <1>0, <1>2 DEF Count, Counted, executor
  <2>2. c \in Uncounted
    BY <1>2 DEF Count, Counting, PermitsAreOfAttempts, Executor!At, UnderWay, Uncounted
  <2>3. UnderWay' = UnderWay /\ Uncounted' = Uncounted \ {c}
    BY <2>1 DEF UnderWay, Uncounted
  <2>4. Cardinality(Uncounted') = Cardinality(Uncounted) - 1
    BY <1>0, <2>2, <2>3, OneLess
  <2> QED
    BY <1>0, <2>1, <2>3, <2>4 DEF CountsInv
<1>3. ASSUME NEW c \in Callers, Return(c) PROVE CountsInv'
  <2>1. /\ counts' = counts /\ calls' = calls /\ tracking' = tracking \ {c}
        /\ tracked' \in Nat /\ tracked' <= tracked + 1
    BY <1>0, <1>3 DEF Return, Tracked, Executor!Succeed
  <2>2. c \in tracking /\ c \in UnderWay /\ UnderWay' = UnderWay \ {c}
    BY <1>0, <1>3 DEF Return, Executor!Succeed, Executor!At, Executor!Goto, UnderWay, Locals
  <2>3. Uncounted' = Uncounted
    BY <2>1, <2>2 DEF Uncounted
  <2>4. Cardinality(UnderWay') = Cardinality(UnderWay) - 1
    BY <1>0, <2>2, OneLess
  <2> QED
    BY <1>0, <2>1, <2>3, <2>4 DEF CountsInv
<1>4. ASSUME NEW c \in Callers, ReceiveError(c) PROVE CountsInv'
  <2>1. counts' = counts /\ tracking' = tracking /\ tracked' = tracked /\ calls' = calls
    BY <1>4 DEF ReceiveError, records, Executor!Fail
  <2>2. UnderWay' \subseteq UnderWay
    BY <1>0, <1>4 DEF ReceiveError, Executor!Fail, Executor!At, Executor!Goto, UnderWay, Locals
  <2>3. Uncounted' \subseteq Uncounted
    BY <2>1, <2>2 DEF Uncounted
  <2>4. /\ Cardinality(UnderWay') <= Cardinality(UnderWay) /\ Cardinality(UnderWay') \in Nat
        /\ Cardinality(Uncounted') <= Cardinality(Uncounted) /\ Cardinality(Uncounted') \in Nat
    BY <1>0, <2>2, <2>3, NoMore
  <2> QED
    BY <1>0, <2>1, <2>4 DEF CountsInv
<1>5. ASSUME NEW c \in Callers, Send(c) \/ Receive(c) PROVE CountsInv'
  BY <1>5 DEF Send, Receive, executor, records, CountsInv, UnderWay, Uncounted
<1>6. ASSUME NEW c \in Callers, Conclude(c) \/ Wake(c) PROVE CountsInv'
  <2>1. counts' = counts /\ tracking' = tracking /\ tracked' = tracked /\ calls' = calls
    BY <1>6 DEF Conclude, Wake, records, Executor!RecordSuccess, Executor!TallySuccess,
                Executor!RecordFailure, Executor!TallyFailure, Executor!Wake
  <2>2. UnderWay' = UnderWay
    BY <1>0, <1>6 DEF Conclude, Wake, Executor!RecordSuccess, Executor!TallySuccess,
                Executor!RecordFailure, Executor!TallyFailure, Executor!Wake, Executor!At,
                Executor!Goto, Executor!Leave, UnderWay, Locals
  <2> QED
    BY <2>1, <2>2 DEF CountsInv, Uncounted
<1>7. CASE ResetMetrics
  <2>1. /\ counts' = NoCounts /\ calls' = calls /\ tracked' = tracked
        /\ UnderWay' = UnderWay /\ Uncounted' = Uncounted
    BY <1>7 DEF ResetMetrics, executor, UnderWay, Uncounted
  <2>2. counts.successful + counts.failed >= 0
    BY <1>0
  <2> QED
    BY <1>0, <2>1, <2>2 DEF CountsInv, NoCounts
<1>8. CASE ResetRetryMetrics \/ Tick \/ UNCHANGED vars
  <2>1. counts' = counts
    BY <1>8 DEF ResetRetryMetrics, Tick, vars, records
  <2> QED
    BY <1>8, <2>1, OtherSteps DEF CountsInv, UnderWay, Uncounted
<1> QED
  BY <1>1, <1>2, <1>3, <1>4, <1>5, <1>6, <1>7, <1>8 DEF Next, CallStep

\* However calls, retries and resets interleave, no call is counted twice or
\* recorded twice, and none before it has been answered (api.rs 341-379).
THEOREM CallsCountedOnce == Spec => []CountedOnce
<1>1. Init => CountsInv
  <2> SUFFICES ASSUME Init PROVE CountsInv
    OBVIOUS
  <2>1. UnderWay = {} /\ Uncounted = {} /\ calls = 0 /\ counts = NoCounts /\ tracked = 0
    BY DEF Init, Executor!Init, UnderWay, Uncounted
  <2> QED
    BY <2>1, FS_EmptySet DEF CountsInv, NoCounts
<1>2. CountsInv => CountedOnce
  BY DEF CountsInv, CountedOnce, Uncounted
<1> QED
  BY <1>1, <1>2, NextCounts, AnswersInv, TypeCorrect, PTL DEF Spec

-----------------------------------------------------------------------------
(* Coming to an end.  This is the safety half of what ImplementsExecutor says  *)
(* of fairness: an attempt is answered after a few steps of the client.        *)

\* What is left of an attempt: its permit, the answer, the metrics.
AttemptLeft(c) ==
  IF c \notin holders THEN 3
  ELSE IF reply[c] = "none" THEN 2
  ELSE IF c \notin tracking THEN 1 ELSE 0

\* More steps than a request still can take: five for each round it has left, the
\* report to the breaker, and the executor's metrics.
StepsLeft(c) ==
  CASE caller[c].stage = "trying"   -> 5 * (MaxAttempts - caller[c].attempt) + 3 + AttemptLeft(c)
    [] caller[c].stage = "sleeping" -> 5 * (MaxAttempts - caller[c].attempt) + 2
    [] caller[c].stage \in {"succeeded", "exhausted"} -> 2
    [] caller[c].stage \in {"tallying", "failed"}     -> 1
    [] caller[c].stage = "idle"     -> 0

StepsBounded == \A c \in Callers : StepsLeft(c) \in 0..5 * MaxAttempts + 6

StepsRunOut ==
  [][\A c \in Callers :
       /\ CallStep(c) => StepsLeft(c)' < StepsLeft(c)
       /\ caller[c].stage # "idle" => StepsLeft(c)' <= StepsLeft(c)]_vars

LEMMA StepsFacts ==
  ASSUME TypeOK, NEW c \in Callers
  PROVE  /\ caller[c].stage = "trying" =>
              StepsLeft(c) = 5 * (MaxAttempts - caller[c].attempt) + 3 + AttemptLeft(c)
         /\ caller[c].stage = "sleeping" => StepsLeft(c) = 5 * (MaxAttempts - caller[c].attempt) + 2
         /\ caller[c].stage \in {"succeeded", "exhausted"} => StepsLeft(c) = 2
         /\ caller[c].stage \in {"tallying", "failed"} => StepsLeft(c) = 1
         /\ caller[c].stage = "idle" => StepsLeft(c) = 0
         /\ caller[c].attempt \in 0..MaxAttempts /\ caller[c].stage \in Executor!Stages
         /\ caller[c] \in Locals
         /\ AttemptLeft(c) \in 0..3
<1>1. /\ caller[c].attempt \in 0..MaxAttempts /\ caller[c].stage \in Executor!Stages
      /\ caller[c] \in Locals
  BY DEF TypeOK, Executor!TypeOK, Executor!Call, Executor!ConfigAssumption, Locals
<1>2. AttemptLeft(c) \in 0..3
  BY DEF AttemptLeft
<1> QED
  BY <1>1, <1>2 DEF StepsLeft

LEMMA StepsAreBounded == TypeOK => StepsBounded
<1> SUFFICES ASSUME TypeOK, NEW c \in Callers PROVE StepsLeft(c) \in 0..5 * MaxAttempts + 6
  BY DEF StepsBounded
<1>1. MaxAttempts \in Nat
  BY DEF Executor!ConfigAssumption
<1>2. /\ caller[c].attempt \in 0..MaxAttempts /\ caller[c].stage \in Executor!Stages
      /\ AttemptLeft(c) \in 0..3
  BY StepsFacts
<1> QED
  BY <1>1, <1>2, StepsFacts DEF Executor!Stages

LEMMA RequestMoves ==
  ASSUME TypeOK, TypeOK', PermitsAreOfAttempts, NEW c \in Callers, CallStep(c)
  PROVE  StepsLeft(c)' < StepsLeft(c)
<1>0. /\ MaxAttempts \in Nat
      /\ caller[c] \in Locals /\ caller[c].attempt \in 0..MaxAttempts
      /\ AttemptLeft(c) \in 0..3 /\ AttemptLeft(c)' \in 0..3
      /\ caller = [e \in Callers |-> caller[e]] /\ reply = [e \in Callers |-> reply[e]]
  BY StepsFacts DEF Executor!ConfigAssumption, AttemptLeft, TypeOK, Executor!TypeOK
<1>1. ASSUME NEW stage \in Executor!Stages, Executor!Goto(c, stage)
      PROVE  caller'[c].stage = stage /\ caller'[c].attempt = caller[c].attempt
  BY <1>0, <1>1 DEF Executor!Goto, Locals
<1>2. ASSUME Executor!Leave(c)
      PROVE  caller'[c].stage = "idle"
  BY <1>0, <1>2 DEF Executor!Leave
<1>3. caller[c].stage = "trying" =>
        StepsLeft(c) = 5 * (MaxAttempts - caller[c].attempt) + 3 + AttemptLeft(c)
  BY StepsFacts
<1>4. caller'[c].stage = "trying" =>
        StepsLeft(c)' = 5 * (MaxAttempts - caller'[c].attempt) + 3 + AttemptLeft(c)'
  BY DEF StepsLeft
<1>5. caller'[c].stage \in {"succeeded", "exhausted"} => StepsLeft(c)' = 2
  BY DEF StepsLeft
<1>6. CASE Send(c) \/ Receive(c) \/ Count(c)
  <2>1. AttemptLeft(c)' < AttemptLeft(c)
    <3>1. CASE Send(c)
      BY <1>0, <3>1 DEF Send, Waiting, Pool!Grant, AttemptLeft
    <3>2. CASE Receive(c)
      BY <1>0, <3>2 DEF Receive, Sending, Delivered, AttemptLeft
    <3>3. CASE Count(c)
      BY <3>3 DEF Count, Counting, AttemptLeft
    <3> QED
      BY <1>6, <3>1, <3>2, <3>3
  <2>2. UNCHANGED caller
    BY <1>6 DEF Send, Receive, Count, executor
  <2>3. caller[c].stage = "trying"
    BY <1>6 DEF Send, Receive, Count, Waiting, Sending, Counting, PermitsAreOfAttempts, Executor!At
  <2> QED
    BY <1>0, <1>3, <1>4, <2>1, <2>2, <2>3
<1>7. CASE ReceiveError(c) \/ Return(c)
  <2>1. /\ caller[c].stage = "trying"
        /\ Executor!Goto(c, "succeeded") \/ Executor!Goto(c, "exhausted") \/ Executor!Goto(c, "sleeping")
    BY <1>7 DEF ReceiveError, Return, Executor!Fail, Executor!Succeed, Executor!At
  <2>2. /\ caller'[c].stage \in {"succeeded", "exhausted", "sleeping"}
        /\ caller'[c].attempt = caller[c].attempt
    BY <1>1, <2>1 DEF Executor!Stages
  <2>3. caller'[c].stage = "sleeping" => StepsLeft(c)' = 5 * (MaxAttempts - caller'[c].attempt) + 2
    BY DEF StepsLeft
  <2> QED
    BY <1>0, <1>3, <1>5, <2>1, <2>2, <2>3
<1>8. CASE Wake(c)
  <2>1. /\ caller[c].stage = "sleeping"
        /\ caller'[c].stage = "trying" /\ caller'[c].attempt = caller[c].attempt + 1
    BY <1>0, <1>8 DEF Wake, Executor!Wake, Executor!At, Executor!NextAttempt
  <2>2. StepsLeft(c) = 5 * (MaxAttempts - caller[c].attempt) + 2
    BY <2>1, StepsFacts
  <2> QED
    BY <1>0, <1>4, <2>1, <2>2
<1>9. CASE Conclude(c)
  <2>1. \/ /\ caller[c].stage \in {"succeeded", "exhausted"}
           /\ Executor!Goto(c, "tallying") \/ Executor!Goto(c, "failed") \/ Executor!Leave(c)
        \/ caller[c].stage \in {"tallying", "failed"} /\ Executor!Leave(c)
    BY <1>9 DEF Conclude, Executor!RecordSuccess, Executor!TallySuccess, Executor!RecordFailure,
       Executor!TallyFailure, Executor!At
  <2>2. /\ caller'[c].stage \in {"tallying", "failed"} => StepsLeft(c)' = 1
        /\ caller'[c].stage = "idle" => StepsLeft(c)' = 0
    BY DEF StepsLeft
  <2>3. CASE caller[c].stage \in {"succeeded", "exhausted"}
    <3>1. caller'[c].stage \in {"tallying", "failed", "idle"}
      BY <1>1, <1>2, <2>1, <2>3 DEF Executor!Stages
    <3>2. StepsLeft(c) = 2
      BY <2>3, StepsFacts
    <3> QED
      BY <2>2, <3>1, <3>2
  <2>4. CASE caller[c].stage \in {"tallying", "failed"}
    <3>1. caller'[c].stage = "idle"
      BY <1>2, <2>1, <2>4
    <3>2. StepsLeft(c) = 1
      BY <2>4, StepsFacts
    <3> QED
      BY <2>2, <3>1, <3>2
  <2> QED
    BY <2>1, <2>3, <2>4
<1> QED
  BY <1>6, <1>7, <1>8, <1>9 DEF CallStep

\* Every step of a request brings it closer to its result, and nothing another
\* request or a reset does takes it further away: from the executor's admission it
\* takes 5 * max_attempts + 6 steps at most, those of its attempts included
\* (api.rs 169-382).
THEOREM RequestsRunOut == Spec => []StepsBounded /\ StepsRunOut
<1> DEFINE RunOut == \A c \in Callers :
              /\ CallStep(c) => StepsLeft(c)' < StepsLeft(c)
              /\ caller[c].stage # "idle" => StepsLeft(c)' <= StepsLeft(c)
<1>1. /\ TypeOK /\ TypeOK' /\ PermitsAreOfAttempts /\ StepsBounded /\ StepsBounded' =>
        [Next => RunOut]_vars
  <2> SUFFICES ASSUME TypeOK, TypeOK', PermitsAreOfAttempts, StepsBounded, StepsBounded', Next, NEW c \in Callers
               PROVE  /\ CallStep(c) => StepsLeft(c)' < StepsLeft(c)
                      /\ caller[c].stage # "idle" => StepsLeft(c)' <= StepsLeft(c)
    OBVIOUS
  <2>1. CallStep(c) => StepsLeft(c)' < StepsLeft(c)
    BY RequestMoves
  <2>2. ASSUME caller[c].stage # "idle" PROVE StepsLeft(c)' <= StepsLeft(c)
    <3>1. ASSUME caller'[c] = caller[c], AttemptLeft(c)' = AttemptLeft(c)
          PROVE  StepsLeft(c)' <= StepsLeft(c)
      <4>1. StepsLeft(c)' = StepsLeft(c)
        BY <3>1 DEF StepsLeft
      <4>2. StepsLeft(c) \in Int
        BY StepsAreBounded DEF StepsBounded
      <4> QED
        BY <4>1, <4>2
    <3>2. ASSUME NEW d \in Callers, Request(d) PROVE StepsLeft(c)' <= StepsLeft(c)
      <4>1. caller'[c] = caller[c] /\ (d # c => reply'[c] = reply[c])
        BY <2>2, <3>2 DEF Request, Executor!Admit, Executor!Block, Executor!Goto, Executor!At,
           TypeOK, Executor!TypeOK
      <4>2. UNCHANGED <<holders, tracking>>
        BY <3>2 DEF Request, records
      <4>3. CASE d # c
        BY <3>1, <4>1, <4>2, <4>3 DEF AttemptLeft
      <4>4. CASE d = c
        BY <2>2, <3>2, <4>4 DEF Request, Executor!Admit, Executor!Block, Executor!At
      <4> QED
        BY <4>3, <4>4
    <3>3. ASSUME NEW d \in Callers, CallStep(d) PROVE StepsLeft(c)' <= StepsLeft(c)
      <4>1. CASE d = c
        <5>1. StepsLeft(c)' < StepsLeft(c)
          BY <3>3, <4>1, RequestMoves
        <5>2. MaxAttempts \in Nat
          BY DEF Executor!ConfigAssumption
        <5>3. StepsLeft(c) \in Int /\ StepsLeft(c)' \in Int
          BY <5>2 DEF StepsBounded
        <5> QED
          BY <5>1, <5>3
      <4>2. CASE d # c
        BY <3>1, <3>3, <4>2, OneCaller DEF AttemptLeft
      <4> QED
        BY <4>1, <4>2
    <3>4. CASE ResetMetrics \/ ResetRetryMetrics \/ Tick
      BY <3>1, <3>4 DEF ResetMetrics, ResetRetryMetrics, Tick, executor, records, AttemptLeft,
         Executor!ResetMetrics, Executor!Tick
    <3> QED
      BY <3>2, <3>3, <3>4 DEF Next
  <2> QED
    BY <2>1, <2>2
<1> QED
  BY <1>1, StepsAreBounded, TypeCorrect, PermitsOfAttempts, PTL DEF Spec, StepsRunOut

=============================================================================

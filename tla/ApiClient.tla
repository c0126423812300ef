----------------------------- MODULE ApiClient -----------------------------
(***************************************************************************)
(* RedditApiClient (reddit-client/src/api.rs): every request runs inside   *)
(* the retry executor, and every attempt takes a permit of the rate        *)
(* limiter, sends, and turns the status into a result.  Composes           *)
(* RetryExecutor with what RateLimiter promises (PermitPool).              *)
(*                                                                         *)
(* An attempt is the executor's stage "trying": it waits for its permit,   *)
(* waits for Reddit, and if there is a response to return counts it in the *)
(* metrics and tells the tracker, when the client has one.                 *)
(***************************************************************************)
EXTENDS Integers, FiniteSets

CONSTANTS Callers, MaxAttempts, FailureThreshold, RecoveryTimeout, MaxCalls,
  Burst  \* permits of the rate limiter

VARIABLES
  breaker, metrics, caller, calls, streak,  \* the executor's
  holders,  \* callers whose attempt has a permit
  reply,    \* what Reddit said to the latest attempt of each caller
  counts,   \* ApiMetrics: requests by how they ended
  tracking, \* callers whose response is counted and on its way to the tracker
  tracked,  \* external: the responses the tracker has a record of
  result    \* what the latest request of each caller returned

executor == <<breaker, metrics, caller, calls, streak>>
records == <<counts, tracking, tracked>>
vars == <<executor, holders, reply, records, result>>

Executor == INSTANCE RetryExecutor
Pool == INSTANCE PermitPool WITH Tasks <- Callers, Size <- Burst

ASSUME ConfigAssumption ==
  /\ Executor!ConfigAssumption
  /\ IsFiniteSet(Callers)
  /\ Burst \in Nat \ {0}

\* What Reddit or the transport may say, as far as the code tells it apart:
\* "other" is any status that is neither a success nor named, such as 400,
\* "broken" a transport error that is neither a timeout nor a failed connect.
Replies ==
  {"success", "other", "429", "401", "403", "404", "5xx", "timeout", "connect", "broken"}

\* What each reply with an arm of its own in make_request_internal is to the
\* executor.  404 is an invalid response.
ErrorOf ==
  [r \in Replies \ {"success", "other"} |->
     CASE r = "429"     -> "rate_limit"
       [] r = "401"     -> "invalid_token"
       [] r = "403"     -> "forbidden"
       [] r = "404"     -> "invalid_response"
       [] r = "5xx"     -> "server"
       [] r = "timeout" -> "timeout"
       [] r = "connect" -> "connect"
       [] r = "broken"  -> "other"]

NoCounts == [successful |-> 0, failed |-> 0]

Waiting(c) == Executor!At(c, "trying") /\ c \notin holders
Sending(c) == c \in holders /\ reply[c] = "none"
Counting(c) == c \in holders /\ reply[c] # "none" /\ c \notin tracking

-----------------------------------------------------------------------------
(* Faulty variants of operators below.  Nothing uses them: each is a bug that *)
(* would be easy to write, and each makes a run report a violation.           *)

KeepsPermit(c) == UNCHANGED holders

CountsEveryAttempt(c) ==
  /\ Sending(c)
  /\ \E r \in DOMAIN ErrorOf :
       /\ reply' = [reply EXCEPT ![c] = r]
       /\ Executor!Fail(c, ErrorOf[r])
  /\ counts' = [counts EXCEPT !.failed = @ + 1]
  /\ Pool!Release(c)
  /\ UNCHANGED <<tracking, tracked, result>>

DropsPermitEarly(c) ==
  /\ Sending(c)
  /\ \E r \in {"success", "other"} : reply' = [reply EXCEPT ![c] = r]
  /\ Pool!Release(c)
  /\ UNCHANGED <<executor, records, result>>

KeepsReply(c) ==
  /\ Waiting(c)
  /\ Pool!Grant(c)
  /\ UNCHANGED <<executor, reply, records, result>>

-----------------------------------------------------------------------------
\* What is handed back as a response: a success, and whatever falls through
\* the arms for the others.
Delivered == {"success", "other"}

\* A permit is dropped when the attempt's function returns.
DropPermit(c) == Pool!Release(c)

Init ==
  /\ Executor!Init
  /\ Pool!Init
  /\ reply = [c \in Callers |-> "none"]
  /\ counts = NoCounts /\ tracking = {} /\ tracked = 0
  /\ result = [c \in Callers |-> "none"]

\* make_request_with_context: the executor's answer about the breaker.
Request(c) ==
  /\ \/ Executor!Admit(c) /\ result' = [result EXCEPT ![c] = "none"]
     \/ Executor!Block(c) /\ result' = [result EXCEPT ![c] = "internal"]
  /\ reply' = [reply EXCEPT ![c] = "none"]
  /\ UNCHANGED <<holders, records>>

\* acquire_permit returns, and the request is sent.
Send(c) ==
  /\ Waiting(c)
  /\ Pool!Grant(c)
  /\ reply' = [reply EXCEPT ![c] = "none"]
  /\ UNCHANGED <<executor, records, result>>

\* A named status or a transport error returns early: the permit is dropped and
\* the executor goes on, with no await between.
ReceiveError(c) ==
  /\ Sending(c)
  /\ \E r \in Replies \ Delivered :
       /\ reply' = [reply EXCEPT ![c] = r]
       /\ Executor!Fail(c, ErrorOf[r])
  /\ DropPermit(c)
  /\ UNCHANGED <<records, result>>

Receive(c) ==
  /\ Sending(c)
  /\ \E r \in Delivered : reply' = [reply EXCEPT ![c] = r]
  /\ UNCHANGED <<executor, holders, records, result>>

\* record_request, under the lock of the metrics.
Counted(c) ==
  IF reply[c] = "success" THEN [counts EXCEPT !.successful = @ + 1]
                          ELSE [counts EXCEPT !.failed = @ + 1]

Count(c) ==
  /\ Counting(c)
  /\ counts' = Counted(c)
  /\ tracking' = tracking \cup {c}
  /\ UNCHANGED <<executor, holders, reply, tracked, result>>

\* There is no tracker, or record_api_call has ended; its error is only logged, and
\* may come before or after the record is there.
Tracked == tracked' \in {tracked, tracked + 1}

\* The response is returned and the permit dropped.
Return(c) ==
  /\ c \in tracking
  /\ Tracked
  /\ tracking' = tracking \ {c}
  /\ Executor!Succeed(c)
  /\ DropPermit(c)
  /\ UNCHANGED <<reply, counts, result>>

\* Every error of the operation reaches the caller as CoreError::Internal.
Flattened == "internal"

\* The executor's own steps; the last one of a call is its result.
Conclude(c) ==
  /\ \/ Executor!RecordSuccess(c)
     \/ Executor!TallySuccess(c)
     \/ Executor!RecordFailure(c)
     \/ Executor!TallyFailure(c)
  /\ result' = IF caller'[c].stage # "idle" THEN result
               ELSE [result EXCEPT ![c] = IF Executor!At(c, "failed") THEN Flattened ELSE "ok"]
  /\ UNCHANGED <<holders, reply, records>>

Wake(c) ==
  /\ Executor!Wake(c)
  /\ UNCHANGED <<holders, reply, records, result>>

ResetMetrics ==
  /\ counts' = NoCounts
  /\ UNCHANGED <<executor, holders, reply, tracking, tracked, result>>

ResetRetryMetrics == Executor!ResetMetrics /\ UNCHANGED <<holders, reply, records, result>>

Tick == Executor!Tick /\ UNCHANGED <<holders, reply, records, result>>

CallStep(c) ==
  Send(c) \/ ReceiveError(c) \/ Receive(c) \/ Count(c) \/ Return(c) \/ Conclude(c) \/ Wake(c)

Next ==
  \/ \E c \in Callers : Request(c) \/ CallStep(c)
  \/ ResetMetrics
  \/ ResetRetryMetrics
  \/ Tick

Spec == Init /\ [][Next]_vars

\* The limiter gives permits as long as some are free (its own module shows
\* that), the HTTP client gives up after 30 s (114), sleeps end, time passes.
Fairness == WF_vars(Tick) /\ \A c \in Callers : WF_vars(CallStep(c))

FairSpec == Spec /\ Fairness
\* What check_subreddit_access makes of the result.
AccessAnswer(c) ==
  IF result[c] = "ok" THEN "accessible"
  ELSE IF result[c] \in {"forbidden", "subreddit_not_found"} THEN "inaccessible" ELSE "error"
-----------------------------------------------------------------------------
(* Properties *)

Results == {"none", "ok", "internal", "forbidden", "subreddit_not_found"}

\* Every variable has its type, the executor's as in its own module.
TypeOK ==
  /\ Executor!TypeOK
  /\ holders \subseteq Callers
  /\ reply \in [Callers -> Replies \cup {"none"}]
  /\ counts \in [successful : Nat, failed : Nat]
  /\ tracking \subseteq Callers /\ tracked \in Nat
  /\ result \in [Callers -> Results]

Responses == Replies \ DOMAIN ErrorOf

\* A permit is held by an attempt under way and by nothing else: not by a call
\* that was told an error, sleeps before its next attempt (340-371 of retry.rs),
\* reports to the breaker or has returned.  An attempt with a response still to
\* be counted, or told to the tracker, keeps it.
PermitsAreOfAttempts ==
  /\ Cardinality(holders) <= Burst
  /\ \A c \in holders : Executor!At(c, "trying") /\ reply[c] \notin DOMAIN ErrorOf
  /\ \A c \in Callers : Executor!At(c, "trying") /\ reply[c] \in Responses => c \in holders
  /\ \A c \in tracking : c \in holders /\ reply[c] \in Responses

AttemptsUsed(c) == caller[c].attempt + 1 >= MaxAttempts

\* What a call does next is decided by Reddit's answer to its latest attempt: it
\* tries again only after a transient error, gives up only on a permanent one or
\* when the attempts are used up, and returns a response, or calls a subreddit
\* accessible, only if there was one.
EndsAsAnswered ==
  \A c \in Callers :
    /\ Executor!At(c, "sleeping") =>
         reply[c] \in DOMAIN ErrorOf /\ ErrorOf[reply[c]] \in Executor!Transient
    /\ caller[c].stage \in {"exhausted", "failed"} /\ MaxAttempts > 0 =>
         /\ reply[c] \in DOMAIN ErrorOf
         /\ ErrorOf[reply[c]] \in Executor!Permanent \/ AttemptsUsed(c)
    /\ caller[c].stage \in {"succeeded", "tallying"} => reply[c] \in Responses
    /\ Executor!At(c, "idle") /\ AccessAnswer(c) = "accessible" => reply[c] \in Responses

UnderWay == {c \in Callers : caller[c].stage \in {"trying", "sleeping"}}

\* A call is in the metrics at most once, and in the tracker's log at most once,
\* however many attempts it took and whoever resets the metrics meanwhile
\* (341-379): an attempt that will be repeated is in neither, one not over yet in
\* the metrics only, and only if its response is with the tracker now.
CountedOnce ==
  /\ counts.successful + counts.failed <= calls - Cardinality(UnderWay \ tracking)
  /\ tracked <= calls - Cardinality(UnderWay)

\* The executor under the client is the executor of its own module, its
\* fairness included: that an attempt is always answered is an assumption there
\* and follows here, because permits come back and the HTTP client gives up.
ImplementsExecutor == Executor!FairSpec

=============================================================================

---------------------------- MODULE RateLimiter ----------------------------
(***************************************************************************)
(* RateLimiter (reddit-client/src/rate_limiter.rs): a semaphore in front   *)
(* of a token bucket, and a window that counts what was granted.  Tasks    *)
(* run acquire_permit, keep the permit for a request and drop it, or ask   *)
(* for the status.  A step is one block under a mutex, a reading of the    *)
(* clock, or the end of a sleep.                                           *)
(*                                                                         *)
(* A tick is the time in which the bucket earns one unit, and a permit     *)
(* costs Cost units: the rate max_requests / time_window is 1 / Cost, and  *)
(* tokens, an f64 in the code, are whole numbers.  Times are ages.         *)
(***************************************************************************)
EXTENDS Integers, Sequences, FiniteSets

CONSTANTS
  Tasks,        \* tasks that use the limiter, each again and again
  Burst,        \* burst_allowance: permits, and tokens of a full bucket
  Cost,         \* units of a token
  MaxRequests,  \* max_requests: tokens earned in a time_window
  MaxDelay      \* bound: ticks from reading the clock to taking a token

ASSUME ConfigAssumption ==
  /\ IsFiniteSet(Tasks)
  /\ Burst \in Nat \ {0}
  /\ Cost \in Nat \ {0}
  /\ MaxRequests \in Nat \ {0}
  /\ MaxDelay \in Nat

\* The bucket's capacity in units.
Full == Burst * Cost
Window == MaxRequests * Cost

VARIABLES
  free,       \* permits of the semaphore nobody has
  line,       \* tasks that wait for one, first come first served
  task,       \* where each task is, with its clock reading's age or its sleep
  tokens,     \* tokens, in units
  since,      \* the age of last_refill
  window,     \* request_count, and the age of window_start
  most,       \* history: an ideal bucket that holds MaxDelay units more
  least,      \* history: an ideal bucket of the same capacity
  overtaken   \* history: last_refill has been set to an earlier time

bucket == <<tokens, since>>
ideals == <<most, least, overtaken>>
vars == <<free, line, task, bucket, window, ideals>>

Stages ==
  {"idle", "waiting", "ready", "refilling", "taking", "sleeping", "granted",
   "holding", "viewing"}

\* Beyond this age last_refill fills the bucket whatever the clock reading.
Enough == Full + MaxDelay

Lesser(m, n) == IF m < n THEN m ELSE n
Greater(m, n) == IF m < n THEN n ELSE m

-----------------------------------------------------------------------------
(* Faulty variants of operators below.  Nothing uses them: each is a bug that *)
(* would be easy to write, and each makes a run report a violation.           *)

SwappedElapsed(age) == Greater(age - since, 0)

RefillStampedLate(age) == 0

PermitDroppedAtOnce == free

TakesHalf == tokens - Cost \div 2

-----------------------------------------------------------------------------
At(t, stage) == task[t].stage = stage
Goto(t, stage, timer) == task' = [task EXCEPT ![t] = [stage |-> stage, timer |-> timer]]

Readings == {"refilling", "taking", "viewing"}

Init ==
  /\ free = Burst
  /\ line = << >>
  /\ task = [t \in Tasks |-> [stage |-> "idle", timer |-> 0]]
  /\ tokens = Full
  /\ since = 0
  /\ window = [age |-> 0, count |-> 0]
  /\ most = Full + MaxDelay
  /\ least = Full
  /\ overtaken = FALSE

\* What acquiring leaves of the permits.
Remaining == free - 1

\* acquire_permit asks for a permit: it has one at once or gets in line.
Enter(t) ==
  /\ At(t, "idle")
  /\ \/ /\ free > 0
        /\ free' = Remaining
        /\ Goto(t, "ready", 0)
        /\ UNCHANGED line
     \/ /\ free = 0
        /\ line' = Append(line, t)
        /\ Goto(t, "waiting", 0)
        /\ UNCHANGED free
  /\ UNCHANGED <<bucket, window, ideals>>

\* The bucket's acquire reads the clock before it has a lock.
ReadClock(t) ==
  /\ At(t, "ready")
  /\ Goto(t, "refilling", 0)
  /\ UNCHANGED <<free, line, bucket, window, ideals>>

\* duration_since is zero for a last_refill later than the reading.
Elapsed(age) == Greater(since - age, 0)

Refilled(age) == Lesser(tokens + Elapsed(age), Full)

\* last_refill becomes the reading, also when it is older.
Stamp(age) == age

RefillWith(age) ==
  /\ tokens' = Refilled(age)
  /\ since' = Stamp(age)
  /\ overtaken' = (overtaken \/ age > since)

Refill(t) ==
  /\ At(t, "refilling")
  /\ RefillWith(task[t].timer)
  /\ Goto(t, "taking", task[t].timer)
  /\ UNCHANGED <<free, line, window, most, least>>

HasToken == tokens >= Cost

Spent == tokens - Cost

\* The token is taken under a lock of its own, or the task sleeps for as long as
\* what is missing takes.
Take(t) ==
  /\ At(t, "taking")
  /\ \/ /\ HasToken
        /\ tokens' = Spent
        /\ Goto(t, "granted", 0)
        /\ most' = Greater(most - Cost, -1)
        /\ least' = Greater(least - Cost, 0)
     \/ /\ ~HasToken
        /\ Goto(t, "sleeping", Greater(Cost - tokens, 0))
        /\ UNCHANGED <<tokens, most, least>>
  /\ UNCHANGED <<free, line, since, window, overtaken>>

Wake(t) ==
  /\ At(t, "sleeping") /\ task[t].timer = 0
  /\ Goto(t, "ready", 0)
  /\ UNCHANGED <<free, line, bucket, window, ideals>>

\* ensure_current_window, for a window that has ended.
CurrentWindow == IF window.age >= Window THEN [age |-> 0, count |-> 0] ELSE window

Record(t) ==
  /\ At(t, "granted")
  /\ window' = [CurrentWindow EXCEPT !.count = @ + 1]
  /\ Goto(t, "holding", 0)
  /\ UNCHANGED <<free, line, bucket, ideals>>

\* The permit is dropped: it goes to the first in line.
Drop(t) ==
  /\ At(t, "holding")
  /\ \/ /\ line = << >>
        /\ free' = free + 1
        /\ Goto(t, "idle", 0)
        /\ UNCHANGED line
     \/ /\ line # << >>
        /\ line' = Tail(line)
        /\ task' = [task EXCEPT ![t] = [stage |-> "idle", timer |-> 0],
                                ![Head(line)] = [stage |-> "ready", timer |-> 0]]
        /\ UNCHANGED free
  /\ UNCHANGED <<bucket, window, ideals>>

\* get_rate_limit_status reads the clock, then refills the bucket as well.
AskStatus(t) ==
  /\ At(t, "idle")
  /\ Goto(t, "viewing", 0)
  /\ UNCHANGED <<free, line, bucket, window, ideals>>

View(t) ==
  /\ At(t, "viewing")
  /\ RefillWith(task[t].timer)
  /\ Goto(t, "idle", 0)
  /\ UNCHANGED <<free, line, window, most, least>>

\* A clock reading gets older, a sleep shorter.
Aged(l) ==
  CASE l.stage \in Readings   -> [l EXCEPT !.timer = @ + 1]
    [] l.stage = "sleeping"   -> [l EXCEPT !.timer = Greater(@ - 1, 0)]
    [] OTHER                  -> l

Tick ==
  /\ \A t \in Tasks : task[t].stage \in Readings => task[t].timer < MaxDelay
  /\ task' = [t \in Tasks |-> Aged(task[t])]
  /\ since' = Lesser(since + 1, Enough)
  /\ window' = [window EXCEPT !.age = Lesser(@ + 1, Window)]
  /\ most' = Lesser(most + 1, Full + MaxDelay)
  /\ least' = Lesser(least + 1, Full)
  /\ UNCHANGED <<free, line, tokens, overtaken>>

TaskStep(t) ==
  \/ ReadClock(t) \/ Refill(t) \/ Take(t) \/ Wake(t)
  \/ Record(t) \/ Drop(t) \/ View(t)

Next ==
  \/ \E t \in Tasks : Enter(t) \/ AskStatus(t) \/ TaskStep(t)
  \/ Tick

Spec == Init /\ [][Next]_vars

\* Tasks are polled, requests end and drop their permit (the HTTP client has a
\* timeout, api.rs 114), time passes.  Nobody has to ask.
Fairness == WF_vars(Tick) /\ \A t \in Tasks : WF_vars(TaskStep(t))

FairSpec == Spec /\ Fairness
-----------------------------------------------------------------------------
(* Properties *)

Locals == [stage : Stages, timer : Nat]

\* Every variable has its type.  Never more tokens than the bucket holds:
\* utilization_percentage (260) subtracts one from the other without a sign.
TypeOK ==
  /\ free \in 0..Burst
  /\ line \in Seq(Tasks)
  /\ task \in [Tasks -> Locals]
  /\ tokens \in 0..Full
  /\ since \in 0..Enough
  /\ window \in [age : 0..Window, count : Nat]
  /\ most \in -1..Full + MaxDelay
  /\ least \in 0..Full
  /\ overtaken \in BOOLEAN

Owners == {t \in Tasks : task[t].stage \in
             {"ready", "refilling", "taking", "sleeping", "granted", "holding"}}

\* At most burst_allowance tasks are between getting a permit and dropping it
\* (113-118, 138-141), and a permit nobody has is there for the next.
PermitsConserved == free + Cardinality(Owners) = Burst

\* Who waits is in line, once.
LineOfWaiting ==
  /\ \A i \in DOMAIN line : At(line[i], "waiting")
  /\ \A i, j \in DOMAIN line : line[i] = line[j] => i = j

\* The limit holds over every interval, not just on average: n ticks grant at
\* most the burst, n units and what the delay between clock and lock (46, 50) is
\* worth, unless a refill came with a clock reading older than the last refill.
RateKept == ~overtaken => most >= 0

\* The bucket is never slower than it promises: whatever refills interleave (50,
\* 76, 61), no unit that was earned is lost.
NothingLost == tokens + since >= least

\* What RateKept rests on: a task that takes a token refilled the bucket with a
\* reading no older than last_refill, and until then the ideal bucket has all
\* that tokens and last_refill are worth.
ReadingsRecent ==
  \A t \in Tasks : task[t].stage \in Readings => task[t].timer <= MaxDelay

RateInv ==
  ~overtaken =>
    /\ \A t \in Tasks : At(t, "taking") => since <= task[t].timer
    /\ Lesser(tokens + since, Full + MaxDelay) <= most

\* The inductive invariant.
IInv == TypeOK /\ PermitsConserved /\ LineOfWaiting /\ ReadingsRecent /\ RateInv /\ NothingLost

Pool == INSTANCE PermitPool
          WITH holders <- {t \in Tasks : At(t, "holding")}, Size <- Burst

\* Seen from the requests, the limiter is a pool of burst_allowance permits: each
\* is given to a task that has none and is that task's until it drops it.
ImplementsPermitPool == Pool!Spec

\* A task may find the token it slept for taken (61-68), but then another has been
\* granted it: the limiter never stalls with everybody asleep.
SomeoneServed ==
  (\E t \in Tasks : At(t, "sleeping")) ~> (\E t \in Tasks : At(t, "granted"))

=============================================================================

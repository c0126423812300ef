# Verification of the LikeMinded Reddit client

TLA+ models of the program in this repository: a desktop application that reads
Reddit posts through an API client with OAuth, a rate limiter, retries, a
priority queue, call tracking and a SQLite database. TLC checks the models on
small instances; TLAPS proves the main theorems for every instance. Paths below
are relative to the repository; `request_queue.rs 42` is line 42 of
`reddit-client/src/request_queue.rs`.

    tlc -config rq_faults.cfg MCRequestQueue.tla
    tlapm RequestQueueProofs.tla

## Inventory

| Component | State | Operations | Interacts with |
|---|---|---|---|
| Request queue (`request_queue.rs`) | binary heap, map id to request, map id to result channel (three `RwLock`s); table `request_queue` | `enqueue_request`, `start_processing` / `process_next_request` (any number of tasks), `cancel_request`, `get_queue_stats` | SQLite; API tracker (`record_api_call`); callers through one channel per request |
| Retry executor, circuit breaker (`retry.rs`) | breaker: state, failure count, last failure (one mutex); `RetryMetrics` (another) | `execute`, `get_circuit_breaker_state`, `get_metrics`, `reset_metrics` | API client runs every request inside `execute` |
| Rate limiter (`rate_limiter.rs`) | tokens, last refill (two mutexes); semaphore; window tracker | `acquire_permit`, dropping the permit, `get_rate_limit_status` | API client takes a permit for each attempt |
| API client (`api.rs`) | limiter, executor, metrics, HTTP client; token by value | `make_request`, `fetch_posts`, `check_subreddit_access`, ... | limiter, executor, metrics, Reddit |
| OAuth client (`lib.rs`) | `auth_state`: none, pending (CSRF token, PKCE verifier), authenticated, expired | `generate_auth_url`, `handle_callback`, `refresh_token`, `set_token`, `ensure_authenticated`, fetches | makes a new API client for each fetch, so limiter, breaker and metrics start afresh |
| Metrics (`metrics.rs`) | totals, averages, hourly buckets, endpoint counts | `record_request`, `get_metrics`, `reset` | written by the API client |
| API tracker (`api_tracker.rs`) | configuration in memory; tables of calls, usage windows, alerts, metrics, configuration | `record_api_call`, usage stats, alerts: acknowledge, resolve; `cleanup_old_data` | SQLite; queue and dashboard call it |
| Usage dashboard (`usage_dashboard.rs`) | cached dashboard with its time | `get_dashboard_data`, `refresh`, percentiles, trends | tracker, queue statistics, SQLite |
| Database (`database/src/lib.rs`, `database/migrations`) | tables of posts, settings, tokens, actions, subreddits | save and read of each, `run_migrations` | SQLite |
| Error recovery (`likeminded-core/src/error_recovery.rs`, `error_utils.rs`) | the locals of a call | choice of a strategy per error, two retry loops | any caller |
| Background service, embedding engine, LLM interface | none | `todo!()` | none |
| GUI, `main` | selected subreddit | one message | configuration |

Behaviours that are hard, and what makes each component correct:

- **Request queue.** Locks are taken one after the other and given up between
  steps; each SQL statement may fail after memory has changed; cancellation may
  come at any time; a crash loses memory and keeps the table. It is correct when a
  request has one owner at a time, is not sent more often than its retries allow,
  is not lost while nothing fails, and when memory, channels and table agree.
- **Retry executor.** Calls admitted in one state of the breaker report to it in
  another. It is correct when the breaker's fields agree, it opens after a streak,
  never blocks for ever and never stays half-open, and calls return.
- **Rate limiter.** The clock is read before the locks, refill and taking are two
  critical sections, sleepers race for the token they slept for. It is correct
  when it grants at most its rate and its burst over any interval, no less than
  that, keeps its permits, and never stalls with everybody asleep.
- **API client, OAuth client.** Early returns, states replaced before the step
  that may fail, errors flattened by one layer and matched by the next. Correct
  when each error reaches the arm meant for it, a request is counted once, a token
  is refreshed before it is used expired, and a failed exchange or refresh leaves
  a state the user can go on from.
- **Tracker, dashboard, database, metrics.** Several statements without a
  transaction; read-modify-write of usage windows; cleanup against recording;
  a cache written by whoever finishes last. Correct when totals match the calls
  recorded, alerts are raised once, and cached data is no older than promised.
- **Error recovery.** Three tables about the same errors, written apart; two loops
  that count differently; errors that change from round to round. Correct when a call
  makes the attempts its strategy states and sleeps as service and strategy ask.

## Modules

| Module | Contents |
|---|---|
| `RequestLifecycle` | abstract: a request waits, runs at most `MaxRuns` times, never twice at once, and stays closed |
| `RequestQueue` | the queue; its refinement of `RequestLifecycle`; properties |
| `RequestQueueProofs` | theorems about owners, attempts and rows, about memory, replies and the refinement, and about how requests end |
| `RetryExecutor`, `RetryExecutorProofs` | retries and breaker; theorems |
| `PermitPool` | abstract: what the limiter promises to requests in flight |
| `RateLimiter`, `RateLimiterProofs` | limiter; its refinement of `PermitPool`; theorems |
| `ApiClient`, `ApiClientProofs` | the client: composes `RetryExecutor`, `PermitPool` and the metrics; theorems |
| `OAuthClient`, `OAuthClientProofs` | login flows, refresh, restored tokens; theorems |
| `UsageMetrics` | what `record_request` makes of the metrics, as operators |
| `ApiTracker` | the tracker and its tables, using `UsageMetrics` |
| `UsageQueries` | the dashboard's queries on those tables and what is made of their rows |
| `UsageDashboard` | the dashboard and its cache, beside the tracker |
| `UsageProofs` | theorems about the four modules before, and the lemmas about folds and sums they need |
| `Database`, `DatabaseProofs` | migration, saves and `get_config`; theorems |
| `ErrorRecovery`, `ErrorRecoveryProofs` | strategies and both retry loops; theorems |
| `MC...` | the constants of each run |

Each component's module has a block of *faulty variants*: operators nothing uses,
each a bug that would be easy to write. Putting one in the place of the operator
it is a variant of makes a run report a violation; that shows the property can
tell the code from a broken one.

### Request queue

A step is one lock-protected block or one SQL statement. `CheckSize`, `SaveRow`
and `Publish` are the three parts of `enqueue_request` (127-136, 159, 162-175);
`Pop`, `PutBack` and `Fetch` those of `process_next_request` (185-216); `Start`,
`Call`, `Complete`, `ScheduleRetry`, `SaveRetry`, `GiveUp`, `Forget`, `Record` and
`Reply` those of `execute_request` and what it calls (219-416); `Cancel` holds all
three locks (546-556). The UPDATE of `cancel_request` names a status its `match`
does not know and so does nothing: it is part of `Cancel`. `Restart` is a crash and
`RequestQueue::new` on the same table. `Tick` is a minute.

Times are relative: an entry knows how long it must still wait. Entries that are
overdue are therefore not ordered among each other, which allows every order the
code can produce. A request is one call and its fresh id. Left out: the end of a
channel the caller holds, `timeout_duration` (nothing reads it), payload columns.

### Retry executor

`Admit` and `Block` are the two answers of `allow_request` (272-292), `Succeed` and
`Fail` the end of the operation, with any error `get_retry_strategy` distinguishes
(162-195),
`Wake` the end of a sleep; `RecordSuccess` / `TallySuccess` and `RecordFailure` /
`TallyFailure` are the blocks under the breaker's and the metrics' mutex. The
breaker's time is the age of the last failure, up to the recovery timeout, beyond
which the code does not distinguish. `streak` is a history variable: failures
recorded since a success was.

### Rate limiter

`Enter` and `Drop` are the semaphore (tokio's: first come, first served),
`ReadClock`, `Refill` and `Take` the three parts of `TokenBucket::acquire` (46,
49-58, 61-70), `Wake` the end of its sleep, `Record` the window (131-135),
`AskStatus` and `View` the status. A tick is the time in which the bucket earns a
unit and a token is `Cost` units, so that tokens are whole numbers and the rate
needs no constant of its own. Two ideal buckets run beside the real one as history
variables: `least` has the same capacity, `most` holds `MaxDelay` units more, the
worth of the longest delay between reading the clock and taking a token.

### API client

A composition: `Executor` is `RetryExecutor` on the same variables, `Pool` is
`PermitPool`, which `RateLimiter` implements. `Request` is the breaker's answer to
`make_request_with_context` (169-212); `Send` is the end of `acquire_permit` and the
request going out (244-264); `ReceiveError` is a status or transport error with an arm
of its own (278-338), which returns at once, so that dropping the permit and the
executor's decision are the same step; `Receive`, `Count` and `Return` are a response,
its count under the metrics' lock (341-353), and its end, once the tracker has taken
note or failed, if the client has one (355-382): the permit is held until then;
`Conclude` and `Wake` are the executor's steps (`retry.rs` 299-404). Callers are
concurrent, as in `get_multiple_subreddit_posts` (507-553). Left out: the tracker's own
steps, which are in `ApiTracker`; averages, hourly and per-endpoint counts, which are in
`UsageMetrics`; URLs and bodies. A body that does not parse fails after the executor has
returned and changes no state.

### OAuth client

All methods take `&mut self`, so there is one call at a time, `op`; `auth` is
`auth_state`. `GenerateAuthUrl` (`reddit-client/src/lib.rs` 111-134), `HandleCallback`
(136-187) and `SetToken` end or begin a login; `StoreExchanged` and `StoreRefreshed` are
the ends of `handle_callback` and `refresh_token` after Reddit's answer, `ReturnError`
their `?`, `Fetch` is `ensure_authenticated` (364-397) and `FinishFetch` the end of the
requests after it. `DropCall` is a caller that drops the future at its `await`.
External, as the code uses them: the browser (`Approve`: a callback of an approved flow
may come at any time, twice, or never), Reddit (`AcceptCode`, `AcceptRefresh`, `Refuse`:
a code is good once and with its own verifier; a refresh token may be replaced; an
answer may be lost after Reddit has acted), and the application (`Save`, `Crash`,
`Start`). History: `latest`, how often each verifier was `sent`, and `lost`, that an
answer never came or an old token was restored, after which nobody can promise that the
refresh token is good.

### Tracker, metrics and dashboard

`Begin`, `Save`, `UpdateWindow`, `CreateAlert` and `Count` are the steps of
`record_api_call` (`api_tracker.rs` 157-217): a record, one statement each for the call,
its window and up to two alerts, then the metrics under their lock. `FailStatement` is
the `?` of each. `StartCleanup`, `CleanCalls`, `CleanWindows` and `CleanAlerts` are
`cleanup_old_data` (571-611), which computes one cutoff and uses it in the first two of
three statements. `Crash` keeps the tables and loses metrics and calls under way.
History: `dropped`, calls saved whose window was not updated; `reported`, calls that
returned `Ok`; `cleaned`, the latest cutoff. `UsageMetrics` keeps the average the way
`metrics.rs` 138 does: from the rounded average, not from a sum.

`UsageQueries` gives each query of `usage_dashboard.rs` as the sets of rows it may
return (an `ORDER BY ... LIMIT` may leave out any of those that rank alike) and the
functions from rows to numbers: totals, rates, percentiles, rankings, counts per hour
and day. `UsageDashboard` runs them: `Generate` starts seven sections that run together
(`tokio::join!`, 171-179), each a sequence of queries; `RunQuery` and `FailQuery` are
their answers; `Store` writes the cache over whatever is there by then (159-163),
`GiveUp` returns the error (182-188), `ReadCache` finds it fresh (144-153). History in
the cached data: the calls `known` to have returned `Ok` before.

### Database

A call is the sequence of SQL statements it makes (`todo`): `run_migrations` nine,
`save_config` one for each setting given and one for each key in the order of a hash
map, the others one. `Send` reads the clock and sends a statement; an action for each
kind carries it out; `Refuse` is a constraint that says no, `Fail` any other error,
after which the statements left are not made; `Crash` keeps the file. The migration has
no `IF NOT EXISTS` and no transaction: a second one ends at its first statement, and one
that was cut off can never be completed. History: what each call `gives`, the values it `met`
in calls that ran at the same time, and `expected`, the values each setting may have from
what callers asked for and were told. A call that returned `Ok` leaves what it gave and
what it met; one that failed may have been carried out or not; a migration that was
refused at its first statement, as every second one is, wrote nothing and takes nothing
back.

### Error recovery

`Retryable`, `RetryAfter` and `Strategy` are the three tables, over every error as
far as they tell them apart. `Recover` is `apply_strategy`, `RetryPlainly` the loop
of `error_utils.rs` 505-542; `Succeed` and `Fail` are the operation's answers,
any error in any round; `Wake` ends a sleep and doubles the delay. Delays are
numbers: tenths of a second. History: the `cause` that chose the strategy, and how long
the call has `waited` in all.

## Runs

| Run | Question | Bounds |
|---|---|---|
| `rq_faults` | Do ownership, attempts, memory, rows and replies survive SQL errors, panics, cancellations and a crash, and is the queue a `RequestLifecycle`? | 2 requests, 2 tasks, 2 retries, 1 crash, size limit 1 |
| `rq_liveness` | When nothing fails, does every stored request settle and is its caller released? | 2 requests, 1 task, 2 retries |
| `rq_result` | Is a success delivered to its caller? It is not: see below | 2 requests, 1 task, 1 retry |
| `retry_breaker` | Do the breaker's fields agree under late reports, does it open only after a streak, do the metrics add up, do calls end, does an open breaker lapse and a half-open one decide? | 2 callers, 3 attempts, threshold 2, recovery 2, 5 calls |
| `rl_bucket` | Is the bucket as good as the ideal ones, is the limiter a pool of permits? | 3 tasks, 2 permits, token of 2 units, delay 1 |
| `rl_progress` | Is somebody served while tasks sleep for tokens? | 2 tasks, 2 permits |
| `api_requests` | Who holds permits, does what a call does follow from its replies, is it counted once, is every attempt answered? | 2 callers, 1 permit, 2 attempts, threshold 2, recovery 1, 3 calls, all replies |
| `oauth` | Is a verifier sent once, can only the latest flow log in, what does a failed refresh leave, are tokens sent and kept that are good? | 2 flows, 3 tokens of 1 and 3 ticks, buffer 1, 3 ticks |
| `recovery` | Do both loops use their budget, sleep as long as the errors of their rounds and the first one ask and no longer in all than the strategy allows, and return? | all errors; delays asked for 0, 3, 40 and 400 s; 3 retries |
| `usage_tracker` | Do windows, log and metrics agree, do the dashboard's sections agree, does cleanup change what it shows? | 2 recorders, 2 calls of 3 kinds, 1 cleanup, 1 alert update, 1 fault, 4 instants in 3 windows, hours and days |
| `usage_dashboard` | Has a cached dashboard the answers of all its queries, and does it leave out a call that had been reported? | 2 readers, 2 sections, 1 recorder, 1 call, 1 cleanup, 1 fault, 4 instants in 2 days |
| `database` | Do constraints hold, do settings read back, do rows stay? | 2 callers, 2 migrations, 3 other calls, 1 fault, 2 instants |

Why the bounds suffice. Queue: the hazards need two tasks on one request, or a task and
a cancellation; two requests compete for the heap; two retries give a first, a middle
and a last attempt; a second crash meets nothing the first did not (rows are never read
back). Breaker: one caller straggles while the other opens and probes, a threshold above
one so that a count exists, enough calls to open, half-open and close. Limiter: two
permits make two tasks race while a third waits; a token of two units leaves the bucket
between empty and one token; `MaxDelay` 1 allows one task to overtake another. Client:
with one permit every attempt contends; two failed calls open the breaker and the third
is blocked or probes it. OAuth: a replaced flow needs two, rotation after a login two
tokens, a lost answer a third; the lifetimes lie on either side of the buffer. Recovery:
the delays lie below, between and above all caps. Tracker: the cutoff of the cleanup may
fall inside a window and between two; a call may be slow, limited (429) or never answered,
so that all three alerts, failed calls and percentiles of different times occur; the four
instants lie in three hours, so that the first hour is more than a day old in the last.
Dashboard: a generation may last from one instant to any later one, with the call told of
before or after it began and the cleanup between its queries; two sections of one query
each and two readers interleave as any more would, since the property relates each section
alone to what was reported. Liveness of the readers is not checked at these bounds, which
matter more: that a read comes to an end is proved instead (`ReadersComeToAnEnd`).
Database: a migration cut off and tried again, and two callers that save the
same setting, with a third call to see what is read back. The theorems lift the safety
results to any bounds where there are some.

Deadlock. In the queue, the executor and the client a restart, a `reset_metrics` or a
tick is always possible, in the limiter time always can pass, and OAuth and recovery
always can start again: deadlock is checked there and never occurs. `usage_tracker`,
`usage_dashboard` and `database` stop when the calls, faults and ticks of their bounds
are used up, and are not checked for it.

Fairness. Weak fairness of each task's steps: a tokio task that can run is polled,
operations end (the HTTP client has a timeout of 30 s, `api.rs` 114), SQL statements
return with an answer or an error, sleeps end. Weak fairness of `Tick`: time passes.
Nothing is assumed of callers: nobody has to enqueue, cancel, ask or crash. In
`ApiClient` fairness of `Send` is what the limiter provides: its semaphore is first
come, first served, and `rl_progress` shows that tokens are granted while tasks sleep
for them. `OAuthClient`, `ApiTracker`, `UsageDashboard` and `Database` assume no fairness.

## Where code, comments and tests disagree

`rq_result` shows that a success is never delivered: its channel is removed
(`request_queue.rs` 334) before the result is sent (262), which the comment there says
goes "to waiting caller".

The models follow the code in these as well; no run is about them:

- The heap pops the lowest priority and the latest schedule first (`request_queue.rs`
  52); the comment above and the test at 602 say the opposite.
- A retry (385) stores a cancelled request again, and the row of a cancelled request
  stays `queued`: its UPDATE (466) names a status the `match` does not know (560).
- The size check (130) and the push (168) are apart, so calls that check together
  exceed `max_queue_size`; put-back and retry push without a check.
- Burst and refill together exceed `max_requests` in one window (`rate_limiter.rs`
  17, 62). A task that was overtaken between reading the clock (46) and the lock
  moves `last_refill` back (57), and the same time is credited twice: by the delay,
  normally microseconds. `RateKept` shows that this is the only way to exceed the
  rate; `overtaken` marks it.
- `check_subreddit_access` matches on errors (`api.rs` 579-586) that the executor has
  flattened to `Internal` (`retry.rs` 401): a 403 is an error to its caller, not
  `Ok(false)`. A 404 is made an error (311) that counts as transient (`retry.rs` 179).
  Responses that end in an error are in neither the metrics nor the tracker's log
  (341), so a 429 raises no alert.
- Each fetch makes an API client of its own (`reddit-client/src/lib.rs` 423), so
  limiter, breaker and metrics start afresh.
- I/O and serialization errors get three attempts from the strategy table
  (`error_recovery.rs` 162) and one from the loop, since `is_retryable` does not name
  them (`error_utils.rs` 54). The same holds of a `RequestFailed` with 429 (two, 142) or
  5xx (three, 150): no `RequestFailed` is retryable (`error_utils.rs` 52).
- A recovery runs the operation at once (`error_recovery.rs` 224-228) and waits only
  between runs. For a `RateLimited` the comment says "wait for specified time then retry"
  (117): the time the error names is not waited out before the first run, only before the
  second (`CauseRespected`). `HintsRespected` is therefore about the errors that runs end
  with, not about the one the recovery starts from.
- "Retry once with longer timeout" (110) is one run of the operation, which is never
  repeated (`max_attempts` 1, 234).
- "Retry with short backoff" (97) of a locked database starts at 100 ms, but each round
  sleeps 5 s, the cap: `retry_after` of a `CoreError` has a default of 5 s
  (`error_utils.rs` 67) that takes the back-off's place (`error_recovery.rs` 239). Only a
  `RateLimited` that names no time is left to the back-off.
- Of two dashboards generated together the one stored last may have the older data
  (`usage_dashboard.rs` 161). The percentile test (864-865) expects 500 and
  900 where the index (844) gives 600 and 1000.

## Proofs

| Module | Theorem | Says |
|---|---|---|
| `RequestQueueProofs` | `OneOwner`, `AttemptLimit`, `RowsStayTerminal` | `ExclusiveOwner`, `AttemptsBounded`, `TerminalRowsFinal` |
| `RequestQueueProofs` | `MemoryStaysInStep`, `RowsStayInStep`, `NoReplyTwice` | `MemoryAgrees`, `RowsAgree`, `OneReplyPerAttempt` |
| `RequestQueueProofs` | `QueueImplementsLifecycle` | the queue implements `RequestLifecycle` |
| `RequestQueueProofs` | `NothingIsLost`, `WaitersEnd` | where no statement fails, every accepted request that is not settled waits or runs; a channel is dropped by the task that settles it |
| `RetryExecutorProofs` | `BreakerAgrees`, `ProbeUnderWay`, `RetriesProportionate`, `OpensOnStreak` | `BreakerConsistent`, `HalfOpenHasProbe`, `RetriesAddUp`, `OpensAfterStreak` |
| `RetryExecutorProofs` | `CallsRunOut` | a call takes at most `2 * MaxAttempts + 3` steps, whatever the others do |
| `RateLimiterProofs` | `PermitsAreConserved`, `RateIsKept`, `NoTokenIsLost` | `PermitsConserved`, `RateKept`, `NothingLost` |
| `RateLimiterProofs` | `LimiterIsPool` | the limiter implements `PermitPool` |
| `ApiClientProofs` | `RunsExecutor`, `BreakerAgreesInClient`, `ProbesAndRetriesInClient`, `OpensOnStreakInClient` | the client's steps are the executor's or leave it alone, so its theorems carry over |
| `ApiClientProofs` | `UsesPool` | the client is a user of `PermitPool`, which the limiter implements |
| `ApiClientProofs` | `PermitsOfAttempts`, `AnswersDecide`, `CallsCountedOnce` | `PermitsAreOfAttempts`, `EndsAsAnswered`, `CountedOnce` |
| `ApiClientProofs` | `RequestsRunOut` | a request takes at most `5 * MaxAttempts + 6` steps |
| `OAuthClientProofs` | `VerifierOnce`, `OnlyLatestFlow`, `SendsTokenInState`, `RefreshTokenStaysValid`, `LoginEndsOnPurpose` | `VerifierSentOnce`, `LatestFlowLogsIn`, `SendsUsableToken`, `RefreshTokenValid`, `LoginEndsKnowingly` |
| `DatabaseProofs` | `TablesHold`, `SavedIsRead`, `RowsKept` | `TypeOK`, `ConfigReadsBack`, `RowsStay` |
| `ErrorRecoveryProofs` | `BudgetKept`, `SleepsAsAsked` | `AttemptBudget`, `WaitsAsAsked` |
| `ErrorRecoveryProofs` | `CallsRunOut` | each step of a call lowers a measure of what it has left |
| `UsageProofs` | `TablesAgree`, `MetricsAddUp` | `RecordsAgree`, `MetricsAgree` |
| `UsageProofs` | `SectionsShowTheSame`, `CleanupsAreInvisible` | `SectionsAgree`, `CleanupIsInvisible` |
| `UsageProofs` | `CachedDataAreSound` | `CacheIsSound` |
| `UsageProofs` | `TablesAgreeInDashboard` | the dashboard's steps are the tracker's or leave its tables alone, so its theorems carry over |
| `UsageProofs` | `ReadersComeToAnEnd` | each step of a reader lowers a measure of the queries it has left |

They assume only the `ASSUME`s of the modules: naturals where the code has unsigned
integers, a threshold, burst and rate above zero, finitely many limiter tasks, client
callers, providers and endpoints, an hour no longer than a day, and tables kept for at
least as long as the queries look back.

*Queue.* `ExclusiveOwner` alone is not inductive: a call that is still on its way
must not have left anything in memory (`CallerInv`), or its `Publish` would add a
second entry; a row that is terminal must have no entry and no task still to decide
(`RowInv`), or a retry would follow a completion; and whoever holds a request must
know of all its attempts (`AttemptInv`), or the count could start again. `IInv` is
their conjunction with the types.

`MemoryAgrees` needs to know why a request may be missing (`MemoryInv`): a task that has
not decided yet and whose request is gone was cancelled. `RowsAgree` needs each task's
copy of the request (`RecordsInv`), `OneReplyPerAttempt` a count: replies received and
replies still to be sent are together no more than the attempts (`RepliesInv`). With
these each step of the queue maps to one of the life cycle or to a stutter.

*Breaker.* `BreakerConsistent` and `HalfOpenHasProbe` are inductive together with the
types, which say of each call's attempt what its stage implies. `RetriesAddUp`
rests on that attempt being between 1 and `MaxAttempts - 1` when it is tallied,
`OpensAfterStreak` on a failure count that never exceeds the streak (`CountsStreak`).

*Limiter.* `RateInv` strengthens `RateKept`: what tokens and the time since the last
refill are worth never exceeds the ideal bucket, and a task about to take a token
has seen a refill no older than its own reading (`ReadingsRecent` bounds that). A
refill keeps the sum of tokens and age up to the capacity, taking lowers both sides,
a tick raises both. `PermitsConserved` needs `LineOfWaiting`: a permit that is passed
on goes to a task that has none. `LimiterIsPool` follows: a task that is granted a token
owns a permit and does not hold one yet, which leaves room among the holders.

*Client.* `RunsExecutor` maps each action to one of the executor's or to a stutter; the
executor's own theorems are then cited through an instance of its proof module, types
and `BreakerConsistent` among them. `PermitsAreOfAttempts` and `EndsAsAnswered` are
inductive together: that a woken call does not seem to have a response it never got
needs that it slept on an error. `CountedOnce` counts calls still under way, and those
of them whose response is with the tracker.

*OAuth.* A verifier is sent by the step that takes it out of the pending state; that it
was not sent before needs `FlowInv`: a pending flow is the latest and its verifier
unsent, and so are those of flows to come. `RefreshTokenValid` needs `AnswerValid`,
which says the same of an answer that has come and is not stored yet.

*Database.* `TablesHold` needs `MigrationInv`: a migration that is at its end has its
settings behind it, since they come before the subreddits. `SavedIsRead` rests on
`SavingInv`: what a call under way gives is expected, and either its write is still to
come, or the table has its value, or a call it met has written over it since; a migration
that is still to seed gives every setting that is not there yet. `RowsKept` looks at each statement by itself, with the types of `CallersInv`.

*Error recovery.* `IInv` adds two things to the properties: an idle call has used
nothing, and a recovery keeps to the strategy it chose (`StrategyKept`): it has waited at
most the cap for each run so far, and its delay is the strategy's until the first sleep.
The rest of the work is in the tables: that every strategy has a budget and every delay is
a number, over all errors.

*Tracker.* `TrackerInv` adds to `RecordsAgree` who knows a call. A call that is told of
has been saved and is nobody else's, nor dropped or reported yet (`CallsUnderWay`), so
that counting it in its window leaves the other windows' sets alone; every call is from
the past and has a number given out (`CallsKnown`), so that a new one is new; a cutoff
lies the retention back, and further by the time it is used (`CutoffsAreOld`).
`CleanupsAreInvisible` needs no more than these cutoffs and that an alert is resolved
after it is raised (`AlertsInOrder`): what each statement deletes is older than anything
a query reads.

*Metrics.* `MetricsSound` is `MetricsAgree` with what keeps it so: all hours begin at
multiples of an hour, none after the clock, any two no more than a day apart, and there is
one once a request was counted. That only the last entry is looked at is then enough. The
average loses less than half
a unit a request: the rounding of each step is bounded by a product of average and count.

*Sections.* `SectionsAgree` follows from `TrackerInv` in each state. Grouping by endpoint,
hour or day counts a call once (`SumCounts`); the limit on endpoints leaves out a call or
none; the current window began within the hour; a percentile exists at its index (the
least response time with enough calls up to it) and grows with it.

*Dashboard.* `DashboardInv` says of a reader that what it has read so far counts every
call it knew to be reported that is still of the day, and that unless a query failed it
has the answers of those its sections have behind them; and of the cache the same with
the time it was stored. It needs `ReportedIsRecorded` of the tracker, when a query runs, and
that the clock only moves calls out of the day.

*Folds.* The library defines sums and folds by recursive functions that `CHOOSE` an
order. `UsageProofs` first proves induction over finite sets and numbers with sets in
place of predicates (`InductionOnSets`, `InductionOnNumbers`), from that the existence of
the recursive function (`FoldExists`, `AddsUpExists`), that its order does not matter
(`AddsUpAnyhow`), and then `SumStep`, `SumChanged` and `SumCounts`, which the theorems
use.

*Coming to an end.* What liveness rests on besides fairness is proved. A call of the
executor, of the client, of error recovery or of the dashboard has a measure (`StepsLeft`,
`ReaderLeft`) that each of its own steps lowers and no step of anything else raises: it
cannot go on for ever, so that its steps being taken is all that is left to assume for
`CallEnds` and `CallReturns`, and for the dashboard's readers to return. That it is never
without a step to take is checked with the first two. In the client the attempts dominate: each has at most five steps. For
the queue, `FateInv` says that where no statement fails and no addition panics, an
accepted request that is not settled has its row, its channel, and an entry in the heap
or a task, so that `EventuallySettled` is a matter of the tasks going on; and that a
settled request keeps its channel only until the task that settled it drops it, so that
`WaiterReleased` is. Why settled rows stay so (`StatusStays`) is shared with
`RowsStayTerminal`.

Only model-checked: liveness itself, which the prover cannot do under fairness
(`EventuallySettled`, `WaiterReleased`, `CallEnds`, `BreakerRecovers`, `SomeoneServed`,
`CallReturns`), and with it the fairness half of `ImplementsExecutor`. Every
invariant and every action property that a run checks is proved. No module uses a
recursive operator.

## Order of work

1. `RequestQueue` with `RequestLifecycle`: the component with most concurrency.
2. `RetryExecutor`, `RateLimiter`, then `ApiClient` with `PermitPool` that composes
   them.
3. `OAuthClient`, `ErrorRecovery`.
4. `UsageMetrics`, `ApiTracker`, `UsageQueries`, `UsageDashboard`.
5. `Database`.

All are done, and every safety property is proved. Left: the bounds of the executor's
backoff delay.

## Not modelled

Background service, embedding engine and LLM interface are stubs (`todo!()`). The GUI
has one message that sets one field; `main` reads the configuration. Domain types
are data. Generated code: `Cargo.lock` only. Inside the modelled components:

- Executor: how long a retry sleeps, on which no state depends. All components: jumps
  of the wall clock. A future dropped half way is modelled in the OAuth client only.
- Tracker: reads of single columns (`get_requests_per_minute` and its like), endpoint
  configurations, which nothing reads.
- Dashboard: rates that divide a total by a fixed time, exports to JSON.
- Database: reads that return rows as they are; `reddit_api_stats`, which nothing uses.

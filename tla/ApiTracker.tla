------------------------------ MODULE ApiTracker ------------------------------
(***************************************************************************)
(* ApiTracker (reddit-client/src/api_tracker.rs) and the tables it keeps   *)
(* (database/migrations/002_enhanced_api_tracking.sql).  Recording a call  *)
(* is up to four SQL statements and an update of the metrics, cleaning up  *)
(* is three statements; none of them share a transaction, each may fail,   *)
(* and the process may stop between any two.                               *)
(***************************************************************************)
EXTENDS UsageMetrics, FiniteSets

CONSTANTS
  Recorders,        \* tasks that call record_api_call
  Requests,         \* the requests they record: endpoint, status, time, limited
  WindowLength,     \* 60 s
  SlowThreshold,    \* response_time_threshold
  Retention,        \* 30 days
  AlertRetention,   \* 7 days
  StartTime,        \* what the clock shows at first
  MaxTime,          \* bound: ticks
  MaxCalls,         \* bound: calls recorded
  MaxUpdates,       \* bound: alerts acknowledged or resolved
  MaxCleanups,      \* bound: cleanups
  MaxFaults         \* bound: failed statements and crashes

ASSUME TrackerAssumption ==
  /\ \A r \in Requests :
       /\ r.endpoint \in Endpoints
       /\ r.status \in Nat /\ r.time \in Nat /\ r.limited \in BOOLEAN
  /\ WindowLength \in Nat \ {0}
  /\ {SlowThreshold, Retention, AlertRetention, StartTime, MaxTime} \subseteq Nat
  /\ StartTime <= MaxTime
  /\ {MaxCalls, MaxUpdates, MaxCleanups, MaxFaults} \subseteq Nat

VARIABLES
  calls,      \* table api_call_tracking
  windows,    \* table rate_limit_windows, by window_start
  alerts,     \* table api_usage_alerts
  metrics,    \* the MetricsCollector
  recorder,   \* where each recorder is, and its ApiCallRecord
  cleaner,    \* where initialize is in cleanup_old_data, and its cutoff
  now,        \* the clock
  spent,      \* how much of each bound is used up
  dropped,    \* history: calls saved whose window was not updated
  reported,   \* history: calls that returned Ok
  cleaned     \* history: the latest cutoff used

tables == <<calls, windows, alerts>>
tasks == <<metrics, recorder, cleaner>>
histories == <<dropped, reported, cleaned>>
trackerVars == <<tables, tasks, now, spent, histories>>

Never == -1
NoCall == [id |-> 0]

Bounds == [calls |-> MaxCalls, updates |-> MaxUpdates, cleanups |-> MaxCleanups, faults |-> MaxFaults]

Spend(kind) == spent[kind] < Bounds[kind] /\ spent' = [spent EXCEPT ![kind] = @ + 1]

-----------------------------------------------------------------------------
(* Faulty variants of operators below.  Nothing uses them: each is a bug that *)
(* would be easy to write, and each makes the run report a violation.         *)

UpToCutoff(start, cutoff) == start <= cutoff

AnyResolved(a) == a.resolved # Never

-----------------------------------------------------------------------------
At(c, stage) == recorder[c].stage = stage
Goto(c, stage) == recorder' = [recorder EXCEPT ![c].stage = stage]
Idle == [stage |-> "idle", call |-> NoCall]
Leave(c) == recorder' = [recorder EXCEPT ![c] = Idle]
CleanerIdle == [stage |-> "idle", cutoff |-> Never]

WindowOf(time) == (time \div WindowLength) * WindowLength

TrackerInit ==
  /\ calls = {} /\ windows = <<>> /\ alerts = {}
  /\ metrics = NoMetrics
  /\ recorder = [c \in Recorders |-> Idle]
  /\ cleaner = CleanerIdle
  /\ now = StartTime
  /\ spent = [calls |-> 0, updates |-> 0, cleanups |-> 0, faults |-> 0]
  /\ dropped = {} /\ reported = {} /\ cleaned = Never

\* record_api_call looks at the clock and makes the record.
Begin(c, r) ==
  /\ At(c, "idle")
  /\ Spend("calls")
  /\ recorder' = [recorder EXCEPT ![c] =
                    [stage |-> "saving", call |-> [id |-> spent.calls + 1, at |-> now, request |-> r]]]
  /\ UNCHANGED <<tables, metrics, cleaner, now, histories>>

\* save_api_call_record
Save(c) ==
  /\ At(c, "saving")
  /\ calls' = calls \cup {recorder[c].call}
  /\ Goto(c, "windowing")
  /\ UNCHANGED <<windows, alerts, metrics, cleaner, now, spent, histories>>

NoWindow == [requests |-> 0, ok |-> 0, limited |-> 0]

Stored(start) == IF start \in DOMAIN windows THEN windows[start] ELSE NoWindow

\* What the upsert makes of the window: a fresh row, or one more in each column.
Upserted(start, r) ==
  [requests |-> Stored(start).requests + 1,
   ok       |-> Stored(start).ok + (IF Succeeded(r) THEN 1 ELSE 0),
   limited  |-> Stored(start).limited + (IF r.limited THEN 1 ELSE 0)]

\* The alert to raise next, if any.
SlowOrCounting(r) == IF r.time > SlowThreshold THEN "slow_response" ELSE "counting"
AfterWindow(r) == IF r.limited THEN "rate_limit_hit" ELSE SlowOrCounting(r)

\* update_rate_limit_window: one statement
UpdateWindow(c) ==
  LET r == recorder[c].call.request
      start == WindowOf(recorder[c].call.at)
  IN
  /\ At(c, "windowing")
  /\ windows' = [s \in DOMAIN windows \cup {start} |->
                   IF s = start THEN Upserted(start, r) ELSE windows[s]]
  /\ Goto(c, AfterWindow(r))
  /\ UNCHANGED <<calls, alerts, metrics, cleaner, now, spent, histories>>

\* check_for_alerts: one statement for each alert
CreateAlert(c, type) ==
  /\ At(c, type)
  /\ alerts' = alerts \cup {[call |-> recorder[c].call.id, type |-> type, at |-> now,
                             acknowledged |-> FALSE, resolved |-> Never]}
  /\ Goto(c, IF type = "rate_limit_hit" THEN SlowOrCounting(recorder[c].call.request) ELSE "counting")
  /\ UNCHANGED <<calls, windows, metrics, cleaner, now, spent, histories>>

\* The metrics are counted and the call returns.
Count(c) ==
  /\ At(c, "counting")
  /\ metrics' = Recorded(metrics, recorder[c].call.request, now)
  /\ reported' = reported \cup {recorder[c].call}
  /\ Leave(c)
  /\ UNCHANGED <<tables, cleaner, now, spent, dropped, cleaned>>

\* `?` returns the error; the statements left are not made.
FailStatement(c) ==
  /\ recorder[c].stage \in {"saving", "windowing", "rate_limit_hit", "slow_response"}
  /\ Spend("faults")
  /\ Leave(c)
  /\ dropped' = IF At(c, "windowing") THEN dropped \cup {recorder[c].call} ELSE dropped
  /\ UNCHANGED <<tables, metrics, cleaner, now, reported, cleaned>>

Acknowledge(a) ==
  /\ Spend("updates")
  /\ alerts' = (alerts \ {a}) \cup {[a EXCEPT !.acknowledged = TRUE]}
  /\ UNCHANGED <<calls, windows, tasks, now, histories>>

\* An alert may be resolved again, at a later time.
Resolve(a) ==
  /\ Spend("updates")
  /\ alerts' = (alerts \ {a}) \cup {[a EXCEPT !.resolved = now]}
  /\ UNCHANGED <<calls, windows, tasks, now, histories>>

\* initialize, at any time and beside the recorders
StartCleanup ==
  /\ cleaner = CleanerIdle
  /\ Spend("cleanups")
  /\ cleaner' = [stage |-> "calls", cutoff |-> now - Retention]
  /\ UNCHANGED <<tables, metrics, recorder, now, histories>>

CallTooOld(time, cutoff) == time < cutoff

CleanCalls ==
  /\ cleaner.stage = "calls"
  /\ calls' = {k \in calls : ~CallTooOld(k.at, cleaner.cutoff)}
  /\ cleaned' = Max({cleaned, cleaner.cutoff})
  /\ cleaner' = [cleaner EXCEPT !.stage = "windows"]
  /\ UNCHANGED <<windows, alerts, metrics, recorder, now, spent, dropped, reported>>

WindowTooOld(start, cutoff) == start < cutoff

CleanWindows ==
  /\ cleaner.stage = "windows"
  /\ windows' = [s \in {s \in DOMAIN windows : ~WindowTooOld(s, cleaner.cutoff)} |-> windows[s]]
  /\ cleaner' = [cleaner EXCEPT !.stage = "alerts"]
  /\ UNCHANGED <<calls, alerts, metrics, recorder, now, spent, histories>>

ResolvedLongAgo(a) == a.resolved # Never /\ a.resolved < now - AlertRetention

\* The clock is read again for the alerts.
CleanAlerts ==
  /\ cleaner.stage = "alerts"
  /\ alerts' = {a \in alerts : ~ResolvedLongAgo(a)}
  /\ cleaner' = CleanerIdle
  /\ UNCHANGED <<calls, windows, metrics, recorder, now, spent, histories>>

FailCleanup ==
  /\ cleaner # CleanerIdle
  /\ Spend("faults")
  /\ cleaner' = CleanerIdle
  /\ UNCHANGED <<tables, metrics, recorder, now, histories>>

\* The tables survive, the metrics and the calls under way do not.
Crash ==
  /\ Spend("faults")
  /\ dropped' = dropped \cup {recorder[c].call : c \in {c \in Recorders : At(c, "windowing")}}
  /\ recorder' = [c \in Recorders |-> Idle]
  /\ cleaner' = CleanerIdle
  /\ metrics' = NoMetrics
  /\ UNCHANGED <<tables, now, reported, cleaned>>

Tick ==
  /\ now < MaxTime /\ now' = now + 1
  /\ UNCHANGED <<tables, tasks, spent, histories>>

RecordStep(c) ==
  \/ \E r \in Requests : Begin(c, r)
  \/ Save(c) \/ UpdateWindow(c) \/ Count(c) \/ FailStatement(c)
  \/ \E type \in {"rate_limit_hit", "slow_response"} : CreateAlert(c, type)

CleanupStep == StartCleanup \/ CleanCalls \/ CleanWindows \/ CleanAlerts \/ FailCleanup

TrackerStep ==
  \/ \E c \in Recorders : RecordStep(c)
  \/ \E a \in alerts : Acknowledge(a) \/ Resolve(a)
  \/ CleanupStep \/ Tick

TrackerNext == TrackerStep \/ Crash

TrackerSpec == TrackerInit /\ [][TrackerNext]_trackerVars
-----------------------------------------------------------------------------
(* Properties *)

Call == [id : 1..MaxCalls, at : 0..MaxTime, request : Requests]

Window == [requests : Nat \ {0}, ok : Nat, limited : Nat]

Alert == [call : 1..MaxCalls, type : {"rate_limit_hit", "slow_response"}, at : 0..MaxTime,
          acknowledged : BOOLEAN, resolved : {Never} \cup 0..MaxTime]

Recording ==
  {Idle} \cup
  [stage : {"saving", "windowing", "rate_limit_hit", "slow_response", "counting"}, call : Call]

\* The tables hold what their constraints allow (002, 9-110), the tasks what the
\* code does.
TrackerTypeOK ==
  /\ calls \subseteq Call
  /\ DOMAIN windows \subseteq 0..MaxTime
  /\ \A s \in DOMAIN windows : windows[s] \in Window
  /\ alerts \subseteq Alert
  /\ recorder \in [Recorders -> Recording]
  /\ cleaner \in [stage : {"idle", "calls", "windows", "alerts"}, cutoff : Int]
  /\ now \in 0..MaxTime
  /\ spent \in [calls : 0..MaxCalls, updates : 0..MaxUpdates,
                cleanups : 0..MaxCleanups, faults : 0..MaxFaults]

InWindow(s) == {k \in calls : WindowOf(k.at) = s}

BeingWindowed == {recorder[c].call : c \in {c \in Recorders : At(c, "windowing")}}

\* A window counts exactly the calls saved in it, but for those about to be
\* counted and those whose recording failed or was cut off half way (203-204),
\* however cleanups and crashes fall between.  Only of windows that begin before
\* the latest cutoff is nothing known: there the calls of a window's end may be
\* kept and its row deleted (580, 590).
WindowsCountCalls ==
  \A s \in {WindowOf(t) : t \in 0..MaxTime} :
    s >= cleaned =>
      LET counted == InWindow(s) \ (BeingWindowed \cup dropped) IN
      Stored(s) = [requests |-> Cardinality(counted),
                   ok       |-> Cardinality({k \in counted : Succeeded(k.request)}),
                   limited  |-> Cardinality({k \in counted : k.request.limited})]

\* A call that returned Ok has left nothing out (203-217): its row is there, unless
\* a cleanup took it, and its window was told of it.
ReportedIsRecorded ==
  \A k \in reported :
    /\ k.at >= cleaned => k \in calls
    /\ k \notin dropped

\* The tables agree with each other and with what callers were told.
RecordsAgree == TrackerTypeOK /\ WindowsCountCalls /\ ReportedIsRecorded

\* The metrics agree with themselves: see UsageMetrics.
MetricsAgree ==
  /\ TotalsAddUp(metrics)
  /\ AverageNearMean(metrics)
  /\ HoursAddUp(metrics, now)

=============================================================================

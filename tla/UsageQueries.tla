----------------------------- MODULE UsageQueries -----------------------------
(***************************************************************************)
(* The queries of UsageDashboard (reddit-client/src/usage_dashboard.rs) on *)
(* the tables of ApiTracker, and what the code makes of the rows they      *)
(* return.  UsageDashboard runs them.                                      *)
(***************************************************************************)
EXTENDS ApiTracker

CONSTANTS
  MaxRequests,    \* 100, "Reddit's limit"
  ThroughputTime, \* 3 hours
  TrendTime,      \* 30 days of daily counts
  EndpointLimit,  \* 20
  AlertLimit,     \* 50
  RankedFrom,     \* 5: answered calls that rank an endpoint by speed
  RatedFrom       \* 10: answered calls that give an endpoint an error rate

ASSUME QueriesAssumption ==
  /\ {MaxRequests, ThroughputTime, TrendTime} \subseteq Nat
  /\ {EndpointLimit, AlertLimit, RankedFrom, RatedFrom} \subseteq Nat \ {0}
  /\ RankedFrom <= RatedFrom
  /\ WindowLength <= HourLength /\ DayLength % HourLength = 0
  /\ DayLength <= TrendTime /\ TrendTime <= Retention /\ ThroughputTime <= Retention

AllSections ==
  [overview     |-> <<"totals", "peak">>,
   rate_limits  |-> <<"window">>,
   endpoints    |-> <<"endpoints">>,
   alerts       |-> <<"alerts">>,
   queue        |-> <<"queue">>,
   performance  |-> <<"times", "speeds", "errors", "throughput">>,
   usage_trends |-> <<"hourly", "daily", "success", "response">>]

-----------------------------------------------------------------------------
(* Faulty variants of operators below.  Nothing uses them: each is a bug that *)
(* would be easy to write, and each makes a run report a violation.           *)

FromCutoff == {k \in calls : k.at >= now - DayLength}

-----------------------------------------------------------------------------
(* What the queries read *)

InLastDay == {k \in calls : k.at > now - DayLength}

HourlyRows == {k \in calls : k.at > now - DayLength}

DailyRows == {k \in calls : k.at > now - TrendTime}

Answered(rows) == {k \in rows : k.request.status # NoStatus}

WindowRow(s) == [start |-> s, requests |-> windows[s].requests]
WindowsAfter(time) == {WindowRow(s) : s \in {s \in DOMAIN windows : s > time}}
CurrentWindow == {WindowRow(s) : s \in DOMAIN windows \cap {WindowOf(now)}}

AlertsShown == {a \in alerts : a.at > now - AlertRetention \/ a.resolved = Never}

\* ORDER BY rank DESC LIMIT n: of rows that rank alike, any may be left out.
TopOf(n, rows, rank(_)) ==
  {top \in SUBSET rows :
     /\ Cardinality(top) = Min({n, Cardinality(rows)})
     /\ \A in \in top, out \in rows \ top : rank(in) >= rank(out)}

EndpointsIn(rows) == {k.request.endpoint : k \in rows}
OfEndpoint(rows, e) == {k \in rows : k.request.endpoint = e}

BusiestEndpoints(rows) ==
  {{k \in rows : k.request.endpoint \in top} :
     top \in TopOf(EndpointLimit, EndpointsIn(rows), LAMBDA e : Cardinality(OfEndpoint(rows, e)))}

LatestAlerts(rows) == TopOf(AlertLimit, rows, LAMBDA a : a.at)

\* The rows a query may return; `queue` reads the tables of RequestQueue.
Answers(query) ==
  CASE query = "totals"     -> {InLastDay}
    [] query = "peak"       -> {WindowsAfter(now - HourLength)}
    [] query = "window"     -> {CurrentWindow}
    [] query = "endpoints"  -> BusiestEndpoints(InLastDay)
    [] query = "alerts"     -> LatestAlerts(AlertsShown)
    [] query = "queue"      -> {{}}
    [] query \in {"times", "speeds", "errors"} -> {Answered(InLastDay)}
    [] query = "throughput" -> {WindowsAfter(now - ThroughputTime)}
    [] query = "hourly"     -> {HourlyRows}
    [] query = "daily"      -> {DailyRows}
    [] query \in {"success", "response"} -> {Answered(InLastDay)}

-----------------------------------------------------------------------------
(* What the code makes of the rows *)

Mean(rows) ==
  IF rows = {} THEN 0 ELSE MapThenSumSet(LAMBDA k : k.request.time, rows) \div Cardinality(rows)

FailedIn(rows) == {k \in Answered(rows) : k.request.status >= 400}

Totals(rows) ==
  [total   |-> Cardinality(rows),
   ok      |-> Cardinality({k \in rows : Succeeded(k.request)}),
   failed  |-> Cardinality(FailedIn(rows)),
   limited |-> Cardinality({k \in rows : k.request.limited}),
   average |-> Mean(rows)]

Peak(rows) == Max({w.requests : w \in rows} \cup {0})

\* generate_rate_limit_info
RateLimits(rows) ==
  LET requests == Peak(rows) IN
  [requests  |-> requests,
   available |-> Max({MaxRequests - requests, 0}),
   limited   |-> requests >= MaxRequests]

EndpointStats(rows) == [e \in EndpointsIn(rows) |-> Totals(OfEndpoint(rows, e))]

\* calculate_percentiles: the one at an index of the response times in order
Percentile(rows, percent) ==
  LET i == (Cardinality(rows) * percent) \div 100
      times == {k.request.time : k \in rows}
  IN
  IF i >= Cardinality(rows) THEN 0
  ELSE CHOOSE t \in times :
         /\ Cardinality({k \in rows : k.request.time < t}) <= i
         /\ i < Cardinality({k \in rows : k.request.time <= t})

\* get_endpoint_speed_rankings, get_error_rates_by_endpoint (in percent); of these the
\* slowest and fastest five and the highest ten are shown
Speeds(rows) ==
  [e \in {e \in EndpointsIn(rows) : Cardinality(OfEndpoint(rows, e)) >= RankedFrom} |->
     Mean(OfEndpoint(rows, e))]
ErrorRates(rows) ==
  [e \in {e \in EndpointsIn(rows) : Cardinality(OfEndpoint(rows, e)) >= RatedFrom} |->
     (100 * Cardinality(FailedIn(OfEndpoint(rows, e)))) \div Cardinality(OfEndpoint(rows, e))]

\* GROUP BY the hour or the day a call was made in
PeriodOf(k, length) == (k.at \div length) * length
PerPeriod(rows, length) ==
  [start \in {PeriodOf(k, length) : k \in rows} |->
     Cardinality({k \in rows : PeriodOf(k, length) = start})]

-----------------------------------------------------------------------------
(* Properties *)

\* Whatever the tables hold, sections that nothing disturbs agree: the endpoints, the
\* hours and the totals count the same calls (200-211, 342-361, 693-702), the current
\* window is not above the peak (259-279, 306-333), an endpoint with an error rate
\* is among those ranked by speed (551-631, before the first few of each are taken),
\* and the percentiles are response times in order (838-853).
SectionsAgree ==
  LET totals == Totals(InLastDay)
      answered == Answered(InLastDay)
      p50 == Percentile(answered, 50)
      p95 == Percentile(answered, 95)
      p99 == Percentile(answered, 99)
  IN
  /\ totals.ok + totals.failed = Cardinality(answered)
  /\ SumFunction(PerPeriod(HourlyRows, HourLength)) = totals.total
  /\ \A rows \in Answers("endpoints") :
       LET stats == EndpointStats(rows)
           shown == SumFunction([e \in DOMAIN stats |-> stats[e].total])
       IN /\ shown <= totals.total
          /\ shown = totals.total <=> Cardinality(EndpointsIn(InLastDay)) <= EndpointLimit
  /\ RateLimits(CurrentWindow).requests <= Peak(WindowsAfter(now - HourLength))
  /\ DOMAIN ErrorRates(answered) \subseteq DOMAIN Speeds(answered)
  /\ p50 <= p95 /\ p95 <= p99
  /\ answered # {} => {p50, p95, p99} \subseteq {k.request.time : k \in answered}

\* What a cleanup deletes, with the cutoff of when it began, was no longer shown
\* (api_tracker.rs 571-611): no query of the dashboard answers otherwise after it.
CleanupIsInvisible ==
  [][cleaner' # cleaner /\ tables' # tables =>
       \A s \in DOMAIN AllSections : \A i \in DOMAIN AllSections[s] :
         Answers(AllSections[s][i])' = Answers(AllSections[s][i])]_trackerVars
=============================================================================

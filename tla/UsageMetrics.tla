---------------------------- MODULE UsageMetrics ----------------------------
(***************************************************************************)
(* MetricsCollector (reddit-client/src/metrics.rs): what record_request    *)
(* makes of the metrics, under one write lock.  A request has an endpoint, *)
(* a status (NoStatus when no response came), a response time and whether  *)
(* it was rate limited.                                                    *)
(***************************************************************************)
EXTENDS Integers, Sequences, SequencesExt, FiniteSetsExt

CONSTANTS
  Endpoints,    \* the endpoints requests go to
  HourLength,   \* an hour, in ticks
  DayLength     \* 24 hours, in ticks

ASSUME MetricsAssumption ==
  /\ IsFiniteSet(Endpoints)
  /\ HourLength \in Nat \ {0}
  /\ DayLength \in Nat /\ HourLength <= DayLength

NoStatus == 0
Unmeasured == 1000000   \* min_response_time before any request: u64::MAX seconds

-----------------------------------------------------------------------------
(* Faulty variants of operators below.  Nothing uses them: each is a bug that *)
(* would be easy to write, and each makes a run report a violation.           *)

KeepsAllHours(hours, now) == hours

-----------------------------------------------------------------------------
Succeeded(r) == r.status # NoStatus /\ r.status < 400

NoEndpoint == [requests |-> 0, ok |-> 0, failed |-> 0, time |-> 0, min |-> Unmeasured, max |-> 0]

NoMetrics ==
  [total |-> 0, ok |-> 0, failed |-> 0, limited |-> 0, average |-> 0,
   endpoint |-> [e \in Endpoints |-> NoEndpoint], hours |-> <<>>]

\* EndpointMetrics::update
Updated(e, r) ==
  [requests |-> e.requests + 1,
   ok       |-> e.ok + (IF Succeeded(r) THEN 1 ELSE 0),
   failed   |-> e.failed + (IF Succeeded(r) THEN 0 ELSE 1),
   time     |-> e.time + r.time,
   min      |-> Min({e.min, r.time}),
   max      |-> Max({e.max, r.time})]

\* The average is kept without the sum it is the average of, and rounded down
\* each time.
NextAverage(m, r) == (m.average * (m.total + 1) - m.average + r.time) \div (m.total + 1)

HourOf(now) == (now \div HourLength) * HourLength

KeptHours(hours, now) ==
  FoldLeft(LAMBDA kept, h : IF h.start >= now - DayLength THEN Append(kept, h) ELSE kept, <<>>, hours)

\* update_hourly_counts: only the last entry is looked at.
CountedHour(hours, now) ==
  IF hours # <<>> /\ Last(hours).start = HourOf(now)
  THEN [hours EXCEPT ![Len(hours)].requests = @ + 1]
  ELSE Append(hours, [start |-> HourOf(now), requests |-> 1])

\* record_request
Recorded(m, r, now) ==
  [total    |-> m.total + 1,
   ok       |-> m.ok + (IF Succeeded(r) THEN 1 ELSE 0),
   failed   |-> m.failed + (IF Succeeded(r) THEN 0 ELSE 1),
   limited  |-> m.limited + (IF r.limited THEN 1 ELSE 0),
   average  |-> NextAverage(m, r),
   endpoint |-> [m.endpoint EXCEPT ![r.endpoint] = Updated(@, r)],
   hours    |-> KeptHours(CountedHour(m.hours, now), now)]

-----------------------------------------------------------------------------
(* What holds of metrics made by Recorded *)

OverEndpoints(field, m) == SumFunction([e \in Endpoints |-> m.endpoint[e][field]])

\* The totals are those of the endpoints.
TotalsAddUp(m) ==
  /\ m.ok + m.failed = m.total
  /\ m.total = OverEndpoints("requests", m)
  /\ m.ok = OverEndpoints("ok", m)

\* Rounded down again and again, the average falls behind the mean, by less than
\* half a unit for every request, and never exceeds it.
AverageNearMean(m) ==
  LET sum == OverEndpoints("time", m) IN
  /\ m.average * m.total <= sum
  /\ 2 * (sum - m.average * m.total) <= m.total * (m.total - 1)

\* The hours are in order, count no request twice, none begins after the clock, and
\* none is more than a day older than the last: hours are pruned when a request is
\* recorded, so that while none is they may grow older (metrics.rs 176-182).
HoursAddUp(m, now) ==
  /\ \A i \in 2..Len(m.hours) : m.hours[i - 1].start < m.hours[i].start
  /\ m.total > 0 => m.hours # <<>>
  /\ SumFunction([i \in DOMAIN m.hours |-> m.hours[i].requests]) <= m.total
  /\ \A i \in DOMAIN m.hours :
       m.hours[i].start <= now /\ m.hours[i].start >= Last(m.hours).start - DayLength
=============================================================================

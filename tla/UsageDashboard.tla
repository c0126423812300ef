---------------------------- MODULE UsageDashboard ----------------------------
(***************************************************************************)
(* UsageDashboard (reddit-client/src/usage_dashboard.rs).  A dashboard is  *)
(* generated by seven sections that run together, each a query or several  *)
(* one after the other, while calls are recorded and old rows deleted; the *)
(* last one stored is the cache.  The data of a section are the rows that  *)
(* its queries returned: see UsageQueries.                                 *)
(***************************************************************************)
EXTENDS UsageQueries

CONSTANTS
  Readers,    \* calls of get_dashboard_data
  Sections,   \* the sections of an instance, which may leave queries out
  CacheTtl    \* 30 s

ASSUME DashboardAssumption ==
  /\ DOMAIN Sections \subseteq DOMAIN AllSections
  /\ \A s \in DOMAIN Sections : Sections[s] \in Seq(Range(AllSections[s])) \ {<<>>}
  /\ CacheTtl \in Nat

VARIABLES
  cache,    \* the data stored last and when, or NoData
  reader    \* where each call of get_dashboard_data is

dashboardVars == <<cache, reader>>

NoData == [stored |-> Never]

-----------------------------------------------------------------------------
(* Faulty variants of operators below.  Nothing uses them: each is a bug that *)
(* would be easy to write, and each makes the run report a violation.         *)

DefaultForErrors(r) == TRUE

-----------------------------------------------------------------------------
Stage(r, stage) == reader[r].stage = stage

Waiting == [stage |-> "waiting"]
Returned == [stage |-> "returned"]
Failed == [stage |-> "failed"]

DashboardInit ==
  /\ TrackerInit
  /\ cache = NoData
  /\ reader = [r \in Readers |-> Waiting]

Fresh == cache # NoData /\ now - cache.stored < CacheTtl

\* get_dashboard_data finds the cache fresh and returns it ...
ReadCache(r) ==
  /\ Stage(r, "waiting")
  /\ Fresh
  /\ reader' = [reader EXCEPT ![r] = Returned]
  /\ UNCHANGED <<trackerVars, cache>>

\* ... or does not, or is told to refresh, and starts all the sections. `known` is
\* a history variable.
Generate(r, force) ==
  /\ Stage(r, "waiting")
  /\ force \/ ~Fresh
  /\ reader' = [reader EXCEPT ![r] =
                  [stage |-> "generating", started |-> now, known |-> reported,
                   next |-> [s \in DOMAIN Sections |-> 1], failed |-> FALSE, read |-> <<>>]]
  /\ UNCHANGED <<trackerVars, cache>>

Pending(r) == {s \in DOMAIN Sections : reader[r].next[s] <= Len(Sections[s])}

\* What was read, with the rows of one more query
With(read, query, rows) == [q \in DOMAIN read \cup {query} |-> IF q = query THEN rows ELSE read[q]]

\* The next query of one of the sections
RunQuery(r, s) ==
  LET query == Sections[s][reader[r].next[s]] IN
  /\ Stage(r, "generating")
  /\ s \in Pending(r)
  /\ \E rows \in Answers(query) :
       reader' = [reader EXCEPT ![r].next[s] = @ + 1, ![r].read = With(@, query, rows)]
  /\ UNCHANGED <<trackerVars, cache>>

\* A query fails: its section ends there, the others go on to their ends.
FailQuery(r, s) ==
  /\ Stage(r, "generating")
  /\ s \in Pending(r)
  /\ Spend("faults")
  /\ reader' = [reader EXCEPT ![r].next[s] = Len(Sections[s]) + 1, ![r].failed = TRUE]
  /\ UNCHANGED <<tables, tasks, now, histories, cache>>

Complete(r) == Stage(r, "generating") /\ Pending(r) = {}

\* `?` on the result of each section
NoneFailed(r) == ~reader[r].failed

\* `known` is history.
DataOf(r) ==
  [read |-> reader[r].read, timestamp |-> reader[r].started,
   known |-> reader[r].known, stored |-> now]

\* All sections are there: the data are cached, over whatever is there by then, and
\* returned.
Store(r) ==
  /\ Complete(r) /\ NoneFailed(r)
  /\ cache' = DataOf(r)
  /\ reader' = [reader EXCEPT ![r] = Returned]
  /\ UNCHANGED trackerVars

GiveUp(r) ==
  /\ Complete(r) /\ ~NoneFailed(r)
  /\ reader' = [reader EXCEPT ![r] = Failed]
  /\ UNCHANGED <<trackerVars, cache>>

CrashAll ==
  /\ Crash
  /\ cache' = NoData
  /\ reader' = [r \in Readers |-> IF Stage(r, "waiting") THEN Waiting ELSE Failed]

DashboardStep(r) ==
  \/ \E s \in DOMAIN Sections : RunQuery(r, s) \/ FailQuery(r, s)
  \/ Store(r) \/ GiveUp(r)

DashboardNext ==
  \/ TrackerStep /\ UNCHANGED dashboardVars
  \/ \E r \in Readers :
       ReadCache(r) \/ (\E force \in BOOLEAN : Generate(r, force)) \/ DashboardStep(r)
  \/ CrashAll

vars == <<trackerVars, dashboardVars>>

DashboardSpec == DashboardInit /\ [][DashboardNext]_vars
-----------------------------------------------------------------------------
(* Properties *)

\* The cache is empty or holds data that were begun, stored and are read in this
\* order, a call is somewhere in get_dashboard_data.
DashboardTypeOK ==
  /\ cache # NoData => cache.timestamp <= cache.stored /\ cache.stored <= now
  /\ \A r \in Readers :
       \/ reader[r] \in {Waiting, Returned, Failed}
       \/ /\ Stage(r, "generating")
          /\ reader[r].started <= now
          /\ \A s \in DOMAIN Sections : reader[r].next[s] \in 1..Len(Sections[s]) + 1

\* The queries of all sections
Asked == UNION {Range(Sections[s]) : s \in DOMAIN Sections}

\* The data in the cache, which are what every call returns, have the answers of all
\* queries, so that a generation with a failed section never gets there (181-190); and
\* each section counts every call that had returned Ok before the data were begun and
\* was still of the day when they were stored, however the recording of others, the
\* cleanups and the queries interleave (171-179).  Data begun earlier may replace data
\* begun later (161): what the cache counts is known of its own beginning only.
CountsEveryReported ==
  cache # NoData =>
    /\ Asked \subseteq DOMAIN cache.read
    /\ \A k \in {k \in cache.known : k.at > cache.stored - DayLength} :
         \A query \in {"totals", "hourly", "daily"} \cap Asked : k \in cache.read[query]

\* What is in the cache, and so what every call returns, is sound.
CacheIsSound == DashboardTypeOK /\ CountsEveryReported
=============================================================================

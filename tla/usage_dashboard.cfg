\* Two calls of get_dashboard_data, forced or not, each with two sections, while a
\* call is recorded, old rows are deleted, and one statement or query fails or the
\* process stops, over four ticks: a window and an hour are one, a day two.
SPECIFICATION DashboardSpec
CONSTANTS
  e1 = e1  e2 = e2
  c1 = c1
  r1 = r1  r2 = r2
  Endpoints <- TwoEndpoints
  Recorders <- OneRecorder
  Requests <- OneRequest
  Readers <- TwoReaders
  Sections <- TwoSections
  CacheTtl = 1
  WindowLength = 1
  HourLength = 1
  DayLength = 2
  SlowThreshold = 5
  Retention = 2
  AlertRetention = 1
  TrendTime = 2
  ThroughputTime = 2
  MaxRequests = 1
  EndpointLimit = 1
  AlertLimit = 1
  RankedFrom = 1
  RatedFrom = 2
  StartTime = 0
  MaxTime = 3
  MaxCalls = 1
  MaxUpdates = 0
  MaxCleanups = 1
  MaxFaults = 1
SYMMETRY Symmetry
INVARIANT CacheIsSound
CHECK_DEADLOCK FALSE

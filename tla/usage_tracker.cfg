\* Two calls recorded by two tasks, a cleanup, an alert resolved and one failed
\* statement or crash, over four ticks in three windows, hours and days.
SPECIFICATION TrackerSpec
CONSTANTS
  e1 = e1  e2 = e2
  c1 = c1  c2 = c2
  Endpoints <- TwoEndpoints
  Recorders <- TwoRecorders
  Requests <- ThreeRequests
  WindowLength = 2
  HourLength = 2
  DayLength = 2
  SlowThreshold = 5
  Retention = 2
  AlertRetention = 1
  TrendTime = 2
  ThroughputTime = 2
  MaxRequests = 1
  EndpointLimit = 1
  AlertLimit = 1
  RankedFrom = 1
  RatedFrom = 2
  StartTime = 1
  MaxTime = 4
  MaxCalls = 2
  MaxUpdates = 1
  MaxCleanups = 1
  MaxFaults = 1
SYMMETRY Symmetry
INVARIANTS RecordsAgree MetricsAgree SectionsAgree
PROPERTY CleanupIsInvisible
CHECK_DEADLOCK FALSE

\* Nothing fails: two requests, one task, three attempts each.
CONSTANTS
  r1 = r1  r2 = r2  w1 = w1  w2 = w2
  None = None
  Requests <- TwoRequests
  Workers <- OneWorker
  Priorities <- LowNormal
  MaxQueueSize = 2
  MaxRetries = 2
  MaxCalls = 2
  MaxRestarts = 0
  DbMayFail = FALSE
  OverflowChecks = FALSE
SPECIFICATION FairSpec
PROPERTIES EventuallySettled WaiterReleased

\* A request that succeeds, never cancelled.
CONSTANTS
  r1 = r1  r2 = r2  w1 = w1  w2 = w2
  None = None
  Requests <- TwoRequests
  Workers <- OneWorker
  Priorities <- LowNormal
  MaxQueueSize = 2
  MaxRetries = 1
  MaxCalls = 2
  MaxRestarts = 0
  DbMayFail = FALSE
  OverflowChecks = FALSE
SPECIFICATION Spec
INVARIANT SuccessDelivered

\* Everything that can go wrong: SQL errors, panics, a crash, cancellations.
CONSTANTS
  r1 = r1  r2 = r2  w1 = w1  w2 = w2
  None = None
  Requests <- TwoRequests
  Workers <- TwoWorkers
  Priorities <- LowNormalTooHigh
  MaxQueueSize = 1
  MaxRetries = 2
  MaxCalls = 2
  MaxRestarts = 1
  DbMayFail = TRUE
  OverflowChecks = TRUE
SPECIFICATION Spec
SYMMETRY Symmetry
INVARIANTS ExclusiveOwner AttemptsBounded MemoryAgrees RowsAgree OneReplyPerAttempt
PROPERTIES TerminalRowsFinal ImplementsLifecycle

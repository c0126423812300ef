\* Two callers and five calls: those from before the breaker opened report to it
\* while it is open, half-open and closed again.
CONSTANTS
  c1 = c1  c2 = c2
  Callers <- TwoCallers
  MaxAttempts = 3
  FailureThreshold = 2
  RecoveryTimeout = 2
  MaxCalls = 5
SPECIFICATION FairSpec
INVARIANTS BreakerConsistent HalfOpenHasProbe RetriesAddUp
PROPERTIES OpensAfterStreak CallEnds BreakerRecovers

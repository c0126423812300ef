\* Two callers and one permit: an attempt waits for the other caller's, which may
\* be retried, blocked by the breaker or counted meanwhile.
CONSTANTS
  c1 = c1  c2 = c2
  Callers <- TwoCallers
  MaxAttempts = 2
  FailureThreshold = 2
  RecoveryTimeout = 1
  Burst = 1
  MaxCalls = 3
SPECIFICATION FairSpec
INVARIANTS PermitsAreOfAttempts EndsAsAnswered CountedOnce
PROPERTY ImplementsExecutor

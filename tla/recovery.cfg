\* Every error first, and every sequence of errors after it; the delays asked for
\* lie below, between and above the strategies' caps.
CONSTANTS
  Hints <- SampleHints
  MaxRetries = 3
  InitialDelay = 1
SPECIFICATION FairSpec
INVARIANTS AttemptBudget WaitsAsAsked
PROPERTY CallReturns

\* Two login flows and three tokens: one to log in with, one to rotate, one more.
CONSTANTS
  Flows <- TwoFlows
  MaxTokens = 3
  Lifetimes <- ShortAndLong
  Buffer = 1
  MaxTime = 3
SPECIFICATION Spec
INVARIANTS VerifierSentOnce LatestFlowLogsIn SendsUsableToken RefreshTokenValid
PROPERTY LoginEndsKnowingly

\* Two tasks, two migrations and three other calls on small tables, with one failed
\* statement or crash, over two ticks.
SPECIFICATION Spec
CONSTANTS
  c1 = c1  c2 = c2
  p1 = p1  p2 = p2  w1 = w1  openai = openai  rust = rust
  id1 = id1  sec1 = sec1  junk = junk
  Empty = Empty
  None = None
  Callers <- TwoCallers
  Posts <- TwoPosts
  Words <- OneWord
  Providers <- OneProvider
  Subreddits <- OneSubreddit
  Configs <- TwoConfigs
  Settings <- OneSetting
  Numbers <- Intervals
  MaxTime = 1
  MaxCalls = 3
  MaxMigrations = 2
  MaxFaults = 1
SYMMETRY Symmetry
INVARIANTS TypeOK ConfigReadsBack
PROPERTY RowsStay
CHECK_DEADLOCK FALSE

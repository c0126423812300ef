\* Two permits: tasks contend for tokens.
CONSTANTS
  t1 = t1  t2 = t2  t3 = t3
  Tasks <- TwoTasks
  Burst = 2
  Cost = 2
  MaxRequests = 1
  MaxDelay = 1
SPECIFICATION FairSpec
PROPERTY SomeoneServed

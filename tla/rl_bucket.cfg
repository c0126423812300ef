\* Three tasks for two permits: two refill and take while one waits in line.
CONSTANTS
  t1 = t1  t2 = t2  t3 = t3
  Tasks <- ThreeTasks
  Burst = 2
  Cost = 2
  MaxRequests = 1
  MaxDelay = 1
SPECIFICATION Spec
SYMMETRY Symmetry
INVARIANTS RateKept NothingLost
PROPERTY ImplementsPermitPool

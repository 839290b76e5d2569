\* Liveness of one item under the fairness of timers and the poll loop.
\* Deadlock is off: the model stops when its claims are used up.
CONSTANTS
  i1 = i1  i2 = i2  n1 = n1  n2 = n2  k1 = k1  k2 = k2
  Item = {i1}
  Instance = {n1}
  InstanceOf <- OneItem
  Token = {k1, k2}
  NoToken = NoToken
  NoItem = NoItem
  MaxAttempts = 2
  MaxConcurrency = 2
  MaxInfra = 1
  MaxDisruptions = 1
  PsWorks = TRUE
SPECIFICATION FairSpec
CHECK_DEADLOCK FALSE
PROPERTIES NoLeaseForever EverySessionEnds

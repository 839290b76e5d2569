\* recovery.ts: "never two live agents on one issue"
CONSTANTS
  i1 = i1  i2 = i2  n1 = n1  n2 = n2  k1 = k1  k2 = k2
  Item = {i1}
  Instance = {n1}
  InstanceOf <- OneItem
  Token = {k1, k2}
  NoToken = NoToken
  NoItem = NoItem
  MaxAttempts = 2
  MaxConcurrency = 2
  MaxInfra = 1
  MaxDisruptions = 0
  PsWorks = TRUE
SPECIFICATION Spec
CHECK_DEADLOCK FALSE
INVARIANT NeverTwoLiveAgents

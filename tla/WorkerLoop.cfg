\* One issue, two work items in turn, two claims, two disruptions; ps may fail.
\* Deadlock is off: the model stops when its claims are used up.
CONSTANTS
  i1 = i1  i2 = i2  n1 = n1  n2 = n2  k1 = k1  k2 = k2
  Item = {i1, i2}
  Instance = {n1}
  InstanceOf <- OneIssue
  Token = {k1, k2}
  NoToken = NoToken
  NoItem = NoItem
  MaxAttempts = 2
  MaxConcurrency = 2
  MaxInfra = 1
  MaxDisruptions = 2
  PsWorks = FALSE
SPECIFICATION Spec
CHECK_DEADLOCK FALSE
SYMMETRY TokenSymmetry
INVARIANTS TypeOK AttemptAccounting SettledByLatestClaim RunningSessionIsLocatable OneLiveAgent RecoverySparesOwnWork
PROPERTIES TerminalIsFinal ImplementsOutbox

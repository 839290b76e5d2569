\* Autonomous work and the merge park end, through crashes and one decision.
\* Deadlock is off: an issue that has ended has no step left.
CONSTANTS
  MaxInfra = 1
  MaxCi = 0
  FirstMaxRounds = 2
  NeedsOperator = TRUE
  Windows = {"list"}
  MaxHeads = 1
  MaxDecisions = 1
SPECIFICATION FairSpec
CHECK_DEADLOCK FALSE
PROPERTIES MergeParkSettles WorkReachesAPerson

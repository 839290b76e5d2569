\* workflow.ts: the gate re-blocks when the head moves
\* Deadlock is off: an issue that has ended has no step left.
CONSTANTS
  MaxInfra = 0
  MaxCi = 0
  FirstMaxRounds = 1
  NeedsOperator = TRUE
  Windows = {}
  MaxHeads = 2
  MaxDecisions = 1
SPECIFICATION Spec
CHECK_DEADLOCK FALSE
PROPERTY MovedHeadIsGatedAgain

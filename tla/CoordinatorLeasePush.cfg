\* commands.ts: a lease push resolves its action, or throws
\* Deadlock is off: an issue that has ended has no step left.
CONSTANTS
  MaxInfra = 0
  MaxCi = 0
  FirstMaxRounds = 1
  NeedsOperator = FALSE
  Windows = {"push"}
  MaxHeads = 2
  MaxDecisions = 2
SPECIFICATION Spec
CHECK_DEADLOCK FALSE
INVARIANT WorkHasNoOpenAction

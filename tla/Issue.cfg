\* One issue: the coordinator with small budgets, its awaits undisturbed but for
\* crashes; its developer attempts; its source files; its feedback.
\* Deadlock is off: an issue that has ended has no step left.
SPECIFICATION LifeSpec
CONSTANTS
  MaxInfra = 1
  MaxCi = 1
  FirstMaxRounds = 2
  NeedsOperator = TRUE
  Windows = {}
  MaxHeads = 2
  MaxDecisions = 1
  MaxAttempts = 3
  AgentPatch = {a}
  OthersPatch = o
  FbSession = {s1}
  FbAction = {h1}
  Exhausted = {h1}
  NoHuman = nohuman
  NoSession = nosession
  MaxPasses = 2
  SrcBlob = {b1, b2}
  MaxReloads = 3
INVARIANTS TypeOK ExactlyOneNextEffect RoutingNeverRefused ReviewIsPinned AutonomyBounded TreesNotShared OneReportPerKey NothingIsDropped InputsAreWhole
PROPERTIES MergeIsCleared OriginKeepsChanges WorkNeverLost HandoffWasChecked UseIsNotForgotten
CHECK_DEADLOCK FALSE

\* auto-merge.ts: what finalizeAutoMerge merges is parked in final_review
\* Deadlock is off: an issue that has ended has no step left.
CONSTANTS
  MaxInfra = 0
  MaxCi = 0
  FirstMaxRounds = 1
  NeedsOperator = FALSE
  Windows = {"list"}
  MaxHeads = 2
  MaxDecisions = 1
SPECIFICATION Spec
CHECK_DEADLOCK FALSE
PROPERTY OnlyParkedIsMerged

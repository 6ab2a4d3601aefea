SPECIFICATION Spec
CONSTANTS
  Path <- MCPath
  Root = "/"
  Above <- MCAbove
  BaselineRO <- Nothing
  BaselineRWFiles <- Nothing
  Locked <- Nothing
  Calls <- Nothing
  NoPath = NoPath
  Steps <- MCSteps
  MaxFailures = 3
INVARIANTS
  AggregationAgrees
  ClimbAgrees
CHECK_DEADLOCK FALSE

SPECIFICATION Spec
CONSTANTS
  Path <- MCPath
  Root = "/"
  Above <- MCAbove
  Trees <- MCTrees
  BaselineRO <- MCBaselineRO
  BaselineRWFiles <- MCBaselineRWFiles
  Locked <- NoLocks
  Calls <- WriteCalls
  NoPath = NoPath
  NoCall = NoCall
  MaxRetries = 3
  Volatile <- FileVolatile
  ProcRaces = FALSE
INVARIANT
  ApprovedPathsExist

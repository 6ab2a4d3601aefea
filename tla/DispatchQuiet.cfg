SPECIFICATION Spec
CONSTANTS
  Path <- MCPath
  Root = "/"
  Above <- MCAbove
  Trees <- MCTrees
  BaselineRO <- MCBaselineRO
  BaselineRWFiles <- MCBaselineRWFiles
  Locked <- NoLocks
  Calls <- ProbeCalls
  NoPath = NoPath
  NoCall = NoCall
  MaxRetries = 3
  Volatile <- NothingVolatile
  ProcRaces = FALSE
INVARIANT
  QuietOnSuccess

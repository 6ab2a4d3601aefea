SPECIFICATION FairSpec
CONSTANTS
  Path <- MCPath
  Root = "/"
  Above <- MCAbove
  Trees <- MCTrees
  BaselineRO <- MCBaselineRO
  BaselineRWFiles <- MCBaselineRWFiles
  Locked <- FLocked
  Calls <- LoopCalls
  NoPath = NoPath
  NoCall = NoCall
  MaxRetries = 3
  Volatile <- FileVolatile
  ProcRaces = TRUE
PROPERTY
  CallReturns

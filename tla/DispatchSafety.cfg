SPECIFICATION Spec
CONSTANTS
  Path <- MCPath
  Root = "/"
  Above <- MCAbove
  Trees <- MCTrees
  BaselineRO <- MCBaselineRO
  BaselineRWFiles <- MCBaselineRWFiles
  Locked <- NoLocks
  Calls <- MCCalls
  NoPath = NoPath
  NoCall = NoCall
  MaxRetries = 3
  Volatile <- FileVolatile
  ProcRaces = FALSE
INVARIANTS
  TypeOK
  FreshReply
  RefusalsAreTold
  DeclinedNotReprompted
  DeclinedListedOnce
  AccessIsConsented
PROPERTIES
  ImplementsPermissionLoop
  CallGetsShorter

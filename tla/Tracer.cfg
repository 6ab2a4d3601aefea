SPECIFICATION FairSpec
CONSTANTS
  Pid <- MCPid
  RootPid = "shell"
  FsCalls <- MCFsCalls
  OtherCalls <- MCOtherCalls
  OldKernel = FALSE
  MaxCalls <- TwoAndOne
  MaxLines = 1
  Sendable <- Stopped
  Killable <- AnyoneKilled
INVARIANTS
  TypeOK
  RecordsAreReal
  NothingMissed
  AttachStopSwallowed
  FallbackAlone
  RootStatusReported
PROPERTIES
  ImplementsTrace
  TraceGetsShorter
  TraceEnds
CHECK_DEADLOCK FALSE

SPECIFICATION Spec
CONSTANTS
  Pid <- MCPid
  RootPid = "shell"
  FsCalls <- MCFsCalls
  OtherCalls <- MCOtherCalls
  OldKernel = FALSE
  MaxCalls <- OneEach
  MaxLines = 1
  Sendable <- NobodySends
  Killable <- NobodyKilled
INVARIANT
  OutputIsComplete
CHECK_DEADLOCK FALSE

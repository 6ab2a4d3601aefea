SPECIFICATION Spec
CONSTANTS
  Pid <- MCPid
  RootPid = "shell"
  FsCalls <- MCFsCalls
  OtherCalls <- MCOtherCalls
  OldKernel = TRUE
  MaxCalls <- OneEach
  MaxLines = 0
  Sendable <- NobodySends
  Killable <- NobodyKilled
INVARIANT
  OldKernelIsReported
CHECK_DEADLOCK FALSE

SPECIFICATION FairSpec
CONSTANTS
  Right = {"f"}
  MaxRuns = 2
  Modes <- AllModes
  MaxSteps = 2
  MaxCalls = 2
  MaxDenials = 1
  Line <- Typeable
  MaxTyped = 3
INVARIANTS
  TypeOK
  SentHistoryComplete
  LateTurnsGetNothing
  PipedPromptGrantsNothing
  StepsBounded
PROPERTIES
  TurnGetsShorter
  TurnEnds
  EndOfInputExits
CHECK_DEADLOCK FALSE

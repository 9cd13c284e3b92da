CONSTANTS
  None = None
  Root = "flow"
  Step <- NestedStep
  Def <- NestedTree
  CommitLocalSteps = TRUE
  FaultKinds = {"commit", "artifact"}
  MaxFaults = 1
  MaxRuns = 3
SPECIFICATION FairSpec
INVARIANTS
  NoStepSkipped
  NoSilentFailure
PROPERTIES
  PauseUnwinds
CHECK_DEADLOCK FALSE

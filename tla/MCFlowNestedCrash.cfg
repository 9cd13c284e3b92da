CONSTANTS
  None = None
  Root = "flow"
  Step <- NestedStep
  Def <- NestedTree
  CommitLocalSteps = TRUE
  FaultKinds = {"crash"}
  MaxFaults = 1
  MaxRuns = 2
SPECIFICATION Spec
INVARIANTS
  NoStepSkipped
CHECK_DEADLOCK FALSE

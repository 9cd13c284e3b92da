CONSTANTS
  None = None
  Root = "flow"
  Step <- StagedStep
  Def <- StagedTree
  CommitLocalSteps = TRUE
  FaultKinds = {"crash", "torn", "save", "artifact"}
  MaxFaults = 2
  MaxRuns = 2
SPECIFICATION Spec
INVARIANTS
  ExitMatchesDisk
CHECK_DEADLOCK FALSE

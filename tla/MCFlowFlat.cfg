CONSTANTS
  None = None
  Root = "flow"
  Step <- FlatStep
  Def <- FlatTree
  CommitLocalSteps = TRUE
  FaultKinds = {"crash", "torn", "save", "commit", "artifact"}
  MaxFaults = 2
  MaxRuns = 3
SPECIFICATION FairSpec
INVARIANTS
  TypeOK
  SavedIndexIsEarned
  RunsFirstIncomplete
  GateGuardsSuccessors
  PauseIsReported
  FewUncommitted
PROPERTIES
  ImplementsDurable
  EveryProcessEnds
CHECK_DEADLOCK FALSE

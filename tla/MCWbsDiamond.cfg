CONSTANTS
  None = None
  Specs <- DiamondSpecs
  Position <- DiamondPosition
  DependsOn <- DiamondDeps
  Lane <- DiamondLane
  CallbackURL = TRUE
  FaultKinds = {"crash", "post", "write", "registry"}
  MaxFaults = 2
  MaxRuns = 3
SPECIFICATION Spec
INVARIANTS
  TypeOK
  DependenciesSettled
  ReportsAreTrue
  SuccessIsComplete
PROPERTIES
  CompletedOutlivesReruns
  ImplementsDag
CHECK_DEADLOCK FALSE

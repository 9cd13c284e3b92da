CONSTANTS
  None = None
  Specs <- CycleSpecs
  Position <- CyclePosition
  DependsOn <- CycleDeps
  Lane <- CycleLane
  CallbackURL = TRUE
  FaultKinds = {"crash", "post", "write"}
  MaxFaults = 2
  MaxRuns = 3
SPECIFICATION FairSpec
INVARIANTS
  BlockedOnlyByCycle
PROPERTIES
  EveryRunEnds
CHECK_DEADLOCK FALSE

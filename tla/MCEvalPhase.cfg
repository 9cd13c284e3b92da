SPECIFICATION Spec
CONSTANTS
  GOOS = "linux"
  Artifacts = {"app", "svc"}
  ByUri = {"svc"}
  Surfaces <- MCSurfaces
  Manifests <- MCManifests
  Plans <- MCPlans
  Callers = {"command", "full", "unverified"}
  FaultKinds = {"crash", "write", "agent", "evidence"}
  MaxFaults = 1
  MaxChanges = 1
  MaxRuns = 2
INVARIANTS TypeOK ScenariosAfterGate FilesAgree
PROPERTY VerdictIsEarned
CHECK_DEADLOCK FALSE

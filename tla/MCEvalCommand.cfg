SPECIFICATION Spec
CONSTANTS
  GOOS = "linux"
  Artifacts = {"app", "svc"}
  ByUri = {"svc"}
  Surfaces <- MCSurfaces
  Manifests <- MCManifests
  Plans <- MCPlans
  Callers = {"command"}
  FaultKinds = {}
  MaxFaults = 0
  MaxChanges = 0
  MaxRuns = 1
INVARIANT CommandReachesVerdict
CHECK_DEADLOCK FALSE

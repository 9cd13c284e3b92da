SPECIFICATION FairSpec
CONSTANTS
  Inherited = {FALSE}
  FeatureJson = FALSE
  Kinds = {"agent", "blocking", "critical", "conflict", "git"}
  MaxFaults = 5
INVARIANT
  RunsOnBoundInputs
PROPERTY
  LaneCompletes

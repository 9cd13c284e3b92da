SPECIFICATION Spec
CONSTANTS
  Inherited = {FALSE, TRUE}
  FeatureJson = FALSE
  Kinds = {"crash", "agent", "leftover", "partial", "blocking", "critical", "conflict", "setup", "git"}
  MaxFaults = 4
INVARIANTS
  CompletedIsMerged
  ReviewIsCurrent
  OkMeansCompleted

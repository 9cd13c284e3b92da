SPECIFICATION JournalSpec
CONSTANTS
  Inherited = {FALSE, TRUE}
  FeatureJson = FALSE
  Kinds = {"crash", "agent", "leftover", "vague", "partial", "blocking", "critical", "conflict", "setup", "git"}
  MaxFaults = 3
INVARIANTS
  TypeOK
  PrerequisitesExist
  RemediatedOnce
  JournalIsTrue
  AttemptsEnd

CONSTANTS
  MaxUpsets = 3
  Assets <- MCAssets
  WithHeader <- MCWithHeader
  MaxCommands = 3
  MaxVersion = 2
  MaxEdits = 2
  MaxAccidents = 1
  RunSpecs = {"a", "b"}
  MaxResumes = 3
  MaxTroubles = 2
SPECIFICATION Spec
INVARIANTS NothingLost RecordIsTrue OnlyAgentsLeaveMarkers 
PROPERTIES UserFilesSurvive SyncedIsCurrent
CHECK_DEADLOCK FALSE

SPECIFICATION Spec
CONSTANTS
  Server = Server
  Players = {p1}
  MaxBatch = 2
  SnapEvery = 3
  DeltaGap = 2
  MaxSeq = 4
  MaxClientSeq = 2
  MaxStops = 1
  MaxCrashes = 1
  MaxFailures = 1
CHECK_DEADLOCK FALSE
INVARIANTS TypeOK NeverConflicts PersistBeforeBroadcast RecordedOnceAndLogged ExecutedOnceUntilRestart LiveMatchHasTimer RngSurvivesStops

SPECIFICATION Spec
CONSTANTS
  Server = Server
  Players = {p1}
  MaxBatch = 2
  SnapEvery = 3
  DeltaGap = 2
  MaxSeq = 5
  MaxClientSeq = 1
  MaxStops = 1
  MaxCrashes = 2
  MaxFailures = 0
CHECK_DEADLOCK FALSE
INVARIANT LiveStateIsReplay
PROPERTY ImplementsMatchLog

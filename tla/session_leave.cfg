SPECIFICATION Spec
CONSTANTS
  MaxConns = 2
  MaxSeq = 2
  MaxSent = 1
  QueueSize = 2
  DeltaGap = 1
CHECK_DEADLOCK FALSE
INVARIANT ReconnectWorks

SPECIFICATION Spec
CONSTANTS
  N = 2
  MaxSeq = 3
  MaxRestarts = 0
  MaxFailures = 0
CHECK_DEADLOCK FALSE
INVARIANT TurnEndedOnce

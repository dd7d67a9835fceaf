SPECIFICATION Spec
CONSTANTS
  N = 2
  MaxSeq = 3
  MaxRestarts = 1
  MaxFailures = 1
CHECK_DEADLOCK FALSE
INVARIANTS  TimerOfThisTurn
PROPERTIES MatchEnds RowGoesAway

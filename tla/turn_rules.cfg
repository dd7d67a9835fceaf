SPECIFICATION Spec
CONSTANTS
  N = 4
  StartDarkness = 0
  MaxDarkness = 8
  Rise = 1
  ActionPoints = 3
  PenaltyAt = 7
  Penalty = 1
  GatherRise = 1
  CardRises = {0, 1, 2}
  Components = 5
  Character <- Seated
CHECK_DEADLOCK FALSE
INVARIANTS TurnOrderKept ActiveCanMove EndIsNoticed
PROPERTIES EveryoneOnce Progress Ends

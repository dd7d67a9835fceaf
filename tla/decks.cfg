SPECIFICATION Spec
CONSTANTS
  Events = {"e1", "e2"}
  Mysteries = {"m1", "m2", "m3"}
  Artifacts = {"a1", "a2"}
  Options = {"prize", "other"}
  Prize = "prize"
  Place = {"hut", "shore"}
  TurnOrder <- MCTurnOrder
  Scholars = {"ana"}
  ActionPoints = 2
  NoOne = "nobody"
  NoCard = "none"
INVARIANTS EveryCardOnce OneAnswerPerPlace
PROPERTY KeepsPasses

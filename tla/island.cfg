SPECIFICATION Spec
CONSTANTS
  Places <- MCPlaces
  Adjacent <- MCAdjacent
  MapKind <- MCMapKind
  Start = "tower"
  TileStack <- MCTileStack
  NoKind = "none"
  SpawnKinds = {"lair", "crystal"}
  CrystalKinds = {"crystal"}
  VillageKinds = {"hamlet"}
  TowerKinds = {"lighthouse"}
  Table <- MCTable
  TurnOrder <- MCTurnOrder
  Navigators = {"ana"}
  Compasses = {"bo"}
  Lanterns = {"ana"}
  ActionPoints = 2
  MaxHealth = 1
  RestHeal = 1
  Damage = 1
  WakeAt = 3
  DamagedMax = 2
  DefeatedMin = 5
  MaxDarkness = 3
  BonusAt = 1
  Bonus = 1
  SpawnAt = 2
  PenaltyAt = 2
  Penalty = 1
  MonsterBound = 1
INVARIANTS NothingLost Pursuit NoMonsterTwice CrystalReachable OffersAreExact
CHECK_DEADLOCK FALSE

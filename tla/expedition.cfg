SPECIFICATION Spec
CONSTANTS
  p1 = p1
  p2 = p2
  Players <- Two
  Engineers = {p1}
  Locations <- Island
  Lighthouse = "lighthouse"
  Adjacent <- Everywhere
  Yields <- MineYields
  Tag <- Tags
  Artifacts = {"capacity_bonus"}
  EventCards <- SomeEvents
  MysteryCards <- SomeMysteries
  Cost <- TwoCosts
  VP <- TwoVP
  MaxHealth = 2
  RestHeal = 1
  MonsterDamage = 1
  Capacity = 2
  ExhaustedCapacity = 1
  CapacityBonus = 1
  GatherBase = 2
  Penalties = {0, 2}
  Regen = 1
  MaxStock = 2
  TradeMax = 1
CHECK_DEADLOCK FALSE
INVARIANTS PlayersWhole BuiltByContributions PointsGivenOut PriceIsPaid
PROPERTY WorkConserves

SPECIFICATION Spec
CONSTANTS
  Unknown = Unknown
  OrderShapes <- ManifestShapes
  ShapesOf <- StrategyShapes
  Universe = {"U"}
  RequiredLevel = 3
  EquityFloor = 70
  MaxBarAge = 2
  MaxQuoteAge = 2
  MaxPositions = 2
  MaxPerUnderlying = 9
  PositionLossCap = 2
  KillPercent = 10
  HalfScale = 50
  Kinds <- TwoKinds
  LegCount <- KindLegs
  LimitOf <- KindLimit
  Proposals <- SomeProposals
  ExposureCap = 2
  MaxProposals = 2
  Equities = {90, 100}
  Good <- GoodFacts
  Deviations <- Wrong
  FinalDate = 1
  TicksPerDay = 2
  MaxTime = 4
  MaxEdits = 1
  MayCrash = TRUE
INVARIANTS TypeOK PositionsBounded EngineLimitHolds KilledDayHalvesTheNext PermitIsEarned
PROPERTIES  EntriesAreInformed
CHECK_DEADLOCK FALSE

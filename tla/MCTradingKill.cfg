SPECIFICATION Spec
CONSTANTS
  Unknown = Unknown
  OrderShapes <- ManifestShapes
  ShapesOf <- StrategyShapes
  Universe = {"U"}
  RequiredLevel = 3
  EquityFloor = 70
  MaxBarAge = 2
  MaxQuoteAge = 2
  MaxPositions = 2
  MaxPerUnderlying = 9
  PositionLossCap = 2
  KillPercent = 10
  HalfScale = 50
  Kinds <- TwoKinds
  LegCount <- KindLegs
  LimitOf <- KindLimit
  Proposals <- OneSpread
  ExposureCap = 1
  MaxProposals = 1
  Equities = {90, 100}
  Good <- GoodFacts
  Deviations <- OnlyClosed
  FinalDate = 1
  TicksPerDay = 2
  MaxTime = 4
  MaxEdits = 0
  MayCrash = FALSE
INVARIANT KillStaysTripped
CHECK_DEADLOCK FALSE

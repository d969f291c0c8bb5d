SPECIFICATION FairSpec
CONSTANTS
  Groups <- TwoGroups
  Legs <- SpreadAndPut
  Expiry <- OneDayApart
  Bases <- SomeOtherStock
  Spots <- ThreeSpots
  NoQty = NoQty
  Prices = {1, 2}
  MaxDay = 2
  MaxMoves = 1
  Faults = {"status", "cancel", "reply", "crash"}
  MaxFaults = 1
INVARIANTS NeverOversold ExpiredClosedIsFlat
PROPERTY StockIsFlattened
CHECK_DEADLOCK FALSE

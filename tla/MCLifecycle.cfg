CONSTANTS
  vertical = vertical
  single = single
  Groups = {vertical, single}
  Symbols = {"low", "high"}
  Legs <- SharedLegs
  Size <- SizeTwo
  Held = {vertical}
  Due = {vertical, single}
  Orphan = Orphan
  Faults = {}
  MaxOrders = 4
SPECIFICATION FairSpec
INVARIANTS
  TypeOK
  LotsAreKnown
  CloseWithinExposure
  NoNakedShort
PROPERTIES
  ClosedOrQuarantined
  CloseIsResolved
CHECK_DEADLOCK FALSE

CONSTANTS
  vertical = vertical
  single = single
  Groups = {vertical, single}
  Symbols = {"low", "high"}
  Legs <- SharedLegs
  Size <- OneOfTwo
  Held = {vertical}
  Due = {vertical, single}
  Orphan = Orphan
  Faults = {"status", "reply", "crash", "split"}
  MaxOrders = 4
SPECIFICATION Spec
INVARIANTS
  OneLiveClose
  ClosedIsFlat
CHECK_DEADLOCK FALSE

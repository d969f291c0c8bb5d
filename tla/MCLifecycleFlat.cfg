CONSTANTS
  vertical = vertical
  single = single
  Groups = {single}
  Symbols = {"low"}
  Legs <- SharedLegs
  Size <- SizeOne
  Held = {}
  Due = {single}
  Orphan = Orphan
  Faults = {}
  MaxOrders = 1
SPECIFICATION FairSpec
PROPERTY EverythingIsFlattened
CHECK_DEADLOCK FALSE

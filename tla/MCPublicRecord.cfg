SPECIFICATION Spec
CONSTANTS
  MaxDecisions = 3
  KeptRefusals = 1
  MaxRows = 6
  MaxPerCycle = 2
INVARIANT RefusalsAreKept
CHECK_DEADLOCK FALSE

CONSTANTS
  a = a
  b = b
  c = c
  Submissions = {a, b, c}
  Facts = {fact}
  NoFact = NoFact
  NoKey = NoKey
  Nobody = Nobody
  FireKeys = {"event"}
  Cost <- CostOf
  FireKey <- FireKeyOf
  Gap = {b, c}
  AtRiskCap = 3
  ExposureCap = 3
  GapMax = 1
  MaxDay = 2
  SyncFaults = FALSE
SPECIFICATION Spec
INVARIANTS
  TypeOK
  OrderIsReserved
  OrderIsOwned
  GroupIsFilled
  OneUnresolved
  ResolutionNotRefused
  BudgetsHold
  DailyLimitsHold
CHECK_DEADLOCK FALSE

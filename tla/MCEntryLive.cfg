CONSTANTS
  a = a
  b = b
  c = c
  Submissions = {a, b}
  Facts = {fact}
  NoFact = NoFact
  NoKey = NoKey
  Nobody = Nobody
  FireKeys = {"event"}
  Cost <- CostOf
  FireKey <- NoKeyOf
  Gap = {}
  AtRiskCap = 9
  ExposureCap = 9
  GapMax = 1
  MaxDay = 0
  SyncFaults = FALSE
SPECIFICATION FairSpec
PROPERTIES
  DispatchIsResolved
  PendingIsSettled
CHECK_DEADLOCK FALSE

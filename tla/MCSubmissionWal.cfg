CONSTANTS
  Submissions = {s1, s2}
  Facts = {f1, f2}
  NoFact = NoFact
  MaxTears = 2
  MaxLines = 5
SPECIFICATION FairSpec
INVARIANTS
  TypeOK
  AcknowledgedSurvives
  RiskStaysCounted
  WritersNeverSpoil
PROPERTIES
  ImplementsRegistry
  TornHeals
CHECK_DEADLOCK FALSE

SPECIFICATION Spec
CONSTANTS
  Enabled = {"trend", "trend_single", "breakout", "catalyst", "pead", "event_macro", "gap_any_day", "vol_income"}
  Markets <- MCMarkets
  Slots <- MCSlots
  SureTime = 1515
  Cap <- MCCap
  AtRiskCap = 1500
  TakeProfit <- MCTakeProfit
  StopLoss <- MCStopLoss
  MaxSelected = 2
  FinalDate = 3
  FlattenAt = 1045
  EarningsDate = 2
  NfpDate = 3
  StartDate = 1
  PnlMoves = {0, 100}
  Replies <- MCReplies
  MaxHeld = 2
  Beyond = 1000
INVARIANTS
  LossIsDeclared
  SizedToTheCap
  WithTheTape
  SelectionIsSound
  EventIsOutlived
  OverdueIsUnpriced
CHECK_DEADLOCK FALSE

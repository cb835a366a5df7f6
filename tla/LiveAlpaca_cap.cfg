SPECIFICATION Spec
CONSTANTS
  None = None
  Scale = 10
  Slip = 0
  Fee = 1
  Prices = {9, 10}
  MaxLoss = 40
  MaxPosition = 2
  MaxNotional = None
  CashTol = 2
  InitialCash = 200
  BrokerCash = 200
  Targets = {0, 2}
  MaxTicks = 3
  RthOnly = FALSE
  FlattenOnKill = TRUE
  ReconcileEvery = 1
  KillOnMismatch = TRUE
  EnforceBudgets = FALSE
  EnforceFeedLag = FALSE
  NetworkFails = FALSE
  LateFills = TRUE
INVARIANT
  BrokerPositionCap

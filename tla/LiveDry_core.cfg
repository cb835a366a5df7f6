SPECIFICATION Spec
CONSTANTS
  None = None
  Scale = 10
  Slip = 1
  Fee = 1
  Prices <- MCPrices
  MaxLoss = 40
  MaxPosition = 3
  MaxNotional = 28
  CashTol = 2
  InitialCash = 320
  Targets <- MCTargets
  MaxTicks = 5
  RthOnly = TRUE
  FlattenOnKill = TRUE
  ReconcileEvery = 1
  KillOnMismatch = TRUE
  EnforceBudgets = TRUE
  EnforceFeedLag = TRUE
INVARIANTS
  TypeOK
  BooksAgree
  CashNonNegative
  PositionCap
  QuietTickWithinLimits
  MirrorAgrees
  BookExplainsPosition
  LateKillFlattens
PROPERTIES
  KilledNeverBuys
  ImplementsTradingBook

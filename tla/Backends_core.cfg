SPECIFICATION Spec
CONSTANTS
  None = None
  Scale = 10
  Slip = 1
  Fee = 1
  Prices = {7, 9, 10}
  MaxLoss = 40
  MaxPosition = 4
  MaxNotional = 31
  InitialCash = 290
  FlattenOnKill = TRUE
  Targets <- MCTargets
  MaxTicks = 7
INVARIANTS
  TypeOK
  Lockstep
  RunningWithinLimits
  PaperKilledFlat
  LogExplainsWhileRunning
  HardKillHolds

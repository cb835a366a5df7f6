SPECIFICATION Spec
CONSTANTS
  Fast = 1
  Slow = 2
  Lookback = 3
  EntryZ = 1
  Target = 2
  Prices <- SmallPrices
  Bars <- SmallBars
  MaxBars = 5
  Scale = 10
  Slip = 1
  FeeBps = 1
  Fee = 1
  InitialCash = 800
  Caps <- SmallCaps
  None = None
INVARIANTS
  TypeOK
  NoLookahead
  TripsAreFlatToFlat
  ReportMatchesOutcome

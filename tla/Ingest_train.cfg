SPECIFICATION Spec
CONSTANTS
  None = None
  Width = 2
  FundingEvery = 4
  End = 9
  Horizon = 11
  Limit = 2
  Compact = 3
  Feeds = 2
INVARIANT TrainsOnPriceBars

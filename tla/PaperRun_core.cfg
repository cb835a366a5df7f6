SPECIFICATION Spec
CONSTANTS
  None = None
  Bars = {1, 2, 3, 4}
  Window = 2
  MaxTicks = 3
INVARIANTS
  TypeOK
  InvertedOnlyIfLate
  EndedRunIsKept
  ManifestIsLast
PROPERTIES
  ImplementsTickFeed
  EveryBarTraded

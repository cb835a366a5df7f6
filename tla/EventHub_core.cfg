SPECIFICATION Spec
CONSTANTS
  None = None
  Browsers = {b1, b2}
  MaxEvents = 2
  WaitsForClients = FALSE
INVARIANTS
  TypeOK
  NothingMissed
  ServedUnlessSwallowed
  NoOrphans
PROPERTY SessionEnds

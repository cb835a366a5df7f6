SPECIFICATION Spec
CONSTANTS
  None = None
  Browsers = {b1}
  MaxEvents = 1
  WaitsForClients = TRUE
PROPERTY EndedIsPersisted

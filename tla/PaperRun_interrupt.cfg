SPECIFICATION Spec
CONSTANTS
  None = None
  Bars = {1, 2, 3}
  Window = 2
  MaxTicks = 3
INVARIANT InterruptFlushes

SPECIFICATION Spec
CONSTANTS
  Clients = 1
  Symbols = 1
  MaxOrders = 0
  MaxBars = 2
  MaxTicks = 0
  MayExit = FALSE
INVARIANT SnapshotSent
CHECK_DEADLOCK FALSE

SPECIFICATION Spec
CONSTANTS
  Clients = 1
  Symbols = 1
  MaxOrders = 1
  MaxBars = 1
  MaxTicks = 0
  MayExit = FALSE
INVARIANT AllDataSent
CHECK_DEADLOCK FALSE

SPECIFICATION FairSpec
CONSTANTS
  Clients = 1
  Symbols = 1
  MaxOrders = 1
  MaxBars = 1
  MaxTicks = 0
  MayExit = TRUE
PROPERTIES ListLockReturns ExitReturns
CHECK_DEADLOCK FALSE

SPECIFICATION FairSpec
CONSTANTS
  Clients = 2
  Symbols = 1
  MaxOrders = 0
  MaxBars = 0
  MaxTicks = 0
  MayExit = FALSE
PROPERTIES AbortedDestroyed ListLockReturns
CHECK_DEADLOCK FALSE

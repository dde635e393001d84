SPECIFICATION FairSpec
CONSTANTS
  Clients = 1
  Symbols = 1
  MaxOrders = 0
  MaxBars = 1
  MaxTicks = 2
  MayExit = FALSE
INVARIANT LatestFresh
PROPERTY LatestSent
CHECK_DEADLOCK FALSE

SPECIFICATION FairSpec
CONSTANTS
  Clients = 1
  Symbols = 1
  MaxOrders = 0
  MaxBars = 0
  MaxTicks = 3
  MayExit = FALSE
INVARIANT LatestFresh
PROPERTY LatestSent
CHECK_DEADLOCK FALSE

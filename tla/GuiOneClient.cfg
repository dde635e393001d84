SPECIFICATION FairSpec
CONSTANTS
  Clients = 1
  Symbols = 1
  MaxOrders = 2
  MaxBars = 2
  MaxTicks = 0
  MayExit = FALSE
INVARIANTS TypeOK OrdersJoin BarsJoin AtMostOneMissed
PROPERTIES EventuallySent AbortedDestroyed
CHECK_DEADLOCK FALSE

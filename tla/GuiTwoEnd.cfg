SPECIFICATION FairSpec
CONSTANTS
  Clients = 2
  Symbols = 1
  MaxOrders = 0
  MaxBars = 0
  MaxTicks = 0
  MayExit = TRUE
PROPERTY ExitReturns
CHECK_DEADLOCK FALSE

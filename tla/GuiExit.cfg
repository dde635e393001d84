SPECIFICATION FairSpec
CONSTANTS
  Clients = 1
  Symbols = 1
  MaxOrders = 1
  MaxBars = 0
  MaxTicks = 0
  MayExit = TRUE
PROPERTY Terminates
CHECK_DEADLOCK FALSE

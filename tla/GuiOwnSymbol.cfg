SPECIFICATION Spec
CONSTANTS
  Clients = 1
  Symbols = 2
  MaxOrders = 0
  MaxBars = 1
  MaxTicks = 0
  MayExit = FALSE
INVARIANT OwnSymbol
CHECK_DEADLOCK FALSE

SPECIFICATION Spec
CONSTANTS
  Bids = {100, 104, 108}
  Spread = 1
  LinesDist = 5
  MinCandle = 5
  MaxTrades = 2
  MaxTicks = 9
INVARIANTS TradesPerCandle StatsExact
PROPERTIES ImplementsBook StopsWatched
CHECK_DEADLOCK FALSE

SPECIFICATION FairSpec
CONSTANTS
  Data <- MCData
  TimeFrames <- MCTimeFrames
  Runs = 2
  Lookback = 2
  MaxFaults = 1
INVARIANTS TypeOK TicksInOrder BarsExact TeardownSafe
PROPERTIES RunEnds
CHECK_DEADLOCK FALSE

SPECIFICATION Spec
CONSTANTS
  Data <- MCData
  TimeFrames <- MCTimeFrames
  Runs = 2
  Lookback = 2
  MaxFaults = 0
INVARIANT StatsCoverRun
CHECK_DEADLOCK FALSE

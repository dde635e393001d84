SPECIFICATION Spec
CONSTANTS
  Mids = {131347, 131352, 131371, 131375, 131395, 131401, 131404}
  HalfSpread = 1
  Step = 30
  Tolerance = 10
  TradesPerLevel = 1
  StopLoss = 57
  TakeProfit = 54
  SoftTP = 15
  CloseOnProfit = 25
  Sections = 4
  SectionsOffset = 4
  MaxLots = 1
  ShortMids = {131371, 131404}
  ShortLevels = {131375}
  MaxTicks = 7
INVARIANT LevelLimit
CHECK_DEADLOCK FALSE

SPECIFICATION Spec
CONSTANTS
  OrderId = {o1, o2}
  Prices = {1, 2, 3}
  Spread = 1
  MaxTicks = 3
SYMMETRY Symmetry
INVARIANT SubmittedOnce
CHECK_DEADLOCK FALSE

SPECIFICATION Spec
CONSTANTS
  OrderId = {o1, o2}
  Prices = {1, 2, 3}
  Spread = 1
  MaxTicks = 3
SYMMETRY Symmetry
INVARIANTS TypeOK NothingOverdue AnnouncedInOrder
PROPERTY ImplementsBook
CHECK_DEADLOCK FALSE

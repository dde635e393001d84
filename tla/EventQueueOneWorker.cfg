SPECIFICATION FairSpec
CONSTANTS
  Event = {e1, e2, e3}
  Producers = {p1, p2}
  Workers = {w1}
  NoEvent = NoEvent
INVARIANTS InOrder DestroyedQuiet
PROPERTIES Delivery

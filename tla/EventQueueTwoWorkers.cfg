SPECIFICATION FairSpec
CONSTANTS
  Event = {e1, e2}
  Producers = {p1, p2}
  Workers = {w1, w2}
  NoEvent = NoEvent
INVARIANTS TypeOK NoLostWakeup
PROPERTIES ImplementsFifo DestructorReturns

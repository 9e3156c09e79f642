SPECIFICATION HistorySpec
CONSTANTS
  Event = {e1, e2, e3}
  Deliverable = {e1, e2}
  Fact = {e1, e2, e3}
  Dispatcher = {d1, d2}
  BatchSize = 2
  MaxCrashes = 1
  PageSize = 1
SYMMETRY Symmetry
INVARIANT NothingLost
INVARIANT WholeHistory
PROPERTY MarkedOnce
PROPERTY DeliverySpec

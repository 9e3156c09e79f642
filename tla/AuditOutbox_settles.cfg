SPECIFICATION FairSpec
CONSTANTS
  Event = {e1, e2, e3}
  Deliverable = {e3}
  Dispatcher = {d1}
  BatchSize = 1
  MaxCrashes = 1
PROPERTY Settles

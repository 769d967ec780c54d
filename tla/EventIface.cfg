SPECIFICATION FairSpec
CONSTANTS
  Evts = {e1, e2}
  QueueSize = 2
  MaxSends = 3
  MaxItems = 3
INVARIANT NothingUnseen
PROPERTY ReportsArrive
PROPERTY ChangesReturn
CHECK_DEADLOCK FALSE

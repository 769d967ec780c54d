SPECIFICATION FairSpec
CONSTANTS
  c1 = c1
  c2 = c2
  c3 = c3
  Calls <- MCCalls
  Silent <- MCSilent
  Indexes = {"i1"}
  Index <- MCIndex
  QueueSize = 1
INVARIANT OwnResult
INVARIANT DestroyDrains
PROPERTY CallsReturn
PROPERTY CallbacksCome
PROPERTY ImplementsExecutor
CHECK_DEADLOCK FALSE

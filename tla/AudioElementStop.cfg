SPECIFICATION FairSpec
CONSTANTS
  QueueSize = 3
  Oddities = {"wait_bit"}
PROPERTY StopEnds
INVARIANT StoppedIsStopped
INVARIANT FreedAlone

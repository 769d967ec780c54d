SPECIFICATION Spec
CONSTANTS
  QueueSize = 1
  Oddities = {"reset"}
INVARIANT PausedIsPaused
INVARIANT StopMarkIsOwed
INVARIANT ProcessesOpen

SPECIFICATION FairSpec
CONSTANTS
  Size = 5
  ReadLens = {3, 6}
  WriteLens = {4}
  MaxBytes = 8
  Timed = {"reader"}
INVARIANT Fifo
INVARIANT ReaderNotForgotten
INVARIANT WriterNotForgotten
PROPERTY DoneLeavesPartialWord
PROPERTY ImplementsQueue
PROPERTY AbortFrees
PROPERTY DoneIsReported
PROPERTY WritesComplete

SPECIFICATION FairSpec
CONSTANTS
  Kinds = {"file", "media", "master"}
  AutoConnect = {TRUE, FALSE}
  FileLen = 3
  SegLen = 2
  Window = 2
  MaxSegs = 4
  KeepTracks = 2
  MaxTracks = 4
  MaxConnect = 1
PROPERTY InOrder
PROPERTY Whole
PROPERTY StopObeyed
PROPERTY FileEnds

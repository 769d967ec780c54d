SPECIFICATION Spec
CONSTANTS
  Kinds = {"media"}
  AutoConnect = {TRUE}
  FileLen = 3
  SegLen = 2
  Window = 2
  MaxSegs = 4
  KeepTracks = 2
  MaxTracks = 4
  MaxConnect = 1
INVARIANT LiveGoesOn

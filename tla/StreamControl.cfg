SPECIFICATION FairSpec
CONSTANTS
  Urls = {u1, u2}
  FirstUrl = u1
  FirstVolume = v1
  Volumes = {v1, v2}
  MaxPlays = 1
  MaxEvents = 2
  MaxFailures = 1
INVARIANT LastStreamPlays
INVARIANT LastVolumeSet
INVARIANT NothingLeft
PROPERTY StreamIsServed

SPECIFICATION Spec
CONSTANTS
  Urls = {u1, u2}
  FirstUrl = u1
  Volumes = {v1}
  FirstVolume = v1
  MaxPlays = 1
  MaxEvents = 2
  MaxFailures = 0
INVARIANT OneControls

SPECIFICATION Spec
CONSTANTS
  a = a
  b = b
  Clients <- MCClients
  Uploads <- MCUploads
  MaxParallel = 2
  Slots = {1}
  None = None
INVARIANT WsUploaded
INVARIANT HttpUploaded
INVARIANT TcpUploaded
INVARIANT NoFileLost
PROPERTY EveryUploadEnds
CHECK_DEADLOCK FALSE

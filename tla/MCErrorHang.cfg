CONSTANTS
  Callers = {c1, c2}
  Requests <- MCRequests
  MaxCalls = 2
  RemoteChanges <- MCRemoteChanges
  MaxRemote = 1
  LossyLink = FALSE
  MasterErrors = TRUE
  ShutdownAnytime = FALSE
  ServerCallers = {}

SPECIFICATION Spec

PROPERTY CallsReturn

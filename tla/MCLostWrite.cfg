CONSTANTS
  Callers = {c1, c2}
  Requests <- MCRequests
  MaxCalls = 2
  RemoteChanges <- MCRemoteChanges
  MaxRemote = 1
  LossyLink = TRUE
  MasterErrors = FALSE
  ShutdownAnytime = FALSE
  ServerCallers = {}

SPECIFICATION Spec

PROPERTY UpdateTakesEffect

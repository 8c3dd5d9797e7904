CONSTANTS
  Callers = {c1}
  Requests <- MCRequests
  MaxCalls = 2
  RemoteChanges <- MCRemoteChanges
  MaxRemote = 1
  LossyLink = TRUE
  MasterErrors = TRUE
  ShutdownAnytime = TRUE
  ServerCallers = {c1}

SPECIFICATION Spec

INVARIANT NoLoginAfterRegistration

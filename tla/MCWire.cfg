CONSTANTS
  Callers = {c1}
  Requests <- MCWireRequests
  MaxCalls = 2
  RemoteChanges <- MCWireRemote
  MaxRemote = 1
  LossyLink = FALSE
  MasterErrors = TRUE
  ShutdownAnytime = TRUE
  ServerCallers = {c1}
  SplitReads = FALSE
  MaxLine = 24

INIT WireInit
NEXT WireNext

INVARIANT UnitHoldsKnownValues

CONSTANTS
  Callers = {c1}
  Requests <- MCWireRequests
  MaxCalls = 1
  RemoteChanges = {}
  MaxRemote = 0
  LossyLink = FALSE
  MasterErrors = FALSE
  ShutdownAnytime = FALSE
  ServerCallers = {}
  SplitReads = TRUE
  MaxLine = 24

INIT WireInit
NEXT WireNext

INVARIANT UnitHoldsKnownValues

CHECK_DEADLOCK FALSE

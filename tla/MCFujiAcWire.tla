----------------------------- MODULE MCFujiAcWire -----------------------------
(***************************************************************************)
(* Model values for FujiAcWire: one caller with one request, the fan and  *)
(* setpoint change of the command-line client, and one IR-remote change.   *)
(***************************************************************************)
EXTENDS FujiAcWire, FujiAcClient

MCWireRequests == { ClientRequest("", "low", 24) }

\* One IR-remote change on the unit.
MCWireRemote == { [field |-> "mode", value |-> MODE_DRY] }
=============================================================================

------------------------- MODULE MCFujiAcController -------------------------
(***************************************************************************)
(* Model values for FujiAcController.  Requests are the ones the          *)
(* integration tests and the command-line client send: a mode change, a   *)
(* fan change and a setpoint in 18..28.  The unit-side changes are the    *)
(* IR-remote calls of the tests (SetEnabled, SetMode).                    *)
(***************************************************************************)
EXTENDS FujiAcController, FujiAcClient

\* fuji_ac_controller_client --mode=heat, --mode=off, --fan=low --setpoint=24.
MCRequests ==
  { ClientRequest("heat", "", 0),
    ClientRequest("off", "", 0),
    ClientRequest("", "low", 24) }

MCRemoteChanges ==
  { [field |-> "enabled", value |-> 1],
    [field |-> "mode", value |-> MODE_DRY] }

\* A setpoint outside the range the command-line client allows, as another
\* gRPC client may send it (ClientRequest would drop it to 0).
MCWideRequests ==
  { [mode |-> "UNSET", fan |-> "UNSET", setpoint |-> 200] }
=============================================================================

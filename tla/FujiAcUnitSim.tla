---------------------------- MODULE FujiAcUnitSim ----------------------------
(***************************************************************************)
(* FujiAcUnitSim (src/sim/fuji_ac_unit_sim.cc): the simulated main unit   *)
(* ("master") used by the server's --sim mode and the integration tests.  *)
(* It answers each poll with the register the controller last asked for   *)
(* and applies the controller's write frames to its STATUS register.      *)
(* status_register is the payload part (bytes 3..7) of status_register_;  *)
(* the header bytes are rewritten on every poll and are not kept.         *)
(***************************************************************************)
EXTENDS FujiFrame

VARIABLES status_register, next_query_register

simVars == <<status_register, next_query_register>>

\* Payloads of the constructor's three register arrays.
InitialStatusPayload == <<70, 18, 160, 0, 32>>
ErrorPayload         == <<0, 0, 0, 0, 0>>
LoginPayload         == <<31, 31, 5, 1, 0>>

SimInit ==
  /\ status_register = InitialStatusPayload
  /\ next_query_register = STATUS

\* The STATUS register as GetNextMasterFrame sends it: a pending swing
\* step is cleared before the frame is copied.
PolledStatus == SetFlag(status_register, "swing_step", FALSE)

\* The frame GetNextMasterFrame returns (UNKNOWN is answered like STATUS).
NextMasterFrame ==
  CASE next_query_register \in {STATUS, UNKNOWN} ->
         MasterFrame(WIRED_CONTROLLER_ADDR, STATUS, PolledStatus)
    [] next_query_register = ERROR ->
         MasterFrame(WIRED_CONTROLLER_ADDR, ERROR, ErrorPayload)
    [] next_query_register = LOGIN ->
         MasterFrame(WIRED_CONTROLLER_ADDR, LOGIN, LoginPayload)

\* GetNextMasterFrame's effect on the simulator: the swing-step clear (STATUS
\* only) and SetUpdateMagic(10) after the frame has been copied.
GetNextMasterFrame ==
  /\ status_register' =
       SetField(IF next_query_register \in {STATUS, UNKNOWN}
                  THEN PolledStatus ELSE status_register,
                "update_magic", 10)
  /\ UNCHANGED next_query_register

\* Applying a write frame's payload q to the STATUS register p.
WriteStatus(p, q) ==
  LET p1 == SetField(SetField(SetFlag(p, "enabled", Flag(q, "enabled")),
                              "mode", Mode(q)), "fan", Fan(q))
      p2 == SetFlag(SetFlag(SetFlag(p1, "economy", Flag(q, "economy")),
                            "swing", Flag(q, "swing")),
                    "swing_step", Flag(q, "swing_step"))
  IN  IF Mode(q) # MODE_FAN
        THEN SetField(SetField(p2, "temperature", GetField(q, "temperature")),
                      "update_magic", 0)
        ELSE SetField(SetField(p2, "temperature", 18), "update_magic", 4)

\* PushControllerFrame.
PushControllerFrame(cf) ==
  LET p1 == IF cf.login THEN SetFlag(status_register, "controller_present", TRUE)
                        ELSE status_register
  IN  /\ next_query_register' =
           IF cf.query # UNKNOWN THEN cf.query ELSE next_query_register
      /\ status_register' =
           IF cf.query = STATUS /\ cf.write THEN WriteStatus(p1, cf.payload)
                                            ELSE p1

\* The IR-remote setters (SetEnabled, SetMode, SetFan, SetTemperature, ...):
\* write one field, then Update() sets the update magic to 4.
RemoteSet(f, v) ==
  /\ status_register' = SetField(SetField(status_register, f, v),
                                 "update_magic", 4)
  /\ UNCHANGED next_query_register
=============================================================================

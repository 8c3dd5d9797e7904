---------------------------- MODULE FujiAcState -----------------------------
(***************************************************************************)
(* FujiAcState (src/protocol/fuji_ac_state.h/.cc): the locally held state  *)
(* of the AC unit.  It is a passive object owned by the protocol handler,  *)
(* so its operations are operators on a record; the modules that own it    *)
(* use them inside their actions.                                          *)
(***************************************************************************)
EXTENDS FujiFrame

\* The default member initialisers of FujiAcState.
AcStateInit ==
  [mode |-> MODE_AUTO, enabled |-> FALSE, fan |-> FAN_AUTO,
   error_flag |-> FALSE, controller_present |-> FALSE, economy |-> FALSE,
   temperature |-> 20, swing |-> FALSE, swing_step |-> FALSE, merged |-> TRUE]

\* Every setter (SetMode, SetEnabled, SetFan, SetTemperature, ...) stores
\* its value and marks the state as not merged.
Set(s, f, v) == [s EXCEPT ![f] = v, !.merged = FALSE]

SetMerged(s, b) == [s EXCEPT !.merged = b]

\* BuildStatusRegisterResponse: economy and temperature are written only
\* when the mode is not FAN.  temperature_ is a uint8_t written unmasked.
BuildStatusRegisterResponse(s, p) ==
  LET p1 == SetField(SetField(SetFlag(p, "enabled", s.enabled),
                              "mode", s.mode), "fan", s.fan)
      p2 == IF s.mode # MODE_FAN
              THEN SetField(SetFlag(p1, "economy", s.economy),
                            "temperature", s.temperature)
              ELSE p1
  IN  SetFlag(SetFlag(p2, "swing", s.swing), "swing_step", s.swing_step)

\* MergeFromMasterStatusRegister: overwrite every field but swing_step
\* from the register, then mark the state merged.
MergeFromMasterStatusRegister(s, p) ==
  [s EXCEPT !.enabled = Flag(p, "enabled"), !.mode = Mode(p),
            !.fan = Fan(p), !.economy = Flag(p, "economy"),
            !.temperature = GetField(p, "temperature"),
            !.swing = Flag(p, "swing"), !.error_flag = Flag(p, "error"),
            !.controller_present = Flag(p, "controller_present"),
            !.merged = TRUE]
=============================================================================

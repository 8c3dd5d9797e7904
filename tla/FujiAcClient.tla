----------------------------- MODULE FujiAcClient -----------------------------
(***************************************************************************)
(* The command-line client (src/controller/fuji_ac_controller_client.cc)  *)
(* turns its --mode, --fan and --setpoint flags into the UpdateRequest it  *)
(* sends.  A flag it does not recognise leaves its field unset; an unset   *)
(* proto field is "UNSET" here, and an unset setpoint is 0.                *)
(***************************************************************************)
EXTENDS Integers

\* The --mode values the client recognises.  There is no "auto".
ClientModes ==
  [off |-> "MODE_OFF", cool |-> "MODE_COOL", dry |-> "MODE_DRY",
   fan |-> "MODE_FAN", heat |-> "MODE_HEAT"]

\* The --fan values it recognises.  There is no "auto".
ClientFans ==
  [low |-> "FAN_LOW", medium |-> "FAN_MEDIUM", high |-> "FAN_HIGH",
   max |-> "FAN_MAX"]

\* RunClient's request: each field set only from a recognised flag value,
\* the setpoint only when 18 <= --setpoint <= 28.
ClientRequest(mode, fan, setpoint) ==
  [mode     |-> IF mode \in DOMAIN ClientModes THEN ClientModes[mode] ELSE "UNSET",
   fan      |-> IF fan \in DOMAIN ClientFans THEN ClientFans[fan] ELSE "UNSET",
   setpoint |-> IF setpoint >= 18 /\ setpoint <= 28 THEN setpoint ELSE 0]
=============================================================================

------------------------ MODULE MCFujiStatusRegister ------------------------
(***************************************************************************)
(* Model values for FujiStatusRegister: the zeroed payload the frame       *)
(* builders start on, the simulator's initial STATUS payload and an        *)
(* all-ones payload; for each setter, the values the protocol handler and  *)
(* the simulator pass it.                                                  *)
(***************************************************************************)
EXTENDS FujiStatusRegister

MCInitPayloads ==
  {<<0, 0, 0, 47, 0>>, <<70, 18, 160, 0, 32>>, <<255, 255, 255, 255, 255>>}

MCFieldValues ==
  [mode |-> {MODE_UNKNOWN, MODE_COOL, MODE_AUTO},
   fan |-> {FAN_AUTO, FAN_MAX, FAN_UNKNOWN},
   enabled |-> {0, 1}, error |-> {0, 1}, economy |-> {0, 1},
   temperature |-> {18, 24, 127}, update_magic |-> {0, 4, 10},
   swing |-> {0, 1}, swing_step |-> {0, 1}, controller_present |-> {0, 1}]

\* Setpoints an Update may pass on unchecked (SetTemperature takes any
\* uint8_t; only the command-line client keeps to 18..28).
MCWideFieldValues == [MCFieldValues EXCEPT !.temperature = {24, 200}]
=============================================================================

--------------------------- MODULE MCFujiFrameCodec ---------------------------
(***************************************************************************)
(* Model values for FujiFrameCodec: the simulator's three register arrays *)
(* and the frames of fuji_frame_test.cc; the payloads the protocol         *)
(* handler puts in controller frames.                                      *)
(***************************************************************************)
EXTENDS FujiFrameCodec

MCInitMasterBytes ==
  { <<0, 0, 0, 70, 18, 160, 0, 32>>,   \* FujiAcUnitSim status_register_
    <<0, 0, 16, 0, 0, 0, 0, 0>>,       \* error_register_
    <<0, 0, 32, 31, 31, 5, 1, 0>>,     \* login_register_
    <<0, 240, 112, 70, 18, 160, 0, 32>> } \* fuji_frame_test: UNKNOWN, UNKNOWN

MCPayloads == { <<0, 0, 0, 0, 0>>, <<0, 0, 0, 47, 0>>, <<73, 18, 0, 47, 0>> }
=============================================================================

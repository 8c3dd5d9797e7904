--------------------------- MODULE MCFujiSerialLink ---------------------------
(***************************************************************************)
(* Model values for FujiSerialLink.  The master frames are the three that *)
(* FujiAcUnitSim::GetNextMasterFrame builds (register array, WithType,     *)
(* WithUnknownBit(true), WithDestination(WIRED_CONTROLLER_ADDR)).  The     *)
(* controller frames are the ones FujiAcProtocolHandler builds: a LOGIN    *)
(* query, an ERROR query, and a status frame with the write bit.           *)
(***************************************************************************)
EXTENDS FujiSerialLink

\* A sim register array turned into the frame it sends.
SimFrame(reg, type) ==
  [reg EXCEPT ![2] = SetBits(SetBits(@, 7, 1, 1), 0, 7, WIRED_CONTROLLER_ADDR),
              ![3] = SetBits(@, 4, 2, type)]

MCMasterFrames ==
  { SimFrame(<<0, 0, 0, 70, 18, 160, 0, 32>>, STATUS),
    SimFrame(<<0, 0, 32, 31, 31, 5, 1, 0>>, LOGIN) }

\* Controller frames: WithLoginBit / WithQueryRegister / WithWriteBit /
\* WithPayload on a default-constructed frame.
MCControllerFrames ==
  { [DefaultControllerBytes EXCEPT ![2] = SetBits(@, 5, 1, 1),
                                   ![3] = SetBits(@, 4, 2, LOGIN)],
    SubSeq([DefaultControllerBytes EXCEPT ![3] = SetBits(@, 3, 1, 1)], 1, 3)
      \o <<73, 18, 0, 47, 0>> }
=============================================================================

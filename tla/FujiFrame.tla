----------------------------- MODULE FujiFrame ------------------------------
(***************************************************************************)
(* The two 8-byte frame kinds (src/protocol/fuji_frame.h/.cc), with their  *)
(* header fields decoded.  A master frame is [dest, type, payload]; a      *)
(* controller frame is [login, write, query, payload].  The constant       *)
(* header bytes of a controller frame (address 32, byte 1 = 129) are the   *)
(* same in every frame and are left out; frame equality (operator== on    *)
(* FullFrame) is record equality.                                          *)
(***************************************************************************)
EXTENDS FujiRegister

\* DestinationAddr
UNKNOWN_ADDR          == 0
OTHER_ADDR            == 1
WIRED_CONTROLLER_ADDR == 32

\* RegisterType
STATUS  == 0
ERROR   == 1
LOGIN   == 2
UNKNOWN == 3

RegisterTypes == {STATUS, ERROR, LOGIN, UNKNOWN}

ZeroPayload == <<0, 0, 0, 0, 0>>

\* FujiControllerFrame(): {32, 129, 0, 0, 0, 0, 0, 0}.
DefaultControllerFrame ==
  [login |-> FALSE, write |-> FALSE, query |-> STATUS, payload |-> ZeroPayload]

\* The result of a HandleMasterFrame that returned absl::nullopt.
NoFrame == [none |-> TRUE]

MasterFrame(dest, type, payload) ==
  [dest |-> dest, type |-> type, payload |-> payload]
=============================================================================

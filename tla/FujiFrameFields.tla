--------------------------- MODULE FujiFrameFields ---------------------------
(***************************************************************************)
(* What the frame classes promise (spec.md section 3): a master frame and  *)
(* a controller frame are records of independent fields, and each With...  *)
(* setter changes its own field and nothing else.  FujiFrameCodec, the     *)
(* byte-level frames of src/protocol/fuji_frame.cc, implements this.       *)
(***************************************************************************)
EXTENDS FujiFrame

CONSTANTS
  InitMasterFrames,  \* the master frames the unit starts from, as records
  Payloads           \* payloads a controller frame is given

DestinationAddrs == {UNKNOWN_ADDR, OTHER_ADDR, WIRED_CONTROLLER_ADDR}

VARIABLES mf, cf

fieldVars == <<mf, cf>>

Init ==
  /\ mf \in InitMasterFrames
  /\ cf = DefaultControllerFrame

SetMasterField ==
  \/ \E d \in DestinationAddrs : mf' = [mf EXCEPT !.dest = d]
  \/ \E t \in RegisterTypes : mf' = [mf EXCEPT !.type = t]
  \/ \E b \in BOOLEAN : mf' = [mf EXCEPT !.unknown = b]

SetControllerField ==
  \/ \E t \in RegisterTypes : cf' = [cf EXCEPT !.query = t]
  \/ \E b \in BOOLEAN : cf' = [cf EXCEPT !.login = b]
  \/ \E b \in BOOLEAN : cf' = [cf EXCEPT !.write = b]
  \/ \E p \in Payloads : cf' = [cf EXCEPT !.payload = p]

Next ==
  \/ SetMasterField /\ UNCHANGED cf
  \/ SetControllerField /\ UNCHANGED mf

Spec == Init /\ [][Next]_fieldVars
=============================================================================

---------------------------- MODULE FujiFrameCodec ----------------------------
(***************************************************************************)
(* The 8-byte frames of src/protocol/fuji_frame.cc.  mdata is the data_ of *)
(* one FujiMasterFrame, cdata that of one FujiControllerFrame; byte i of   *)
(* the C++ array is element i+1.  Each With... setter is an action; the    *)
(* getters decode the header bits.                                         *)
(***************************************************************************)
EXTENDS FujiFrameBytes

CONSTANTS
  InitMasterBytes,  \* arrays a FujiMasterFrame is constructed from
  Payloads          \* payloads given to FujiControllerFrame::WithPayload

VARIABLES mdata, cdata

vars == <<mdata, cdata>>

Init ==
  /\ mdata \in InitMasterBytes
  /\ cdata = DefaultControllerBytes

\* WithUnknownBit: clear bit 7 of byte 1, then set it if asked.
WithUnknownBit(b) ==
  /\ mdata' = [mdata EXCEPT ![2] = SetBits(@, 7, 1, B2N(b))]
  /\ UNCHANGED cdata

\* Mutant: the destination assigned to the whole byte, dropping bit 7.
WithDestinationNoKeep(dest) ==
  /\ mdata' = [mdata EXCEPT ![2] = dest % 128]
  /\ UNCHANGED cdata

\* WithDestination: keep bit 7 of byte 1, OR in dest & 0x7f.
WithDestination(dest) ==
  /\ mdata' = [mdata EXCEPT ![2] = SetBits(@, 0, 7, dest % 128)]
  /\ UNCHANGED cdata

\* WithType: data_[2] &= 0b11001111; data_[2] |= type << 4.
WithType(t) ==
  /\ mdata' = [mdata EXCEPT ![3] = SetBits(@, 4, 2, t)]
  /\ UNCHANGED cdata

\* WithQueryRegister: the same two bits of the controller frame.
WithQueryRegister(t) ==
  /\ cdata' = [cdata EXCEPT ![3] = SetBits(@, 4, 2, t)]
  /\ UNCHANGED mdata

\* WithLoginBit: bit 5 of byte 1.
WithLoginBit(b) ==
  /\ cdata' = [cdata EXCEPT ![2] = SetBits(@, 5, 1, B2N(b))]
  /\ UNCHANGED mdata

\* WithWriteBit: bit 3 of byte 2.
WithWriteBit(b) ==
  /\ cdata' = [cdata EXCEPT ![3] = SetBits(@, 3, 1, B2N(b))]
  /\ UNCHANGED mdata

\* WithPayload: the payload copied into bytes 3..7.
WithPayload(p) ==
  /\ cdata' = SubSeq(cdata, 1, 3) \o p
  /\ UNCHANGED mdata

Next ==
  \/ \E b \in BOOLEAN : WithUnknownBit(b)
  \/ \E dest \in {UNKNOWN_ADDR, OTHER_ADDR, WIRED_CONTROLLER_ADDR} :
       WithDestination(dest)
  \/ \E t \in RegisterTypes : WithType(t) \/ WithQueryRegister(t)
  \/ \E b \in BOOLEAN : WithLoginBit(b) \/ WithWriteBit(b)
  \/ \E p \in Payloads : WithPayload(p)

Spec == Init /\ [][Next]_vars

\* The frame classes implement independent fields: seen through the
\* getters, every sequence of With... calls on the two byte arrays is a
\* behaviour of FujiFrameFields, where each setter changes its own field
\* only.  This is the abstraction the controller model's frames rest on.
FrameFields == INSTANCE FujiFrameFields
            WITH mf <- MasterView(mdata), cf <- ControllerView(cdata),
                 InitMasterFrames <- {MasterView(d) : d \in InitMasterBytes}

FramesImplementFields == FrameFields!Spec
=============================================================================

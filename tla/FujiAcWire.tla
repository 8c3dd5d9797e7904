------------------------------ MODULE FujiAcWire ------------------------------
(***************************************************************************)
(* FujiAcController on the serial wire: the loop reads the unit's frames   *)
(* through FujiAcSerialReader::ReadMasterFrame (the bytes on the line of   *)
(* FujiSerialLink) instead of being handed whole frames, and every frame   *)
(* it writes goes on the same line, where its own reader meets it again.   *)
(* The unit behind the wire is FujiAcUnitSim, the repository's model of    *)
(* the main unit: it polls by putting GetNextMasterFrame's bytes on the    *)
(* line, and takes the controller's frames with PushControllerFrame.       *)
(***************************************************************************)
EXTENDS FujiAcController, FujiFrameBytes

CONSTANTS
  SplitReads,  \* TRUE: a read may return part of what has arrived
  MaxLine      \* bound on the bytes waiting on the line

VARIABLES line, got, sent, echoes

linkVars == <<line, got, sent, echoes>>

Link == INSTANCE FujiSerialLink
          WITH MasterFrames <- {}, ControllerFrames <- {}

wireVars == <<vars, linkVars>>

\* The bytes of GetNextMasterFrame's frame: the register array's header
\* (0, 0, type << 4 in all three), WithType, WithUnknownBit(true) and
\* WithDestination(WIRED_CONTROLLER_ADDR) on byte 1, then the payload.
MasterBytes(mf) ==
  <<0, SetBits(SetBits(0, 7, 1, 1), 0, 7, mf.dest), SetBits(0, 4, 2, mf.type)>>
    \o mf.payload

\* The bytes of a frame the handler built on FujiControllerFrame():
\* WithLoginBit, WithQueryRegister, WithWriteBit and WithPayload.
ControllerBytes(cf) ==
  <<WIRED_CONTROLLER_ADDR,
    SetBits(DefaultControllerBytes[2], 5, 1, B2N(cf.login)),
    SetBits(SetBits(DefaultControllerBytes[3], 4, 2, cf.query), 3, 1, B2N(cf.write))>>
    \o cf.payload

WireInit ==
  /\ Init
  /\ Link!Init

\* The unit polls: GetNextMasterFrame, its bytes on the wire.  It leaves
\* room on the line for the controller's answer.
UnitPoll ==
  /\ Len(line) + 16 <= MaxLine
  /\ GetNextMasterFrame
  /\ Link!MasterTransmit(MasterBytes(NextMasterFrame))
  /\ UNCHANGED <<handlerVars, loop_pc, rx, last_frame, ready, shutdown, pc,
                 req, calls, remote_count, delivered, interfered>>

\* DoLoop's serial_->ReadMasterFrame(): a short read is nullopt and the
\* loop continues; eight bytes are a FujiMasterFrame for HandleMasterFrame.
WireRead ==
  /\ loop_pc = "read"
  /\ ~shutdown
  /\ \E k \in Link!ReadSizes :
       /\ Link!ReadMasterFrame(k)
       /\ IF k = 8
            THEN LET d == Link!Deobfuscate(SubSeq(line, 1, 8))
                 IN  /\ rx' = MasterFrame(Destination(d), RegisterOf(d), Payload(d))
                     /\ loop_pc' = "handle"
            ELSE UNCHANGED <<rx, loop_pc>>
  /\ UNCHANGED <<handlerVars, simVars, last_frame, ready, shutdown, pc, req,
                 calls, remote_count, delivered, interfered>>

\* DoLoop's critical section; WriteControllerFrame puts the reply on the
\* wire, and the unit takes it.
WireHandle ==
  /\ LoopHandle
  /\ LET cf == Handle(HandlerState, rx).reply
     IN  IF cf = NoFrame THEN UNCHANGED linkVars
                         ELSE Link!WriteControllerFrame(ControllerBytes(cf))

WireNext ==
  \/ UnitPoll \/ WireRead \/ WireHandle
  \/ /\ \/ LoopExit
        \/ \E t \in Callers : \/ \E r \in Requests : Update(t, r)
                              \/ UpdateReturn(t)
                              \/ GetStatus(t)
                              \/ GetStatusReturn(t)
        \/ Shutdown \/ RemoteChange \/ ErrorChange \/ Terminated
     /\ UNCHANGED linkVars

WireSpec == WireInit /\ [][WireNext]_wireVars

\* The FujiAcState member initialisers of the fields callers set.
AcDefault == [enabled |-> B2N(AcStateInit.enabled), mode |-> AcStateInit.mode,
              fan |-> AcStateInit.fan, temperature |-> AcStateInit.temperature]

\* What the controller writes to the unit comes from somebody: every field
\* a caller can set holds on the unit its initial value, a value a caller
\* or the IR remote chose, or a FujiAcState default (first_sync shows how
\* those get there).  A frame the reader assembled from the tail of one
\* frame and the head of the next must not be merged and written back.
UnitHoldsKnownValues ==
  \A f \in {"enabled", "mode", "fan", "temperature"} :
    GetField(status_register, f)
      \in ChosenValues(f) \cup {AcDefault[f]}
=============================================================================

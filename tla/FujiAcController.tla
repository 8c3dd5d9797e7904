--------------------------- MODULE FujiAcController ---------------------------
(***************************************************************************)
(* FujiAcController (src/controller/fuji_ac_controller.cc) composed with   *)
(* the protocol handler it owns and the simulated main unit behind its     *)
(* serial interface (the FujiACControllerSimServiceImpl wiring of          *)
(* src/controller/fuji_ac_server.cc and the integration tests).            *)
(*                                                                         *)
(* Threads: the processing loop (DoLoop) and the callers of Update and     *)
(* GetStatus.  Every critical section under mu_ is one action; Await       *)
(* releases mu_ while it waits, so Update is split into its body and its   *)
(* return.  ReadMasterFrame runs outside mu_.                              *)
(***************************************************************************)
EXTENDS FujiAcProtocolHandler, FujiAcUnitSim, FiniteSets

CONSTANTS
  Callers,        \* threads calling Update / GetStatus
  Requests,       \* the proto::ACUnitState values callers pass to Update
  MaxCalls,       \* calls per caller
  RemoteChanges,  \* IR-remote changes on the unit: [field, value] records
  MaxRemote,      \* number of changes made on the unit side
  LossyLink,      \* TRUE: a frame on the wire may be lost
  MasterErrors,   \* TRUE: the unit may raise or clear its error bit
  ShutdownAnytime,\* TRUE: Shutdown may come while a call is blocked
  ServerCallers   \* the callers that are the gRPC service's Update handler

\* proto::Mode / proto::Fan values a request may carry; any other value
\* (the unset one) leaves the field unchanged.
ProtoModeCode == [MODE_AUTO |-> MODE_AUTO, MODE_COOL |-> MODE_COOL,
                  MODE_HEAT |-> MODE_HEAT, MODE_DRY |-> MODE_DRY,
                  MODE_FAN |-> MODE_FAN]
ProtoFanCode == [FAN_AUTO |-> FAN_AUTO, FAN_MAX |-> FAN_MAX,
                 FAN_HIGH |-> FAN_HIGH, FAN_MEDIUM |-> FAN_MEDIUM,
                 FAN_LOW |-> FAN_LOW]

\* The proto name of a mode_t / fan_t code, "UNSET" for a code the switch
\* has no case for (the default branch leaves the field unset).
ProtoName(names, c) ==
  IF \E n \in DOMAIN names : names[n] = c
    THEN CHOOSE n \in DOMAIN names : names[n] = c ELSE "UNSET"

\* Mutant: the mode switch without the Enabled() test.
ToProtoNoOff(s) ==
  [mode |-> ProtoName(ProtoModeCode, s.mode),
   fan |-> ProtoName(ProtoFanCode, s.fan), setpoint |-> s.temperature]

\* GetStatus's proto::ACUnitState: MODE_OFF when the unit is disabled,
\* otherwise the mode; the fan; the setpoint is the temperature.
ToProto(s) ==
  [mode |-> IF s.enabled THEN ProtoName(ProtoModeCode, s.mode) ELSE "MODE_OFF",
   fan |-> ProtoName(ProtoFanCode, s.fan), setpoint |-> s.temperature]

ASSUME /\ MaxCalls \in Nat /\ MaxRemote \in Nat
       /\ \A r \in Requests : r.setpoint \in Nat
       /\ LossyLink \in BOOLEAN /\ MasterErrors \in BOOLEAN
       /\ ShutdownAnytime \in BOOLEAN /\ ServerCallers \subseteq Callers

VARIABLES
  loop_pc,      \* DoLoop: "read", "handle" or "exited"
  rx,           \* the master frame DoLoop has read, or NoFrame
  last_frame,   \* last_frame_
  ready,        \* ready_
  shutdown,     \* shutdown_
  pc,           \* per caller: "idle", "await" (in Update), "status" (in GetStatus),
                \* "rpc" (the Update RPC's GetStatus, after Update returned)
  req,          \* per caller: the request of its current or last Update
  calls,        \* per caller: calls made
  remote_count, \* unit-side changes made
  \* History variables for the properties:
  delivered,    \* per caller: a write frame reached the unit during its Update
  interfered    \* per caller: its Update was overridden by another Update,
                \* or by a unit-side change after a write reached the unit

vars == <<ac_state, login_read, error_read, status_register,
          next_query_register, loop_pc, rx, last_frame, ready, shutdown, pc,
          req, calls, remote_count, delivered, interfered>>

-----------------------------------------------------------------------------
\* FujiAcController::Update's switch statements and setpoint check.  The
\* setpoint is narrowed to the uint8_t that SetTemperature takes.
ApplyRequest(s, r) ==
  LET s1 == CASE r.mode = "MODE_OFF" -> Set(s, "enabled", FALSE)
              [] r.mode \in DOMAIN ProtoModeCode ->
                   Set(Set(s, "enabled", TRUE), "mode", ProtoModeCode[r.mode])
              [] OTHER -> s
      s2 == IF r.fan \in DOMAIN ProtoFanCode
              THEN Set(s1, "fan", ProtoFanCode[r.fan]) ELSE s1
  IN  IF r.setpoint # 0 THEN Set(s2, "temperature", r.setpoint % 256) ELSE s2

Init ==
  /\ HandlerInit
  /\ SimInit
  /\ loop_pc = "read"
  /\ rx = NoFrame
  /\ last_frame = DefaultControllerFrame
  /\ ready = FALSE
  /\ shutdown = FALSE
  /\ pc = [t \in Callers |-> "idle"]
  /\ req = [t \in Callers |-> CHOOSE r \in Requests : TRUE]
  /\ calls = [t \in Callers |-> 0]
  /\ remote_count = 0
  /\ delivered = [t \in Callers |-> FALSE]
  /\ interfered = [t \in Callers |-> FALSE]

-----------------------------------------------------------------------------
(* The processing loop.                                                    *)

\* while (!shutdown_) { mf = serial_->ReadMasterFrame(); if (!mf) continue; ...
\* The unit sends its next frame; on a lossy link the read may come back
\* short, and DoLoop continues.
LoopRead ==
  /\ loop_pc = "read"
  /\ ~shutdown
  /\ GetNextMasterFrame
  /\ \/ rx' = NextMasterFrame /\ loop_pc' = "handle"
     \/ LossyLink /\ UNCHANGED <<rx, loop_pc>>
  /\ UNCHANGED <<handlerVars, last_frame, ready, shutdown, pc, req, calls,
                 remote_count, delivered, interfered>>

\* Under mu_: HandleMasterFrame; if a frame results, ready_ is set when it
\* equals last_frame_, it is written to the unit and becomes last_frame_.
Transmit(cf) ==
  /\ ready' = (ready \/ cf = last_frame)
  /\ last_frame' = cf
  /\ \/ /\ PushControllerFrame(cf)
        /\ delivered' = [t \in Callers |->
                           delivered[t] \/ (pc[t] = "await" /\ cf.write)]
     \/ LossyLink /\ UNCHANGED <<simVars, delivered>>

LoopHandle ==
  /\ loop_pc = "handle"
  /\ \E r \in {Handle(HandlerState, rx)} :
        /\ ac_state' = r.h.ac_state
        /\ login_read' = r.h.login_read
        /\ error_read' = r.h.error_read
        /\ IF r.reply = NoFrame
             THEN UNCHANGED <<ready, last_frame, simVars, delivered>>
             ELSE Transmit(r.reply)
  /\ loop_pc' = "read"
  /\ rx' = NoFrame
  /\ UNCHANGED <<shutdown, pc, req, calls, remote_count, interfered>>

\* The loop sees shutdown_ and returns; Shutdown's join completes.
LoopExit ==
  /\ loop_pc = "read"
  /\ shutdown
  /\ loop_pc' = "exited"
  /\ UNCHANGED <<handlerVars, simVars, rx, last_frame, ready, shutdown, pc,
                 req, calls, remote_count, delivered, interfered>>

-----------------------------------------------------------------------------
(* The callers.                                                            *)

\* Mutant: Update leaves ready_ as it was.
UpdateKeepsReady(t, r) ==
  /\ pc[t] = "idle"
  /\ calls[t] < MaxCalls
  /\ ~shutdown
  /\ ac_state' = ApplyRequest(ac_state, r)
  /\ pc' = [pc EXCEPT ![t] = "await"]
  /\ req' = [req EXCEPT ![t] = r]
  /\ calls' = [calls EXCEPT ![t] = @ + 1]
  /\ delivered' = [delivered EXCEPT ![t] = FALSE]
  /\ interfered' = [u \in Callers |->
                      IF u = t THEN FALSE ELSE interfered[u] \/ pc[u] \in {"await", "rpc"}]
  /\ UNCHANGED <<login_read, error_read, simVars, loop_pc, rx, last_frame,
                 ready, shutdown, remote_count>>

\* Update up to mu_.Await: ready_ = false, the request applied to the state.
Update(t, r) ==
  /\ pc[t] = "idle"
  /\ calls[t] < MaxCalls
  /\ ~shutdown
  /\ ac_state' = ApplyRequest(ac_state, r)
  /\ ready' = FALSE
  /\ pc' = [pc EXCEPT ![t] = "await"]
  /\ req' = [req EXCEPT ![t] = r]
  /\ calls' = [calls EXCEPT ![t] = @ + 1]
  /\ delivered' = [delivered EXCEPT ![t] = FALSE]
  /\ interfered' = [u \in Callers |->
                      IF u = t THEN FALSE ELSE interfered[u] \/ pc[u] \in {"await", "rpc"}]
  /\ UNCHANGED <<login_read, error_read, simVars, loop_pc, rx, last_frame,
                 shutdown, remote_count>>

\* Where a caller goes once Update returns OkStatus: the service's Update
\* handler (fuji_ac_server.cc) calls GetStatus for its response; any
\* other caller is done.
AfterUpdate(t) == IF t \in ServerCallers THEN "rpc" ELSE "idle"

\* Await(ready_) returns; Update returns OkStatus.
UpdateReturn(t) ==
  /\ pc[t] = "await"
  /\ ready
  /\ pc' = [pc EXCEPT ![t] = AfterUpdate(t)]
  /\ UNCHANGED <<handlerVars, simVars, loop_pc, rx, last_frame, ready,
                 shutdown, req, calls, remote_count, delivered, interfered>>

\* GetStatus: mu_.Await(ready_), then the state is read; reading changes
\* nothing, so the call is its entry and its return.
GetStatus(t) ==
  /\ pc[t] = "idle"
  /\ calls[t] < MaxCalls
  /\ ~shutdown
  /\ pc' = [pc EXCEPT ![t] = "status"]
  /\ calls' = [calls EXCEPT ![t] = @ + 1]
  /\ UNCHANGED <<handlerVars, simVars, loop_pc, rx, last_frame, ready,
                 shutdown, req, remote_count, delivered, interfered>>

GetStatusReturn(t) ==
  /\ pc[t] \in {"status", "rpc"}
  /\ ready
  /\ pc' = [pc EXCEPT ![t] = "idle"]
  /\ UNCHANGED <<handlerVars, simVars, loop_pc, rx, last_frame, ready,
                 shutdown, req, calls, remote_count, delivered, interfered>>

\* Shutdown: set shutdown_; the loop exits on its own and is joined.  The
\* tests' TearDown calls it once no call is in progress; the destructor of
\* a server whose RPC threads are still inside Update may call it at any
\* time (ShutdownAnytime).  Nothing wakes a caller blocked in Await.
Shutdown ==
  /\ ~shutdown
  /\ ShutdownAnytime \/ \A t \in Callers : pc[t] = "idle"
  /\ shutdown' = TRUE
  /\ UNCHANGED <<handlerVars, simVars, loop_pc, rx, last_frame, ready, pc,
                 req, calls, remote_count, delivered, interfered>>

-----------------------------------------------------------------------------
(* The unit's side: its own changes.                                       *)

\* A unit-side change overrides every Update whose write already arrived.
UnitChanged ==
  /\ remote_count' = remote_count + 1
  /\ interfered' = [t \in Callers |->
                      interfered[t] \/ (pc[t] \in {"await", "rpc"} /\ delivered[t])]

\* A change made with the IR remote (FujiAcUnitSim::SetMode, ...).
RemoteChange ==
  /\ remote_count < MaxRemote
  /\ \E c \in RemoteChanges : RemoteSet(c.field, c.value)
  /\ UnitChanged
  /\ UNCHANGED <<handlerVars, loop_pc, rx, last_frame, ready, shutdown, pc,
                 req, calls, delivered>>

\* The unit raises or clears its error bit (the simulator never does; the
\* real unit does, which is what the handler's error query is for).
ErrorChange ==
  /\ MasterErrors
  /\ remote_count < MaxRemote
  /\ status_register' = SetFlag(status_register, "error",
                                ~Flag(status_register, "error"))
  /\ UnitChanged
  /\ UNCHANGED <<handlerVars, next_query_register, loop_pc, rx, last_frame,
                 ready, shutdown, pc, req, calls, delivered>>

\* After shutdown and the loop's exit nothing more happens.
Terminated ==
  /\ loop_pc = "exited"
  /\ UNCHANGED vars

Next ==
  \/ LoopRead \/ LoopHandle \/ LoopExit
  \/ \E t \in Callers : \/ \E r \in Requests : Update(t, r)
                        \/ UpdateReturn(t)
                        \/ GetStatus(t)
                        \/ GetStatusReturn(t)
  \/ Shutdown
  \/ RemoteChange \/ ErrorChange
  \/ Terminated

\* The loop thread runs whenever it can (the unit polls forever); a caller
\* blocked in Await is woken once ready_ holds.  Handle is total and every
\* LoopHandle step changes loop_pc, so ENABLED <<LoopHandle>>_vars is
\* loop_pc = "handle"; the weak fairness of LoopHandle is written with that
\* condition, which TLC evaluates without unfolding Handle.
LoopHandleFair ==
  []<>(loop_pc # "handle") \/ []<><<LoopHandle>>_vars

Fairness ==
  /\ WF_vars(LoopRead) /\ LoopHandleFair /\ WF_vars(LoopExit)
  /\ \A t \in Callers : WF_vars(UpdateReturn(t)) /\ WF_vars(GetStatusReturn(t))

Spec == Init /\ [][Next]_vars /\ Fairness

-----------------------------------------------------------------------------
(* Properties.                                                             *)

Frames == [login : BOOLEAN, write : BOOLEAN, query : RegisterTypes,
           payload : [1..5 -> Byte]]

\* Type invariant: every variable holds a value of its C++ type; frames
\* and payloads keep byte-sized elements through every setter.
TypeOK ==
  /\ login_read \in BOOLEAN /\ error_read \in BOOLEAN
  /\ ac_state.merged \in BOOLEAN
  /\ status_register \in [1..5 -> Byte]
  /\ next_query_register \in RegisterTypes
  /\ loop_pc \in {"read", "handle", "exited"}
  /\ last_frame \in Frames
  /\ ready \in BOOLEAN /\ shutdown \in BOOLEAN
  /\ pc \in [Callers -> {"idle", "await", "status", "rpc"}]
  /\ req \in [Callers -> Requests]
  /\ calls \in [Callers -> 0..MaxCalls]
  /\ remote_count \in 0..MaxRemote
  /\ delivered \in [Callers -> BOOLEAN]
  /\ interfered \in [Callers -> BOOLEAN]

\* The fields request r names hold in the local state s ...
HoldsLocally(r, s) ==
  /\ r.mode = "MODE_OFF" => ~s.enabled
  /\ r.mode \in DOMAIN ProtoModeCode => s.enabled /\ s.mode = ProtoModeCode[r.mode]
  /\ r.fan \in DOMAIN ProtoFanCode => s.fan = ProtoFanCode[r.fan]
  /\ r.setpoint # 0 => s.temperature = r.setpoint

\* ... and in the unit's STATUS register p.
HoldsOnUnit(r, p) ==
  HoldsLocally(r, [enabled |-> Flag(p, "enabled"), mode |-> Mode(p),
                   fan |-> Fan(p), temperature |-> GetField(p, "temperature")])

\* Update's contract ("will block until values are changed"): when Update
\* returns, unless another Update or a later change on the unit overrode
\* it, the requested values are in the local state and on the unit.
UpdateTakesEffect ==
  [][\A t \in Callers :
       (pc[t] = "await" /\ pc'[t] # "await" /\ ~interfered[t])
         => HoldsLocally(req[t], ac_state) /\ HoldsOnUnit(req[t], status_register)
    ]_vars

\* The response of the Update RPC: GetStatus, called once Update has
\* returned, shows every field the request set, unless another Update or
\* a change on the unit overrode it meanwhile.  A client reading the
\* response sees its own change, though GetStatus waits on ready_ again
\* and DoLoop may have merged unit frames between the two calls.
UpdateResponseShowsRequest ==
  [][\A t \in ServerCallers :
       (pc[t] = "rpc" /\ pc'[t] = "idle" /\ ~interfered[t])
         => LET resp == ToProto(ac_state) IN
              /\ req[t].mode # "UNSET" => resp.mode = req[t].mode
              /\ req[t].fan # "UNSET" => resp.fan = req[t].fan
              /\ req[t].setpoint # 0 => resp.setpoint = req[t].setpoint
    ]_vars

\* ready_ (the convergence signal GetStatus and Update wait for) is never
\* set while a local change is still waiting to be written to the unit.
ReadyOnlyWhenMerged == ready => ac_state.merged

\* The values of the fields callers set that a request or a unit-side
\* change could have put on the unit.
RequestedValues(f) ==
  CASE f = "enabled" ->
         {B2N(r.mode # "MODE_OFF") : r \in {q \in Requests : q.mode # "UNSET"}}
    [] f = "mode" ->
         {ProtoModeCode[r.mode] : r \in {q \in Requests : q.mode \in DOMAIN ProtoModeCode}}
    [] f = "fan" ->
         {ProtoFanCode[r.fan] : r \in {q \in Requests : q.fan \in DOMAIN ProtoFanCode}}
    [] f = "temperature" ->
         {r.setpoint % 256 : r \in {q \in Requests : q.setpoint # 0}}

ChosenValues(f) ==
  {GetField(InitialStatusPayload, f)} \cup RequestedValues(f)
    \cup {c.value : c \in {d \in RemoteChanges : d.field = f}}

\* The controller writes to the unit only what somebody chose: every
\* field a caller can set holds, on the unit, its initial value, a value
\* a caller requested or one set on the unit itself; it never pushes a
\* value of its own (the FujiAcState defaults, say).
UnitHoldsChosenValues ==
  \A f \in {"enabled", "mode", "fan", "temperature"} :
    GetField(status_register, f) \in ChosenValues(f)

\* Once the unit has the controller registered (its controller_present
\* bit, set by the LoggedIn frame), the handler never asks for the LOGIN
\* register again: login_read_ is armed only from a merge that shows the
\* controller absent.
NoLoginAfterRegistration ==
  Flag(status_register, "controller_present") => last_frame.query # LOGIN

\* Every Update and GetStatus call returns.
CallsReturn == \A t \in Callers : pc[t] # "idle" ~> pc[t] = "idle"
=============================================================================

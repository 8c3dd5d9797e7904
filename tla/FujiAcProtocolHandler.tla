------------------------ MODULE FujiAcProtocolHandler ------------------------
(***************************************************************************)
(* FujiAcProtocolHandler (src/protocol/fuji_ac_protocol_handler.cc): for   *)
(* each master frame, update the local state and return at most one       *)
(* controller frame.  Handle(h, mf) is the whole of HandleMasterFrame as a *)
(* function of the handler's state h = [ac_state, login_read, error_read]; *)
(* it returns [h |-> next handler state, reply |-> frame or NoFrame].      *)
(***************************************************************************)
EXTENDS FujiAcState

VARIABLES ac_state, login_read, error_read

handlerVars == <<ac_state, login_read, error_read>>

HandlerState == [ac_state |-> ac_state, login_read |-> login_read,
                 error_read |-> error_read]

\* error_read_ = false, login_read_ = true; the state starts at defaults.
HandlerInit ==
  /\ ac_state = AcStateInit
  /\ login_read = TRUE
  /\ error_read = FALSE

\* The payload built by SendStatusFrame and SendLoggedInFrame: zeroed,
\* byte 3 set to the sensor magic 47, then the local state written in.
StatusPayload(s) == BuildStatusRegisterResponse(s, <<0, 0, 0, 47, 0>>)

SendLoginFrame == [DefaultControllerFrame EXCEPT !.query = LOGIN]

SendErrorQueryFrame == [DefaultControllerFrame EXCEPT !.query = ERROR]

SendLoggedInFrame(s) ==
  [DefaultControllerFrame EXCEPT !.login = TRUE, !.payload = StatusPayload(s),
                                 !.query = STATUS]

\* SendStatusFrame: the frame carries the write bit when the state is not
\* merged; the state after it drops a swing-step pulse and stays unmerged,
\* or else becomes merged.
SendStatusFrame(s) ==
  [DefaultControllerFrame EXCEPT !.payload = StatusPayload(s),
                                 !.query = STATUS, !.write = ~s.merged]

AfterStatusFrame(s) ==
  IF s.merged THEN s
  ELSE IF s.swing_step
         THEN SetMerged(Set(s, "swing_step", FALSE), FALSE)
         ELSE SetMerged(s, TRUE)

\* Mutant: login_read_ armed from the state before the merge.
UpdateFromMasterStatusRegisterStale(h, p) ==
  [ac_state   |-> MergeFromMasterStatusRegister(h.ac_state, p),
   error_read |-> h.error_read \/ h.ac_state.error_flag # Flag(p, "error"),
   login_read |-> h.login_read \/ ~h.ac_state.controller_present]

\* UpdateFromMasterStatusRegister: arm error_read_ when the error bit
\* differs from the local flag, merge, arm login_read_ when the merged
\* state says the controller is not present.
UpdateFromMasterStatusRegister(h, p) ==
  LET s == MergeFromMasterStatusRegister(h.ac_state, p)
  IN  [ac_state   |-> s,
       error_read |-> h.error_read \/ h.ac_state.error_flag # Flag(p, "error"),
       login_read |-> h.login_read \/ ~s.controller_present]

\* Mutant: the LOGIN branch does not clear login_read_.
ResolvePendingNoLoginClear(h) ==
  CASE h.login_read -> [h |-> h, reply |-> SendLoginFrame]
    [] h.error_read ->
         [h |-> [h EXCEPT !.error_read = FALSE], reply |-> SendErrorQueryFrame]
    [] OTHER ->
         [h |-> [h EXCEPT !.ac_state = AfterStatusFrame(h.ac_state)],
          reply |-> SendStatusFrame(h.ac_state)]

\* The tail of HandleMasterFrame after the STATUS case: LOGIN query, else
\* ERROR query, else a status frame.
ResolvePending(h) ==
  CASE h.login_read ->
         [h |-> [h EXCEPT !.login_read = FALSE], reply |-> SendLoginFrame]
    [] h.error_read ->
         [h |-> [h EXCEPT !.error_read = FALSE], reply |-> SendErrorQueryFrame]
    [] OTHER ->
         [h |-> [h EXCEPT !.ac_state = AfterStatusFrame(h.ac_state)],
          reply |-> SendStatusFrame(h.ac_state)]

Handle(h, mf) ==
  CASE mf.dest # WIRED_CONTROLLER_ADDR -> [h |-> h, reply |-> NoFrame]
    [] mf.type = STATUS ->
         ResolvePending(IF h.ac_state.merged
                          THEN UpdateFromMasterStatusRegister(h, mf.payload)
                          ELSE h)
    [] mf.type = LOGIN -> [h |-> h, reply |-> SendLoggedInFrame(h.ac_state)]
    [] OTHER -> [h |-> h, reply |-> NoFrame]

\* The handler's state change for master frame mf.
HandleMasterFrame(mf) ==
  \E r \in {Handle(HandlerState, mf)} :
      /\ ac_state' = r.h.ac_state
      /\ login_read' = r.h.login_read
      /\ error_read' = r.h.error_read
=============================================================================

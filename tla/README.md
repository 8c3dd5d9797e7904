# TLA+ models of fuji-iot

This directory has TLA+ models of the protocol and state layer of fuji-iot
(`src/protocol`, `src/controller`, `src/sim`), TLC configurations that check
them, and `PROJECT.json`. That file lists the components, runs, mutants, the
source lines each definition translates, the findings and the hazards.

## The system

A wired remote controller talks to the air conditioner's main unit (the
"master") over an 8-byte half-duplex serial protocol. The master polls, and the
controller answers each frame addressed to it with at most one frame.

- **Register view** (`FujiStatusRegister`, `fuji_register.cc`) reads and writes
  packed bit fields of a 5-byte payload: mode, fan, enabled, error, economy,
  temperature, update magic, swing, swing step and controller present.
- **Frames** (`fuji_frame.cc`) come in two kinds. A master frame is
  destination, register type and payload. A controller frame is a login bit,
  a write bit, a query register and a payload.
- **Local state** (`FujiAcState`) holds the unit's fields and one `merged` bit.
  Every setter clears the bit and the merge from a master STATUS register sets it.
- **Protocol handler** (`FujiAcProtocolHandler::HandleMasterFrame`) does one of
  the following for each master frame:
  - A STATUS frame is merged into local state, but only if that state is merged.
  - A pending LOGIN query, then a pending ERROR query, is answered with a query
    frame. Otherwise it sends a status frame, which carries the write bit when a
    local change is pending and marks the state merged once built.
  - A LOGIN frame is answered with a LoggedIn frame.
  - ERROR, UNKNOWN and foreign frames get no reply.
- **Controller** (`FujiAcController`) runs a loop thread and serves callers:
  - The loop thread reads a master frame outside the mutex `mu_`. Under `mu_`
    it handles the frame, writes the reply and sets `ready_` when the reply
    equals the previous one.
  - `Update` applies a request to the local state, clears `ready_`, and waits
    in `mu_.Await(ready_)`.
  - `GetStatus` waits for `ready_` and reads the state.
- **Serial reader** (`FujiAcSerialReader`) does the following:
  - It writes each controller frame as 8 bytes with every byte complemented.
  - It reads up to 8 bytes at a time, and drops a read of fewer than 8.
  - The tty is set up with `VMIN = 0` and `VTIME = 3`.
  - The wire is one half-duplex line, so the controller reads back its own
    frames.
- **Command-line client** (`fuji_ac_controller_client`) turns its `--mode`,
  `--fan` and `--setpoint` flags into one Update RPC. The server forwards
  `GetStatus` to the controller. Its `Update` handler calls the controller's
  `Update` and then its `GetStatus`, and answers with that state.
- **Simulator** (`FujiAcUnitSim`) is the main unit behind the serial interface
  in `--sim` mode and in the integration tests. It answers each poll with the
  register last asked for, applies write frames, and has IR-remote setters.

## Modules

| Module | Models | State and actions |
|---|---|---|
| `FujiRegister` | `fuji_register.cc`, `fuji_types.h` | Operators only. `Layout` holds the index, offset and width constants. `SetBits` and `SetField` are the setters: `(b & ~mask) \| (v << off)` stored in a `uint8_t`, with the value not masked. `GetField`, `Mode` and `Fan` are the getters, with codes outside the enums decoded to UNKNOWN. |
| `FujiStatusRegister` | the register as an object | Variable `bytes`; action `Setter(f, v)` for every setter. History variable `written`. |
| `FujiFrame` | `fuji_frame.h/.cc` | Frames are records with decoded headers, and frame `==` is record equality. `NoFrame` is `absl::nullopt`. |
| `FujiAcState` | `fuji_ac_state.h/.cc` | A record and its operators: `Set`, `SetMerged`, `BuildStatusRegisterResponse` and `MergeFromMasterStatusRegister`. |
| `FujiAcProtocolHandler` | `fuji_ac_protocol_handler.cc` | Variables `ac_state`, `login_read` and `error_read`. `Handle(h, mf)` is all of `HandleMasterFrame` as a function returning the next handler state and the reply. |
| `FujiAcUnitSim` | `fuji_ac_unit_sim.cc` | Variables `status_register` and `next_query_register`. Operators `GetNextMasterFrame`, `NextMasterFrame`, `PushControllerFrame` and `RemoteSet`. |
| `FujiAcController` | `fuji_ac_controller.cc` composed with the two above | See the tables below. |
| `FujiFrameBytes` | `fuji_frame.cc` | Operators on 8-byte sequences: the header getters (`Destination`, `RegisterOf`, `Bit`, `Payload`), the constructor's `DefaultControllerBytes`, and `MasterView`/`ControllerView`, which turn bytes into the records of `FujiFrame`. |
| `FujiFrameFields` | `fuji_frame.h` | Abstract frames. Variables `mf` and `cf` are records; each setter changes one field. |
| `FujiFrameCodec` | `fuji_frame.cc` | Variables `mdata` and `cdata`, the two `data_` arrays. There is one action per `With...` setter, written as the code's mask and OR. |
| `FujiSerialLink` | `fuji_ac_serial_reader.cc` | Variables `line` (complemented bytes waiting in the tty), `got` (the last `ReadMasterFrame` result), and history `sent`/`echoes`. Actions `MasterTransmit`, `WriteControllerFrame`, `ReadMasterFrame(k)`. |
| `FujiAcWire` | `FujiAcController` on `fuji_ac_serial_reader.cc` | The composition. `Link` is an `INSTANCE` of `FujiSerialLink` on the variables `line`, `got`, `sent` and `echoes`. `UnitPoll` puts the bytes of the simulator's `GetNextMasterFrame` frame on the line (`MasterBytes`). `WireRead` is `DoLoop`'s `ReadMasterFrame` from the line. `WireHandle` is `LoopHandle`, with the reply also written to the line (`ControllerBytes`), where the controller's reader meets it again. |
| `FujiAcClient` | `fuji_ac_controller_client.cc` | Operator `ClientRequest(mode, fan, setpoint)`: the request `RunClient` builds. `MCRequests` are built with it. |

`FujiAcController` has these variables:

| Variable | What it models |
|---|---|
| `loop_pc`, `rx` | the loop thread's position and the frame it has read |
| `last_frame`, `ready`, `shutdown` | `last_frame_`, `ready_`, `shutdown_` |
| `pc`, `req`, `calls` | per caller: position, current request and calls made |
| `remote_count` | unit-side changes made so far |
| `delivered`, `interfered` | history variables for the properties |

It has these actions:

| Action | What it models |
|---|---|
| `LoopRead` | `ReadMasterFrame` outside the lock, which may fail on a lossy link |
| `LoopHandle` | the critical section of `DoLoop` |
| `LoopExit` | the loop thread returning once it sees `shutdown_` |
| `Update` / `UpdateReturn` | `Update` split at its `Await`; a caller in `ServerCallers` (the service's `Update` handler) goes on to `pc = "rpc"`, the `GetStatus` it calls for its response |
| `GetStatus` / `GetStatusReturn` | `GetStatus` split at its `Await`; `ToProto` is the `proto::ACUnitState` it builds (MODE_OFF when disabled, unset for a code its switches lack) |
| `Shutdown` | `FujiAcController::Shutdown`, while all callers are idle or, with `ShutdownAnytime`, at any time |
| `RemoteChange` | an IR-remote change on the simulator |
| `ErrorChange` | the unit toggling its error bit, which the simulator never does and a real unit does |

Every critical section under `mu_` is one action. `Await` releases `mu_`, so
each call is split at it.

## Runs

| Run | cfg | Expect | What it shows |
|---|---|---|---|
| controller | `MCFujiAcController.cfg` | pass | On a reliable link, with no error-bit changes and no early `Shutdown` (those cases are the lost_write, error_hang and shutdown_hang runs): `ready_` only when merged (`ReadyOnlyWhenMerged`), an Update nobody overrides holds locally and on the unit when it returns (`UpdateTakesEffect`), the service's Update response shows the request unless another Update or a unit-side change overrode it (`UpdateResponseShowsRequest`), and every call returns (`CallsReturn`). |
| faults | `MCFaults.cfg` | pass | With lost frames and error-bit changes, no LOGIN query after the unit registered the controller (`NoLoginAfterRegistration`). |
| lost_write | `MCLostWrite.cfg` | violation | A lost LoggedIn or write frame lets `Update` return OK without its change reaching the unit. |
| error_hang | `MCErrorHang.cfg` | violation | After the unit's error bit changes, the ERROR frame gets no reply and all callers hang. |
| first_sync | `MCFirstSync.cfg` | violation | An `Update` before the first merge pushes `FujiAcState` defaults (fan AUTO, 20 degrees) to the unit. |
| register | `MCFujiStatusRegister.cfg` | pass | With in-range values, each setter changes only its own bits (`FieldsIndependent`). |
| wide_setpoint | `MCWideSetpoint.cfg` | violation | `SetTemperature(200)` sets the economy bit. |
| shutdown_hang | `MCShutdownHang.cfg` | violation | `Shutdown` while a caller is blocked in `Await`: the loop exits and the caller never returns (`CallsReturn`). |
| frame_codec | `MCFujiFrameCodec.cfg` | pass | Refinement: through the getters, the byte-level setters implement `FujiFrameFields` (`FramesImplementFields == FrameFields!Spec`, where `FrameFields` is `INSTANCE FujiFrameFields WITH mf <- MasterView(mdata), cf <- ControllerView(cdata)`). |
| serial_link | `MCFujiSerialLink.cfg` | pass | With whole-frame reads, every frame read is a frame sent (`ReadFramesWereSent`). The controller's own frames, read back from the wire, are never addressed to it (`EchoNotForController`). |
| wire | `MCWire.cfg` (`MCFujiAcWire`) | pass | The controller on the serial wire with whole-frame reads. It reads back its own frames, and the run includes error-bit changes, an IR-remote change and `Shutdown` at any time. The controller writes to the unit only values a caller or the remote chose, or its own `FujiAcState` defaults (`UnitHoldsKnownValues`). |
| split_read | `MCSplitRead.cfg` (`MCFujiAcWire`) | violation | A read that returns part of a frame desynchronises the reader. A later read decodes the tail of one STATUS frame and the head of the next as a STATUS frame for the controller. `HandleMasterFrame` merges it (mode UNKNOWN, temperature 0), and the next Update writes mode UNKNOWN to the unit (`UnitHoldsKnownValues`). |

The seven violations are recorded as findings in `PROJECT.json`. Each property
of a passing run has a mutant there: a plausible bug in the code that TLC then
finds. The mutants are:
- a setter that does not clear the field first;
- an `Update` that leaves `ready_` set;
- a STATUS merge without the `merged` guard;
- a LOGIN branch that does not clear `login_read_`;
- `login_read_` armed from the state before the merge;
- `WithDestination` assigning the whole byte and dropping the unknown bit;
- the reader's complement loop stopping one byte short;
- the default controller frame with byte 1 `0x80` instead of `0x81`. The
  echo of a login frame is then addressed to the controller.

## Bounds

- **controller run** (about 145,000 states):
  - Two callers, so that one Update can override another. `c1` is the
    service's Update handler, `c2` a direct caller, as in the tests.
  - Two calls each, so that an Update can follow a GetStatus.
  - Three requests, as the tests and the command-line client send them: a
    mode change, OFF, and a fan change with setpoint 24.
  - One IR-remote change (enabled or mode), enough to race a pending Update.
- **faults run:** one caller, with frame loss and error-bit changes both on,
  and `Shutdown` allowed while a call is blocked (about 97,000 states). The
  caller is the service's Update handler.
- **frame_codec run** (about 5,000 states):
  - Master frames: the simulator's three register arrays and the test's
    UNKNOWN frame.
  - Every destination, type and bit value.
  - Three payloads.
- **wire run** (about 1,475,000 states): one caller, the service's Update
  handler, with two calls of the fan-and-setpoint request; one IR-remote
  mode change; error-bit changes; whole-frame reads; up to 24 bytes on the
  line.
- **split_read run:** the wire composition with one caller making one
  Update (fan LOW, setpoint 24), no remote changes, and up to 24 bytes on the
  line. The unit leaves room for the controller's 8-byte answer before it
  polls again.
- **serial_link run:**
  - Master frames: the simulator's STATUS and LOGIN frames, as
    `GetNextMasterFrame` builds them.
  - Controller frames: a LOGIN query and a status write.
  - Whole-frame reads (`SplitReads = FALSE`), so no read straddles two
    frames here; the split_read run is where one does.
  - Up to 24 bytes waiting, so that several unit frames and echoes queue
    up behind one another.
- **register run:** three starting payloads (zeroed with the sensor byte, the
  simulator's initial STATUS payload, all ones) and two or three values per
  field, including UNKNOWN codes and the largest in-range temperature, 127.

FAN-mode requests are left out of `MCRequests`. In FAN mode the simulator
replaces the temperature with 18, which would count as a unit-side change
there.

## Fairness

- The loop thread gets weak fairness on each of its steps, because the master
  polls forever and `DoLoop` never blocks on anything but the serial read.
- The fairness of `LoopHandle` is written as
  `[]<>(loop_pc # "handle") \/ []<><<LoopHandle>>_vars`. This is WF, because
  `Handle` is total and every `LoopHandle` step changes `loop_pc`.
- A caller blocked in `Await` gets weak fairness on its return. `absl::Mutex`
  wakes a waiter whose condition holds.
- `Shutdown` is not fair either. It is taken at most once; after it the
  loop exits, so with `ShutdownAnytime` a blocked caller is a real hang, not
  a fairness gap.
- The serial link, the codec and the wire composition are checked for safety only.
- Frame loss, remote changes and new calls are not fair. They may stop at any
  time.

## Not modelled

- Parts of the serial reader and the server are I/O and are not modelled:
  - the tty setup in `FujiAcSerialReader::Build`, apart from `VMIN`/`VTIME`,
    which decide `ReadSizes`;
  - `write` and `read` failures, which are fatal;
  - the gRPC marshalling and server setup. The service's concurrent RPC
    threads are the `Callers`; its `Update` handler is a caller in
    `ServerCallers`. The violation runs keep `ServerCallers = {}`, so their
    traces are the controller's alone.
- In `FujiAcController`, a lost frame is the `LossyLink` choice. The link
  model shows where such a loss comes from: a short read.
  - The controller model does not read back its own frames. `serial_link`
    shows that `HandleMasterFrame` drops those frames without a reply.
- spec.md says the default controller frame has every field but the address
  zero. The code puts `0x81` in byte 1, and `EchoNotForController` shows that
  this value is what keeps the controller's own echoed frames from being
  addressed to it.
- The swing-step pulse (`fuji_ac_protocol_handler.cc:113`) is not reachable.
  `FujiAcController::Update` cannot set swing or swing step, because
  `proto::ACUnitState` has no such field. Only a direct `FujiAcState` caller
  could reach it, and none exists in `src/`.
- No abstract specification of the controller facade is checked. An `Update`
  in which the unit takes the request at one atomic point would not hold:
  - on a lossy link (lost_write);
  - before the first sync (first_sync);
  - when two Updates share one write frame, which then carries both.
- The unit behind the wire in `FujiAcWire` is the simulator. The repository
  has no other model of the real main unit, and in `--sim` mode the server
  hands the simulator's frames over directly, without a wire. The unit's
  timing is free: it may poll again before the controller has answered, as
  long as the line has room for the answer.
- `ToString`, `DebugInfo` and the `operator<<` overloads are formatting.
- The tests are not modelled.
  - In the integration fixture, every write frame is pushed to the simulator
    while the single test thread is blocked in `Update`. The IR setters run
    before or after that call on the same thread, so the push and a setter
    never overlap.
  - What remains is that `WriteControllerFrame` reaches `sim_` without the
    fixture's `mu_`, although `sim_` is `ABSL_GUARDED_BY(&mu_)`
    (`integration_test.cc:68-69`, `145`). That is an annotation slip with no
    reachable effect.
  - The register and frame unit tests are single-step assertions on the
    setters and getters. `FieldsIndependent` and `FramesImplementFields`
    check the same code over every bounded input.
- No run checks a type invariant. Every byte the models produce stays in
  0..255 by construction (the code's `uint8_t` stores), so no mutant of the
  code can break one. The `TypeOK` definitions are kept as documentation of
  the variables' types.

## Plan for later work

1. Check a larger controller instance: three callers, or a second remote
   change.

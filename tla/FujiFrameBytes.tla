---------------------------- MODULE FujiFrameBytes ----------------------------
(***************************************************************************)
(* The byte layout of the two frame classes of src/protocol/fuji_frame.cc *)
(* as operators on 8-byte sequences: byte i of data_ is element i+1.  The  *)
(* getters decode header bits; the views turn a byte array into the frame  *)
(* records of FujiFrame.                                                   *)
(***************************************************************************)
EXTENDS FujiFrame, Sequences

Bit(b, k) == (b \div 2^k) % 2 = 1

\* FujiMasterFrame::Destination: the low 7 bits of byte 1.
Destination(d) ==
  CASE d[2] % 128 = WIRED_CONTROLLER_ADDR -> WIRED_CONTROLLER_ADDR
    [] d[2] % 128 = OTHER_ADDR            -> OTHER_ADDR
    [] OTHER                              -> UNKNOWN_ADDR

\* Mutant: the type read one bit too low (data_[2] >> 3 & 0b11).
RegisterOfShift3(d) == (d[3] \div 8) % 4

\* FujiMasterFrame::Type: bits 4-5 of byte 2 (the value 3 is UNKNOWN).
RegisterOf(d) == (d[3] \div 16) % 4

\* FujiControllerFrame::QueryRegister: the same bits, through its own
\* switch, whose cases 0..2 and default give the same codes.
QueryRegister(d) == (d[3] \div 16) % 4

Payload(d) == SubSeq(d, 4, 8)

\* The two frames as the records of FujiFrame.
MasterView(d) ==
  [dest |-> Destination(d), type |-> RegisterOf(d), unknown |-> Bit(d[2], 7),
   payload |-> Payload(d)]

ControllerView(d) ==
  [login |-> Bit(d[2], 5), write |-> Bit(d[3], 3), query |-> QueryRegister(d),
   payload |-> Payload(d)]

\* Mutant: byte 1 of the default frame 0x80 instead of 0x81.
DefaultControllerBytes128 == <<WIRED_CONTROLLER_ADDR, 128, 0, 0, 0, 0, 0, 0>>

\* FujiControllerFrame(): {0, 129, 0, ...} with data_[0] set to the address.
DefaultControllerBytes == <<WIRED_CONTROLLER_ADDR, 129, 0, 0, 0, 0, 0, 0>>
=============================================================================

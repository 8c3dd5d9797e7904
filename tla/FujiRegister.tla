---------------------------- MODULE FujiRegister ----------------------------
(***************************************************************************)
(* The STATUS register: a 5-byte payload with packed bit fields            *)
(* (src/protocol/fuji_register.cc) and the codes of mode_t and fan_t       *)
(* (src/protocol/fuji_types.h).  A payload is a tuple of five bytes; byte  *)
(* i of the C++ array is element i+1 of the tuple.                         *)
(***************************************************************************)
EXTENDS Naturals, Bitwise

\* mode_t (fuji_types.h)
MODE_UNKNOWN == 0
MODE_FAN     == 1
MODE_DRY     == 2
MODE_COOL    == 3
MODE_HEAT    == 4
MODE_AUTO    == 5

\* fan_t (fuji_types.h)
FAN_AUTO    == 0
FAN_LOW     == 1
FAN_MEDIUM  == 2
FAN_HIGH    == 3
FAN_MAX     == 4
FAN_UNKNOWN == 5

Byte == 0..255

\* The k<Field>Index / k<Field>Mask / k<Field>Offset constants, one record
\* per field; index is the C++ (0-based) byte index and every mask is a
\* run of width bits starting at offset.
Layout ==
  [mode               |-> [index |-> 0, offset |-> 1, width |-> 3],
   fan                |-> [index |-> 0, offset |-> 4, width |-> 3],
   enabled            |-> [index |-> 0, offset |-> 0, width |-> 1],
   error              |-> [index |-> 0, offset |-> 7, width |-> 1],
   economy            |-> [index |-> 1, offset |-> 7, width |-> 1],
   temperature        |-> [index |-> 1, offset |-> 0, width |-> 7],
   update_magic       |-> [index |-> 2, offset |-> 4, width |-> 4],
   swing              |-> [index |-> 2, offset |-> 2, width |-> 1],
   swing_step         |-> [index |-> 2, offset |-> 1, width |-> 1],
   controller_present |-> [index |-> 3, offset |-> 0, width |-> 1]]

Fields == DOMAIN Layout

B2N(b) == IF b THEN 1 ELSE 0

\* Mutant: the setter ORs the value in without clearing the field first.
SetBitsNoClear(b, offset, width, v) == b + v * 2^offset

\* Every setter: bytes_[i] = (bytes_[i] & ~mask) | (v << offset), stored
\* into a uint8_t.  The value is not masked: a value wider than the field
\* is OR-ed into the bits above it.  Below, hi and lo are the bits of the
\* byte above and below the field.
SetBits(b, offset, width, v) ==
  LET hi == (b \div 2^(offset + width)) * 2^(offset + width)
      lo == b % 2^offset
      sv == v * 2^offset
  IN  IF v < 2^width THEN hi + sv + lo ELSE ((hi | sv) + lo) % 256

SetField(p, f, v) ==
  LET L == Layout[f]
  IN  [p EXCEPT ![L.index + 1] = SetBits(@, L.offset, L.width, v)]

\* Every getter: (bytes_[i] & mask) >> offset.
GetField(p, f) ==
  LET L == Layout[f]
  IN  (p[L.index + 1] \div 2^L.offset) % 2^L.width

\* FujiStatusRegister::Mode: codes 6 and 7 decode to UNKNOWN.
Mode(p) ==
  LET c == GetField(p, "mode")
  IN  IF c \in {MODE_FAN, MODE_DRY, MODE_COOL, MODE_HEAT, MODE_AUTO}
        THEN c ELSE MODE_UNKNOWN

\* FujiStatusRegister::Fan: codes 5..7 decode to UNKNOWN.
Fan(p) ==
  LET c == GetField(p, "fan")
  IN  IF c \in {FAN_AUTO, FAN_LOW, FAN_MEDIUM, FAN_HIGH, FAN_MAX}
        THEN c ELSE FAN_UNKNOWN

\* The one-bit getters return bool.
Flag(p, f) == GetField(p, f) = 1

SetFlag(p, f, b) == SetField(p, f, B2N(b))
=============================================================================

------------------------- MODULE FujiStatusRegister -------------------------
(***************************************************************************)
(* FujiStatusRegister (src/protocol/fuji_register.cc) as an object: a view *)
(* over a 5-byte payload whose setters each rewrite one bit field.  The    *)
(* history variable written records the value last given to each field.   *)
(***************************************************************************)
EXTENDS FujiRegister

CONSTANTS
  InitPayloads,   \* payloads the register may start on
  FieldValues     \* field -> the values its setter is called with

ASSUME \A f \in DOMAIN FieldValues : f \in Fields /\ FieldValues[f] \subseteq Byte

VARIABLES bytes, written

vars == <<bytes, written>>

Init ==
  /\ bytes \in InitPayloads
  /\ written = [f \in Fields |-> GetField(bytes, f)]

\* SetMode, SetEnabled, SetFan, SetError, SetEconomy, SetTemperature,
\* SetSwing, SetSwingStep, SetControllerPresent, SetUpdateMagic: every one
\* is bytes_[k<F>Index] = (bytes_[k<F>Index] & ~k<F>Mask) | (v << k<F>Offset).
Setter(f, v) ==
  /\ bytes' = SetField(bytes, f, v)
  /\ written' = [written EXCEPT ![f] = v]

Next == \E f \in DOMAIN FieldValues : \E v \in FieldValues[f] : Setter(f, v)

Spec == Init /\ [][Next]_vars

\* Type invariant: every setter leaves the five payload bytes in 0..255
\* (the uint8_t store).
TypeOK ==
  /\ bytes \in [1..5 -> Byte]
  /\ written \in [Fields -> Byte]

\* The register's fields are independent: after any sequence of setter
\* calls, every getter returns the value its own setter was given last, so
\* no setter touches another field's bits.
FieldsIndependent == \A f \in Fields : GetField(bytes, f) = written[f]
=============================================================================

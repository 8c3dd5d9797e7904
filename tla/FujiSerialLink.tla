---------------------------- MODULE FujiSerialLink ----------------------------
(***************************************************************************)
(* The serial line under FujiAcSerialReader (src/controller/              *)
(* fuji_ac_serial_reader.cc).  Every byte on the wire is the complement    *)
(* of the frame byte.  The master and the controller share one half-duplex *)
(* wire, so the controller's own frames come back to its reader.           *)
(*                                                                         *)
(* ReadMasterFrame is one read(fd_, data, 8).  The tty is set up with      *)
(* VMIN = 0 and VTIME = 3.  Such a read returns as soon as any byte is     *)
(* there, or after 0.3 s with none.  A read of fewer than 8 bytes is       *)
(* dropped with its bytes.  Nothing looks for the start of the next frame. *)
(***************************************************************************)
EXTENDS FujiFrameBytes

CONSTANTS
  MasterFrames,      \* byte arrays the main unit transmits
  ControllerFrames,  \* byte arrays the controller writes
  SplitReads,        \* TRUE: a read may return part of what has arrived
  MaxLine            \* bound on the bytes waiting on the line

ASSUME MaxLine >= 8

VARIABLES
  line,      \* bytes received by the tty and not yet read, as on the wire
  got,       \* what the last ReadMasterFrame returned
  sent,      \* history: every frame put on the line, before obfuscation
  echoes     \* history: the frames of those that the controller wrote

vars == <<line, got, sent, echoes>>

\* ReadMasterFrame's absl::optional<FujiMasterFrame>() result.
NoRead == <<>>

\* WriteControllerFrame: data[i] ^= 0xFF for i in 0..7 (255 - b on a byte).
Obfuscate(d) == [i \in 1..8 |-> 255 - d[i]]

\* Mutant: the reader's loop stops one byte short.
DeobfuscateShort(d) == [i \in 1..8 |-> IF i < 8 THEN 255 - d[i] ELSE d[i]]

\* ReadMasterFrame: the same complement, undone after a full read.
Deobfuscate(d) == [i \in 1..8 |-> 255 - d[i]]

Init ==
  /\ line = <<>>
  /\ got = NoRead
  /\ sent = {}
  /\ echoes = {}

\* The main unit puts a frame on the wire.
MasterTransmit(f) ==
  /\ Len(line) + 8 <= MaxLine
  /\ line' = line \o Obfuscate(f)
  /\ sent' = sent \cup {f}
  /\ UNCHANGED <<got, echoes>>

\* WriteControllerFrame: write(fd_, data, 8) of the complemented frame.  On
\* the shared wire the tty receives the same eight bytes.
WriteControllerFrame(f) ==
  /\ Len(line) + 8 <= MaxLine
  /\ line' = line \o Obfuscate(f)
  /\ sent' = sent \cup {f}
  /\ echoes' = echoes \cup {f}
  /\ UNCHANGED got

\* The byte counts one read may return.  With SplitReads FALSE every read
\* finds whole frames waiting, as when the loop polls slowly enough.
ReadSizes ==
  LET avail == IF Len(line) < 8 THEN Len(line) ELSE 8
  IN  IF SplitReads THEN 0..avail ELSE {avail}

\* ReadMasterFrame: read up to 8 bytes; fewer than 8 are skipped and
\* nullopt returned; 8 are complemented back into a FujiMasterFrame.
ReadMasterFrame(k) ==
  /\ line' = SubSeq(line, k + 1, Len(line))
  /\ got' = IF k < 8 THEN NoRead ELSE Deobfuscate(SubSeq(line, 1, 8))
  /\ UNCHANGED <<sent, echoes>>

Next ==
  \/ \E f \in MasterFrames : MasterTransmit(f)
  \/ \E f \in ControllerFrames : WriteControllerFrame(f)
  \/ \E k \in ReadSizes : ReadMasterFrame(k)

Spec == Init /\ [][Next]_vars

\* Every frame ReadMasterFrame returns is, byte for byte, a frame the unit
\* or the controller put on the line: the complement is undone on all
\* eight bytes, and reads stay aligned on frame boundaries.
ReadFramesWereSent ==
  got # NoRead => got \in sent

\* The controller's own frame, read back from the wire, is not addressed to
\* the wired controller, so HandleMasterFrame drops it without a reply.
\* Whatever login, write, query and payload a frame carries, this rests on
\* the 129 that FujiControllerFrame() puts in byte 1.
EchoNotForController ==
  got \in echoes => Destination(got) # WIRED_CONTROLLER_ADDR

=============================================================================

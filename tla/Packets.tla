------------------------------ MODULE Packets ------------------------------
(***************************************************************************)
(* The vocabulary shared by the client and the car: the drive modes of     *)
(* common.hpp and the two-byte packets of BLERCCar_packets.hpp, with the   *)
(* way both ends turn a packet into an attribute value and back.           *)
(*                                                                         *)
(* Both ends hand over the payload as a bare char pointer where a string   *)
(* is expected, so what travels is the C string that starts at raw[0]: it  *)
(* ends at the first zero byte, and raw has no terminator of its own.      *)
(***************************************************************************)
EXTENDS Integers, Sequences

\* enum DriveMode; the numbers are the bytes that travel.
Forward           == 1
ForwardCollision  == 2
Backward          == 3
BackwardCollision == 4
Stop              == 5
DisconnectionStop == 6
Unsupported       == 7
InitialConenction == 8

DriveModes == 1 .. 8

Bytes == 0 .. 255

\* BLEDrivePacket::GetDriveMode: the enumerators its switch does not list
\* read as Unsupported.
GetDriveMode(command) ==
  IF command \in {Forward, ForwardCollision, Backward, BackwardCollision, Stop}
  THEN command
  ELSE Unsupported

-----------------------------------------------------------------------------
\* The C string at the start of a memory area: the bytes before its first 0.
CString(memory) ==
  LET ends == {i \in 1 .. Len(memory) : memory[i] = 0}
  IN  IF ends = {}
      THEN memory
      ELSE SubSeq(memory, 1, (CHOOSE i \in ends : \A j \in ends : i <= j) - 1)

\* The attribute value written for a packet. tail is what happens to follow
\* raw[2] in memory: any bytes, of which the string runs to the first 0.
Payload(command, amount, tail) ==
  CString(<<command, amount>> \o tail \o <<0>>)

\* Mutant of ByteAt: the value is not terminated and runs into other bytes.
ByteAt_Unterminated(value, i) == IF i <= Len(value) THEN value[i] ELSE 255

\* Reading byte i of a received value through its data pointer: the string
\* is terminated, so the byte after the last one reads as 0.
ByteAt(value, i) == IF i <= Len(value) THEN value[i] ELSE 0

\* BLERCCarPacket(payload[0], payload[1]) on the receiving side.
Received(value) == [command |-> ByteAt(value, 1), amount |-> ByteAt(value, 2)]
=============================================================================

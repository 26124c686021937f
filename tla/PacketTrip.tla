----------------------------- MODULE PacketTrip -----------------------------
(***************************************************************************)
(* A packet on its way between the client and the car, and what the car    *)
(* does about it: a method of the client writes the payload to one of two  *)
(* characteristics, onWrite makes a packet of what it finds there and      *)
(* calls the car; NotifyNewDriveMode sends one the other way.  Payloads    *)
(* pass through the D-Bus of the client's computer, as the constants       *)
(* Encode and Decode say (Wire gives them).                                *)
(***************************************************************************)
EXTENDS Car, BluezCalls

CONSTANTS
  bt,        \* the task of the BLE library, the only one that calls the car here
  Commands,  \* what may be the first byte on each characteristic
  Tails,     \* what may follow raw[2] on the stack of the sender
  Encode(_, _),  \* what _append_argument puts on the wire for a holder, as a signature
  Decode(_)      \* what _extract_generic makes of a value on the wire

Characteristics == {"drive", "steer", "report"}

ASSUME PacketAssumption ==
  /\ Tasks = {bt}
  /\ Commands \in [Characteristics -> SUBSET (Bytes \ {0})]
  /\ Tails \subseteq Seq(Bytes)

\* The bytes at the other end of WriteValue, or of a changed Value.
ThroughDBus(bytes) ==
  LET argument == WriteValue(bytes, "command")[1]
  IN  UpdateValue(Decode(Encode(argument[1], argument[2])))

\* The wire gives back the bytes of every value that is sent.
Values ==
  {Payload(command, amount, tail) :
     command \in UNION {Commands[c] : c \in Characteristics}, amount \in Amounts, tail \in Tails}
ASSUME WireAssumption == \A bytes \in Values : ThroughDBus(bytes) = bytes

VARIABLES
  packet,     \* the packet the sender made
  attribute,  \* the value of the characteristic
  speed       \* the amount onWrite passes on once SetDriveMode has returned

vars == <<carVars, packet, attribute, speed>>
carState == <<m_Mode, drive, steer, driveDuty, steerDuty>>

NoPacket == [at |-> "none", command |-> 0, amount |-> 0]
PacketSet == [at : Characteristics, command : Bytes, amount : Amounts]
NoSpeed == 256

Init ==
  /\ CarInit
  /\ packet = NoPacket /\ attribute = <<>> /\ speed = NoSpeed

BtFree == Ready(bt) /\ speed = NoSpeed

\* SetSpeed, SetDriveMode, TurnLeft, TurnRight, NotifyNewDriveMode.  The next
\* packet is sent when the car is done with this one: CarServer has the queue.
Send ==
  /\ packet = NoPacket /\ BtFree
  /\ packet' \in {p \in PacketSet : p.command \in Commands[p.at]}
  /\ \E tail \in Tails :
       attribute' = ThroughDBus(Payload(packet'.command, packet'.amount, tail))
  /\ UNCHANGED <<carVars, speed>>

\* The packet the receiver constructs from the characteristic.
Read == Received(attribute)

Receives(characteristic) ==
  /\ packet.at = characteristic
  /\ packet' = NoPacket
  /\ UNCHANGED attribute

\* onWrite on CHARACTERISTIC_UUID_SET_DRIVE_MODES; SetSpeed comes after.
ReceiveDrive ==
  /\ Receives("drive")
  /\ LET mode == GetDriveMode(Read.command)
     IN  /\ SetDriveMode(bt, mode)
         /\ speed' = IF mode = Unsupported THEN NoSpeed ELSE Read.amount
  /\ UNCHANGED carState

\* Mutant of ReceiveDriveSpeed: the speed is set while SetDriveMode is under way.
ReceiveDriveSpeed_AtOnce ==
  /\ speed # NoSpeed
  /\ SetSpeed(bt, speed)
  /\ speed' = NoSpeed
  /\ UNCHANGED <<carState, packet, attribute>>

ReceiveDriveSpeed ==
  /\ Ready(bt) /\ speed # NoSpeed
  /\ SetSpeed(bt, speed)
  /\ speed' = NoSpeed
  /\ UNCHANGED <<carState, packet, attribute>>

\* onWrite on CHARACTERISTIC_UUID_STEERING: 'L', 'R', or nothing happens.
ReceiveSteer ==
  /\ Receives("steer")
  /\ CASE Read.command = 76 -> Turn(bt, "left", Read.amount)
       [] Read.command = 82 -> Turn(bt, "right", Read.amount)
       [] OTHER -> UNCHANGED call
  /\ UNCHANGED <<carState, speed>>

\* The callback of attachNewDriveModeCallback.
ReceiveReport ==
  /\ Receives("report")
  /\ UNCHANGED <<carVars, speed>>

BtInCar ==
  /\ CarStep(bt)
  /\ UNCHANGED <<packet, attribute, speed>>

Next ==
  \/ Send
  \/ ReceiveDrive \/ ReceiveDriveSpeed \/ ReceiveSteer \/ ReceiveReport
  \/ BtInCar

Spec == Init /\ [][Next]_vars

-----------------------------------------------------------------------------
\* The receiver reads the command and the amount that were sent, although the
\* value on the way is shorter than the packet when the amount is 0, and longer
\* by whatever follows it on the stack when it is not (GetPayload hands out an
\* array without a terminator).
PacketArrives ==
  [][(packet # NoPacket /\ packet' = NoPacket)
       => /\ Read.command = packet.command
          /\ Read.amount = packet.amount]_vars

\* Whatever arrives, the car is called as Car expects: one method at a time,
\* with amounts that somebody sent.  What holds of the car alone, under any
\* sequence of calls, therefore holds of the car at the end of the trip.
DrivesTheCar == CarSpec
=============================================================================

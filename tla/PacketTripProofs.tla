-------------------------- MODULE PacketTripProofs --------------------------
(***************************************************************************)
(* Proofs about the trip of a packet: what is read at its end, and that    *)
(* the car is called as Car alone is specified.                            *)
(***************************************************************************)
EXTENDS PacketTrip, CarProofs, FiniteSetTheorems, SequenceTheorems

(***************************************************************************)
(* The string a packet travels as.                                         *)
(***************************************************************************)

\* A set of numbers has a least one.  Finite sets are well ordered by inclusion, and
\* n is least when 1 .. n is.
LEMMA LeastNumber ==
  ASSUME NEW T \in SUBSET Nat, T # {}
  PROVE  \E x \in T : \A y \in T : x <= y
<1> DEFINE R == StrictSubsetOrdering(Nat)
           U == {1 .. n : n \in T}
<1>1. IsWellFoundedOn(R, FiniteSubsetsOf(Nat))
  BY FS_StrictSubsetOrderingWellFounded
<1>2. U # {} /\ U \subseteq FiniteSubsetsOf(Nat)
  <2>1. ASSUME NEW n \in T
        PROVE  1 .. n \in FiniteSubsetsOf(Nat)
    <3>1. n \in Int /\ 1 \in Int /\ 1 .. n \subseteq Nat
      OBVIOUS
    <3>2. IsFiniteSet(1 .. n)
      BY <3>1, FS_Interval
    <3>. QED
      BY <3>1, <3>2 DEF FiniteSubsetsOf
  <2>. QED
    BY <2>1
<1>3. \A X, Y \in SUBSET Nat : X \subseteq Y /\ X # Y => <<X, Y>> \in R
  BY DEF StrictSubsetOrdering
<1>. HIDE DEF R, U
<1>4. PICK X \in U : \A Y \in U : ~(<<Y, X>> \in R)
  BY <1>1, <1>2, WFMin
<1>5. PICK n \in T : X = 1 .. n
  BY DEF U
<1>6. ASSUME NEW m \in T, m < n
      PROVE  FALSE
  <2>1. 1 .. m \in U /\ 1 .. m \in SUBSET Nat /\ 1 .. n \in SUBSET Nat
    BY DEF U
  <2>2. 1 .. m \subseteq 1 .. n /\ n \in 1 .. n /\ n \notin 1 .. m
    BY <1>6
  <2>. QED
    BY <1>3, <1>4, <1>5, <2>1, <2>2, Zenon
<1>. QED
  BY <1>6

\* The string ends before the first zero.
LEMMA CStringEnds ==
  ASSUME NEW memory \in Seq(Bytes), NEW last \in 1 .. Len(memory), memory[last] = 0
  PROVE  \E m \in 1 .. last :
           /\ memory[m] = 0 /\ \A j \in 1 .. m - 1 : memory[j] # 0
           /\ CString(memory) = SubSeq(memory, 1, m - 1)
<1> DEFINE ends == {i \in 1 .. Len(memory) : memory[i] = 0}
           least == CHOOSE i \in ends : \A j \in ends : i <= j
<1>1. ends \in SUBSET Nat /\ last \in ends
  OBVIOUS
<1>2. \E i \in ends : \A j \in ends : i <= j
  BY <1>1, LeastNumber
<1>3. least \in ends /\ \A j \in ends : least <= j
  BY <1>2
<1>4. ends # {} /\ CString(memory) = SubSeq(memory, 1, least - 1)
  BY <1>1 DEF CString
<1>. HIDE DEF least
<1>5. least \in 1 .. last /\ memory[least] = 0
  BY <1>1, <1>3
<1>6. \A j \in 1 .. least - 1 : memory[j] # 0
  BY <1>3, <1>5
<1>. QED
  BY <1>4, <1>5, <1>6

\* Whatever follows raw[2], the two bytes are read as they were written.
LEMMA PayloadIsReceived ==
  ASSUME NEW command \in Bytes \ {0}, NEW amount \in Bytes, NEW tail \in Seq(Bytes)
  PROVE  Received(Payload(command, amount, tail)) = [command |-> command, amount |-> amount]
<1> DEFINE rest == tail \o <<0>>
           memory == <<command, amount>> \o rest
<1>1. /\ rest \in Seq(Bytes) /\ Len(rest) = Len(tail) + 1 /\ rest[Len(tail) + 1] = 0
      /\ Len(tail) \in Nat
  <2>1. <<0>> \in Seq(Bytes) /\ Len(<<0>>) = 1 /\ <<0>>[1] = 0
    BY DEF Bytes
  <2>. QED
    BY <2>1, ConcatProperties
<1>2. <<command, amount>> \in Seq(Bytes) /\ Len(<<command, amount>>) = 2
      /\ <<command, amount>>[1] = command /\ <<command, amount>>[2] = amount
  OBVIOUS
<1>. HIDE DEF rest
<1>3. memory = <<command, amount>> \o rest /\ Payload(command, amount, tail) = CString(memory)
  <2>1. <<command, amount>> \o tail \o <<0>> = memory
    BY DEF rest
  <2>. QED
    BY <2>1 DEF Payload
<1>. HIDE DEF memory
<1>4. /\ memory \in Seq(Bytes) /\ Len(memory) = Len(tail) + 3
      /\ memory[1] = command /\ memory[2] = amount /\ memory[Len(memory)] = 0
  BY <1>1, <1>2, <1>3, ConcatProperties
<1>5. PICK m \in 1 .. Len(memory) :
        /\ memory[m] = 0 /\ \A j \in 1 .. m - 1 : memory[j] # 0
        /\ CString(memory) = SubSeq(memory, 1, m - 1)
  <2>1. Len(memory) \in 1 .. Len(memory)
    BY <1>1, <1>4
  <2>. QED
    BY <1>4, <2>1, CStringEnds
<1>6. m # 1 /\ (amount = 0 => m = 2) /\ (amount # 0 => m > 2)
  <2>1. m # 1
    BY <1>4, <1>5
  <2>2. ASSUME m > 2, amount = 0
        PROVE  FALSE
    <3>1. 2 \in 1 .. m - 1
      BY <1>5, <2>2
    <3>. QED
      BY <1>4, <1>5, <2>2, <3>1
  <2>3. amount # 0 => m # 2
    BY <1>4, <1>5
  <2>. QED
    BY <1>1, <1>4, <2>1, <2>2, <2>3
<1> DEFINE value == SubSeq(memory, 1, m - 1)
<1>7. Len(value) = m - 1 /\ \A i \in 1 .. m - 1 : value[i] = memory[i]
  <2>1. m - 1 \in 0 .. Len(memory)
    BY <1>1, <1>4
  <2>. QED
    BY <1>4, <2>1
<1>. HIDE DEF value
<1>8. ByteAt(value, 1) = command
  <2>1. 1 \in 1 .. m - 1 /\ 1 <= m - 1
    BY <1>1, <1>4, <1>6
  <2>. QED
    BY <1>4, <1>7, <2>1 DEF ByteAt
<1>9. ByteAt(value, 2) = amount
  <2>1. CASE amount = 0
    BY <1>6, <1>7, <2>1 DEF ByteAt
  <2>2. CASE amount # 0
    <3>1. 2 \in 1 .. m - 1 /\ 2 <= m - 1
      BY <1>1, <1>4, <1>6, <2>2
    <3>. QED
      BY <1>4, <1>7, <3>1 DEF ByteAt
  <2>. QED
    BY <2>1, <2>2
<1>. QED
  BY <1>3, <1>5, <1>8, <1>9 DEF Received, value

-----------------------------------------------------------------------------
(***************************************************************************)
(* The trip.                                                               *)
(***************************************************************************)

\* A packet on its way was made by the sender, is what will be read, and waits for the
\* car to be done; a speed that is still to be set is one that was sent.
TripInv ==
  /\ packet # NoPacket =>
       /\ packet \in PacketSet /\ Read = [command |-> packet.command, amount |-> packet.amount]
       /\ Ready(bt) /\ speed = NoSpeed
  /\ speed \in Amounts \cup {NoSpeed}

LEMMA TripFacts ==
  /\ bt \in Tasks /\ Tasks = {bt} /\ Amounts \subseteq Bytes /\ NoSpeed \notin Bytes
  /\ \A p \in PacketSet : p # NoPacket /\ p.amount \in Amounts /\ p.at \in Characteristics
<1>1. \A p \in PacketSet : p.at # NoPacket.at /\ p.amount \in Amounts /\ p.at \in Characteristics
  BY DEF PacketSet, NoPacket, Characteristics
<1>. QED
  BY <1>1, PacketAssumption, AmountsAssumption DEF NoSpeed, Bytes

LEMMA InitTrip == Init => TripInv
BY DEF Init, TripInv

LEMMA SentValue ==
  ASSUME NEW command \in UNION {Commands[c] : c \in Characteristics},
         NEW amount \in Amounts, NEW tail \in Tails
  PROVE  Payload(command, amount, tail) \in Values
BY DEF Values

\* The wire gives back what is sent.
LEMMA SendTrip ==
  ASSUME TripInv, Send
  PROVE  TripInv'
<1>1. packet' \in PacketSet /\ packet'.command \in Commands[packet'.at]
      /\ Ready(bt) /\ speed = NoSpeed /\ speed' = speed /\ call' = call
  BY DEF Send, BtFree, carVars
<1>2. PICK tail \in Tails :
        attribute' = ThroughDBus(Payload(packet'.command, packet'.amount, tail))
  BY DEF Send
<1>3. /\ packet'.at \in Characteristics /\ packet'.amount \in Amounts
      /\ packet'.command \in Bytes \ {0} /\ packet'.amount \in Bytes /\ tail \in Seq(Bytes)
  BY <1>1, TripFacts, PacketAssumption
<1>4. Payload(packet'.command, packet'.amount, tail) \in Values
  <2>1. packet'.command \in UNION {Commands[c] : c \in Characteristics}
    BY <1>1, <1>3
  <2>. QED
    BY <1>3, <2>1, SentValue
<1>5. attribute' = Payload(packet'.command, packet'.amount, tail)
  BY <1>2, <1>4, WireAssumption
<1>6. Received(attribute') = [command |-> packet'.command, amount |-> packet'.amount]
  BY <1>3, <1>5, PayloadIsReceived
<1>7. Read' = [command |-> packet'.command, amount |-> packet'.amount]
  BY <1>6 DEF Read, Received, ByteAt
<1>8. Ready(bt)'
  BY <1>1 DEF Ready
<1>. QED
  BY <1>1, <1>7, <1>8 DEF TripInv

LEMMA StepTrip == TripInv /\ [Next]_vars => TripInv'
<1>. SUFFICES ASSUME TripInv, [Next]_vars PROVE TripInv'
  OBVIOUS
<1>1. CASE Send
  BY <1>1, SendTrip
<1>2. CASE ReceiveDrive
  <2>1. packet # NoPacket
    BY <1>2 DEF ReceiveDrive, Receives, NoPacket
  <2>2. Read.amount \in Amounts
    BY <2>1, TripFacts DEF TripInv
  <2>. QED
    BY <1>2, <2>2 DEF ReceiveDrive, Receives, TripInv
<1>3. CASE ReceiveDriveSpeed
  <2>1. packet = NoPacket
    BY <1>3 DEF ReceiveDriveSpeed, TripInv
  <2>. QED
    BY <1>3, <2>1 DEF ReceiveDriveSpeed, TripInv
<1>4. CASE ReceiveSteer \/ ReceiveReport
  BY <1>4 DEF ReceiveSteer, ReceiveReport, Receives, TripInv
<1>5. CASE BtInCar
  <2>1. ~Ready(bt)
    BY <1>5 DEF BtInCar, CarStep, WriteMode, WriteDrivePin1, WriteDrivePin2, ZeroSteerPin1,
       ZeroSteerPin2, CheckStopped, WriteDriveDuty, WriteSteerDuty, WriteSteerPin1,
       WriteSteerPin2, At, Ready
  <2>. QED
    BY <1>5, <2>1 DEF BtInCar, TripInv
<1>6. CASE UNCHANGED vars
  BY <1>6 DEF vars, carVars, TripInv, Read, Received, ByteAt, Ready
<1>. QED
  BY <1>1, <1>2, <1>3, <1>4, <1>5, <1>6 DEF Next

\* For every command but 0, every amount and whatever follows the packet on the
\* stack, the receiver reads what was sent (BLERCCar_packets.hpp:13-19, 103-109).
THEOREM PacketArrivesHolds == Spec => PacketArrives
<1>1. TripInv => (packet # NoPacket => Read.command = packet.command /\ Read.amount = packet.amount)
  BY DEF TripInv
<1>. QED
  BY <1>1, InitTrip, StepTrip, PTL DEF Spec, PacketArrives

\* Each step of the trip calls the car as Car expects, goes on inside a method, or
\* leaves the car alone.
LEMMA StepDrives ==
  ASSUME TripInv, [Next]_vars
  PROVE  [CarNext]_carVars
<1>1. CASE Send \/ ReceiveReport \/ UNCHANGED vars
  BY <1>1 DEF Send, ReceiveReport, vars
<1>2. CASE ReceiveDrive
  <2>1. Ready(bt)
    BY <1>2 DEF ReceiveDrive, Receives, TripInv, NoPacket
  <2>2. GetDriveMode(Read.command) \in DriveModes
    BY DEF GetDriveMode, DriveModes, Forward, ForwardCollision, Backward, BackwardCollision,
       Stop, Unsupported
  <2>3. CallSetDriveMode(bt)
    BY <1>2, <2>1, <2>2 DEF ReceiveDrive, CallSetDriveMode, carState
  <2>. QED
    BY <2>3, TripFacts DEF CarNext
<1>3. CASE ReceiveDriveSpeed
  <2>1. speed \in Amounts
    BY <1>3 DEF ReceiveDriveSpeed, TripInv
  <2>2. CallSetSpeed(bt)
    BY <1>3, <2>1 DEF ReceiveDriveSpeed, CallSetSpeed, carState
  <2>. QED
    BY <2>2, TripFacts DEF CarNext
<1>4. CASE ReceiveSteer
  <2>1. packet # NoPacket
    BY <1>4 DEF ReceiveSteer, Receives, NoPacket
  <2>2. Ready(bt) /\ Read.amount \in Amounts
    BY <2>1, TripFacts DEF TripInv
  <2>3. \/ \E side \in Sides : Turn(bt, side, Read.amount)
        \/ call' = call
    BY <1>4 DEF ReceiveSteer, Sides
  <2>4. UNCHANGED <<m_Mode, drive, steer, driveDuty, steerDuty>>
    BY <1>4 DEF ReceiveSteer, carState
  <2>5. CallTurn(bt) \/ UNCHANGED carVars
    BY <2>2, <2>3, <2>4 DEF CallTurn, carVars
  <2>. QED
    BY <2>5, TripFacts DEF CarNext
<1>5. CASE BtInCar
  BY <1>5, TripFacts DEF BtInCar, CarNext
<1>. QED
  BY <1>1, <1>2, <1>3, <1>4, <1>5 DEF Next

\* Whatever is sent, the car is driven as Car alone is specified (BLECallbacks.hpp:50-110).
THEOREM DrivesTheCarHolds == Spec => DrivesTheCar
<1>1. Init => CarInit
  BY DEF Init
<1>2. TripInv /\ [Next]_vars => [CarNext]_carVars
  BY StepDrives
<1>. QED
  BY <1>1, <1>2, InitTrip, StepTrip, PTL DEF Spec, DrivesTheCar, CarSpec

\* What CarProofs shows of the car holds of the car at the end of the trip, where one
\* task calls it.
THEOREM CarAtTheEnd ==
  Spec => [](CarTypeOK /\ ModeTellsMotion /\ SteeredOneWay /\ DutyInRange)
<1>1. OneCaller /\ Tasks # {}
  BY PacketAssumption DEF OneCaller
<1>2. CarSpec => []ModeTellsMotion
  BY <1>1, ModeTellsMotionHolds
<1>3. CarSpec => []SteeredOneWay
  BY <1>1, SteeredOneWayHolds
<1>. QED
  BY <1>2, <1>3, CarTypeCorrect, DutyInRangeHolds, DrivesTheCarHolds, PTL DEF DrivesTheCar
=============================================================================

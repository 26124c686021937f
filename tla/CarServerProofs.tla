-------------------------- MODULE CarServerProofs --------------------------
(***************************************************************************)
(* Proofs about the firmware: the type of its state, the inductive         *)
(* invariant SessionInv with the safety properties it implies, and that    *)
(* every step of the firmware is one of DeadMan.                           *)
(***************************************************************************)
EXTENDS CarServer, CarProofs, SequenceTheorems

(***************************************************************************)
(* Types.                                                                  *)
(***************************************************************************)

\* What a write event carries.
LEMMA EventTypes ==
  ASSUME NEW e \in Events
  PROVE  /\ e.event \in {"connect", "disconnect", "write"}
         /\ e.event = "write" =>
              /\ e.write.amount \in Amounts
              /\ e.write.characteristic # "drive" => e.write.side \in Sides \cup {"none"}
<1>1. CASE e = ConnectEvent
  BY <1>1 DEF ConnectEvent
<1>2. CASE e = DisconnectEvent
  BY <1>2 DEF DisconnectEvent
<1>3. CASE \E w \in ClientWrites : e = WriteEvent(w)
  <2>1. PICK w \in ClientWrites : e = WriteEvent(w)
    BY <1>3
  <2>2. w \in DriveWrites \/ w \in SteerWrites
    BY WritesAssumption
  <2>3. /\ w.amount \in Amounts
        /\ w.characteristic # "drive" => w.side \in Sides \cup {"none"}
    BY <2>2 DEF DriveWrites, SteerWrites
  <2>. QED
    BY <2>1, <2>3 DEF WriteEvent
<1>. QED
  BY <1>1, <1>2, <1>3 DEF Events

LEMMA DriveModeType == \A command : GetDriveMode(command) \in DriveModes
BY DEF GetDriveMode, DriveModes, Forward, ForwardCollision, Backward,
       BackwardCollision, Stop, Unsupported

\* The clock, and the elapsed time, wrap within the range of millis().
LEMMA ClockWraps ==
  ASSUME NEW n \in Int
  PROVE  n % ClockRange \in 0 .. ClockRange - 1
BY ClockAssumption

LEMMA QueueTypes ==
  ASSUME NEW queue \in Seq(Events)
  PROVE  /\ \A e \in Events : Append(queue, e) \in Seq(Events)
         /\ queue # <<>> => Head(queue) \in Events /\ Tail(queue) \in Seq(Events)
OBVIOUS

LEMMA InitType == Init => TypeOK
<1>1. 0 \in 0 .. ClockRange - 1
  BY ClockAssumption
<1>2. InitialConenction \in DriveModes
  BY DEF DriveModes, InitialConenction
<1>3. <<>> \in Seq(Events)
  OBVIOUS
<1>. QED
  BY <1>1, <1>2, <1>3, CarInitType DEF Init, TypeOK, BtPlaces, MgmtPlaces, SetupSteps

LEMMA SetupType ==
  ASSUME TypeOK, Setup
  PROVE  TypeOK'
<1>1. UNCHANGED carVars => CarTypeOK'
  BY DEF TypeOK, CarTypeOK, carVars
<1>. USE DEF TypeOK, contextVars, radioVars, mgmtVars, btVars, MgmtPlaces, SetupSteps
<1>2. CASE InitConnectivityMaintenanceTask
  BY <1>1, <1>2 DEF InitConnectivityMaintenanceTask
<1>3. CASE CreateServer
  BY <1>1, <1>3 DEF CreateServer
<1>4. CASE CreateCharacteristics
  BY <1>1, <1>4 DEF CreateCharacteristics
<1>5. CASE StartAdvertising
  BY <1>1, <1>5 DEF StartAdvertising
<1>. QED
  BY <1>2, <1>3, <1>4, <1>5 DEF Setup

LEMMA BtType ==
  ASSUME TypeOK, Bt
  PROVE  TypeOK'
<1>1. CarTypeOK /\ inbox \in Seq(Events) /\ bt \in Tasks
  BY TasksAssumption DEF TypeOK
<1>2. CASE OnConnect
  BY <1>1, <1>2, QueueTypes DEF OnConnect, Handling, TypeOK, carVars, mgmtVars, btVars,
     CarTypeOK
<1>3. CASE OnDisconnect
  BY <1>1, <1>3, QueueTypes DEF OnDisconnect, Handling, TypeOK, carVars, mgmtVars,
     CarTypeOK, BtPlaces
<1>4. CASE DropClient
  <2>1. DisconnectionStop \in DriveModes
    BY ModeSets DEF CarModes
  <2>2. CarTypeOK'
    BY <1>1, <1>4, <2>1, FrameStarts DEF DropClient, carState, CarTypeOK
  <2>. QED
    BY <2>2, <1>4 DEF DropClient, TypeOK, radioVars, mgmtVars, BtPlaces
<1>5. CASE OnDriveWrite
  <2>1. Head(inbox) \in Events /\ Head(inbox).event = "write" /\ inbox' \in Seq(Events)
    BY <1>1, <1>5, QueueTypes DEF OnDriveWrite, Handling
  <2>2. Head(inbox).write.amount \in Amounts
    BY <2>1, EventTypes
  <2>3. CarTypeOK'
    BY <1>1, <1>5, DriveModeType, FrameStarts DEF OnDriveWrite, carState, CarTypeOK
  <2>4. btAt' \in BtPlaces /\ amount' \in Amounts \cup {0}
    BY <1>5, <2>2 DEF OnDriveWrite, TypeOK, btVars, BtPlaces
  <2>. QED
    BY <2>1, <2>3, <2>4, <1>5 DEF OnDriveWrite, TypeOK, contextVars, mgmtVars
<1>6. CASE OnDriveWriteSpeed
  <2>1. CarTypeOK'
    BY <1>1, <1>6, FrameStarts DEF OnDriveWriteSpeed, carState, CarTypeOK, TypeOK
  <2>. QED
    BY <2>1, <1>6 DEF OnDriveWriteSpeed, TypeOK, contextVars, radioVars, mgmtVars, BtPlaces
<1>7. CASE OnSteerWrite
  <2>1. Head(inbox) \in Events /\ Head(inbox).event = "write" /\ inbox' \in Seq(Events)
    BY <1>1, <1>7, QueueTypes DEF OnSteerWrite, Handling
  <2>2. /\ Head(inbox).write.amount \in Amounts
        /\ Head(inbox).write.side \in Sides \cup {"none"}
    BY <1>7, <2>1, EventTypes DEF OnSteerWrite
  <2>3. call' \in [Tasks -> Frames]
    BY <1>1, <1>7, <2>2, FrameStarts DEF OnSteerWrite, CarTypeOK
  <2>4. CarTypeOK'
    BY <1>1, <1>7, <2>3 DEF OnSteerWrite, carState, CarTypeOK
  <2>. QED
    BY <2>1, <2>4, <1>7 DEF OnSteerWrite, TypeOK, contextVars, mgmtVars, btVars
<1>8. CASE BtInCar
  <2>1. CarTypeOK'
    BY <1>1, <1>8, CarStepType DEF BtInCar
  <2>. QED
    BY <2>1, <1>8 DEF BtInCar, TypeOK, contextVars, radioVars, mgmtVars, btVars
<1>. QED
  BY <1>2, <1>3, <1>4, <1>5, <1>6, <1>7, <1>8 DEF Bt

LEMMA MgmtType ==
  ASSUME TypeOK, Mgmt
  PROVE  TypeOK'
<1>1. CarTypeOK /\ mgmt \in Tasks
  BY TasksAssumption DEF TypeOK
<1>2. UNCHANGED carVars => CarTypeOK'
  BY <1>1 DEF CarTypeOK, carVars
<1>3. /\ DisconnectionStop \in DriveModes /\ InitialConenction \in DriveModes
      /\ m_Mode \in DriveModes
  BY <1>1, ModeSets DEF CarModes, DriveModes, InitialConenction, CarTypeOK
<1>4. UNCHANGED carState /\ SetDriveMode(mgmt, DisconnectionStop) => CarTypeOK'
  BY <1>1, <1>3, FrameStarts DEF carState, CarTypeOK
<1>5. \A from, to : MgmtGoes(from, to) => mgmtAt' = to
  BY DEF MgmtGoes
<1>6. {"top", "inner", "read", "notify", "sample", "advertise", "blink", "timeout",
       "elapsed", "check"} \subseteq MgmtPlaces
  BY DEF MgmtPlaces, SessionPlaces, BlinkPlaces
<1>. USE <1>1, <1>2, <1>3, <1>5, <1>6 DEF TypeOK, contextVars, radioVars, btVars
<1>7. CASE Branch
  BY <1>7 DEF Branch
<1>8. CASE StayConnected
  BY <1>8 DEF StayConnected
<1>9. CASE ControllerDisconnected
  BY <1>9, <1>4 DEF ControllerDisconnected
<1>10. CASE ReadDriveMode
  BY <1>10 DEF ReadDriveMode
<1>11. CASE NotifyNewDriveMode
  BY <1>11 DEF NotifyNewDriveMode
<1>12. CASE NotifyNewDistanceRead
  BY <1>12 DEF NotifyNewDistanceRead
<1>13. CASE Advertise
  BY <1>13 DEF Advertise
<1>14. CASE Blink
  BY <1>14 DEF Blink
<1>15. CASE ReadCurrentTime
  BY <1>15 DEF ReadCurrentTime
<1>16. CASE CompareElapsedTime
  <2>1. 0 \in 0 .. ClockRange - 1
    BY ClockAssumption
  <2>. QED
    BY <1>16, <2>1 DEF CompareElapsedTime
<1>17. CASE StopAfterTimeout
  <2>1. CarTypeOK'
    BY <1>17, <1>4 DEF StopAfterTimeout, carState, carVars
  <2>. QED
    BY <1>17, <2>1 DEF StopAfterTimeout
<1>18. CASE MgmtInCar
  <2>1. CarTypeOK'
    BY <1>18, CarStepType DEF MgmtInCar
  <2>. QED
    BY <1>18, <2>1 DEF MgmtInCar, mgmtVars
<1>. QED
  BY <1>7, <1>8, <1>9, <1>10, <1>11, <1>12, <1>13, <1>14, <1>15, <1>16, <1>17, <1>18
  DEF Mgmt

LEMMA EnvironmentType ==
  ASSUME TypeOK, Environment
  PROVE  TypeOK'
<1>1. UNCHANGED carVars => CarTypeOK'
  BY DEF TypeOK, CarTypeOK, carVars
<1>2. inbox \in Seq(Events) /\ now \in Int
  BY DEF TypeOK
<1>3. ConnectEvent \in Events /\ DisconnectEvent \in Events
  BY DEF Events
<1>. USE <1>1 DEF TypeOK, contextVars, radioVars, mgmtVars, btVars
<1>4. CASE LinkUp
  BY <1>4, <1>2, <1>3, QueueTypes DEF LinkUp
<1>5. CASE ClientWrite
  <2>1. PICK write \in ClientWrites : inbox' = Append(inbox, WriteEvent(write))
    BY <1>5 DEF ClientWrite
  <2>2. WriteEvent(write) \in Events
    BY DEF Events
  <2>3. inbox' \in Seq(Events)
    BY <1>2, <2>1, <2>2, QueueTypes
  <2>. QED
    BY <1>5, <2>3 DEF ClientWrite
<1>6. CASE LinkDown
  BY <1>6, <1>2, <1>3, QueueTypes DEF LinkDown
<1>7. CASE Tick
  <2>1. now' \in 0 .. ClockRange - 1
    BY <1>7, <1>2, ClockWraps DEF Tick
  <2>. QED
    BY <1>7, <2>1 DEF Tick
<1>. QED
  BY <1>4, <1>5, <1>6, <1>7 DEF Environment

LEMMA NextType == TypeOK /\ [Next]_vars => TypeOK'
<1>1. ASSUME TypeOK, UNCHANGED vars
      PROVE  TypeOK'
  BY <1>1 DEF vars, carVars, contextVars, radioVars, mgmtVars, btVars, TypeOK, CarTypeOK
<1>. QED
  BY <1>1, SetupType, BtType, MgmtType, EnvironmentType DEF Next

\* The state of the firmware keeps its type, for every set of commands and
\* amounts, every clock and every length of the event queue.
THEOREM TypeCorrect == Spec => []TypeOK
BY InitType, NextType, PTL DEF Spec
-----------------------------------------------------------------------------
(***************************************************************************)
(* A task that is stopping the car only ever switches off, so it disturbs  *)
(* nothing the other one has switched off.                                 *)
(***************************************************************************)
OnlyLowers ==
  /\ drive.Pin1 = "LOW" => drive'.Pin1 = "LOW"
  /\ drive.Pin2 = "LOW" => drive'.Pin2 = "LOW"
  /\ steer.Pin1 = "LOW" => steer'.Pin1 = "LOW"
  /\ steer.Pin2 = "LOW" => steer'.Pin2 = "LOW"

LEMMA OffPins ==
  ASSUME NEW pins \in PinPair
  PROVE  pins = Off <=> pins.Pin1 = "LOW" /\ pins.Pin2 = "LOW"
BY DEF PinPair, Off

LEMMA StopStep ==
  ASSUME CarTypeOK, NEW t \in Tasks, Stopping(t), CarStep(t)
  PROVE  /\ OnlyLowers
         /\ Ready(t)' \/ Stopping(t)'
         /\ StopHolds(t) => HaltedBy(t)'
         /\ \A u \in Tasks \ {t} : call'[u] = call[u]
<1>1. /\ call \in [Tasks -> Frames] /\ drive \in PinPair /\ steer \in PinPair
      /\ call[t].mode = DisconnectionStop /\ call[t].side = "none"
      /\ call[t].step \in {"mode", "pin1", "pin2", "zero1", "zero2"}
  BY DEF CarTypeOK, Stopping
<1>2. /\ DrivePins(DisconnectionStop).Pin1 = "LOW"
      /\ DrivePins(DisconnectionStop).Pin2 = "LOW"
  BY DEF DrivePins, Off, DisconnectionStop, Forward, Backward
<1>3. ~(DisconnectionStop \in {Forward, Backward, Stop})
  BY DEF DisconnectionStop, Forward, Backward, Stop
<1>4. \A step : Continue(t, step) =>
         /\ call'[t].step = step
         /\ call'[t].mode = DisconnectionStop /\ call'[t].side = "none"
         /\ \A u \in Tasks \ {t} : call'[u] = call[u]
  BY <1>1 DEF Continue, Frames
<1>5. Return(t) => /\ call'[t].step = "ready"
                   /\ \A u \in Tasks \ {t} : call'[u] = call[u]
  BY <1>1 DEF Return, Returned
<1>6. CASE WriteMode(t)
  <2>1. call'[t].step = "pin1" /\ OnlyLowers
    BY <1>6, <1>4 DEF WriteMode, OnlyLowers
  <2>. QED
    BY <2>1, <1>6, <1>4 DEF WriteMode, Stopping, StopHolds, HaltedBy, Ready
<1>7. CASE WriteDrivePin1(t)
  <2>1. drive'.Pin1 = "LOW" /\ drive'.Pin2 = drive.Pin2 /\ steer' = steer
    BY <1>7, <1>1, <1>2 DEF WriteDrivePin1, PinPair
  <2>2. call'[t].step = "pin2"
    BY <1>7, <1>4 DEF WriteDrivePin1
  <2>. QED
    BY <2>1, <2>2, <1>7, <1>4
    DEF WriteDrivePin1, OnlyLowers, Stopping, StopHolds, HaltedBy, Ready
<1>8. CASE WriteDrivePin2(t)
  <2>1. drive'.Pin1 = drive.Pin1 /\ drive'.Pin2 = "LOW" /\ drive' \in PinPair
    BY <1>8, <1>1, <1>2 DEF WriteDrivePin2, PinPair
  <2>2. Continue(t, "zero1") /\ At(t, "pin2") /\ steer' = steer
    BY <1>8, <1>1, <1>3 DEF WriteDrivePin2
  <2>3. drive.Pin1 = "LOW" => drive' = Off
    BY <2>1, OffPins
  <2>4. call'[t].step = "zero1"
    BY <2>2, <1>4
  <2>. QED
    BY <2>1, <2>2, <2>3, <2>4, <1>4
    DEF OnlyLowers, Stopping, StopHolds, HaltedBy, Ready, At
<1>9. CASE ZeroSteerPin1(t)
  <2>1. steer'.Pin1 = "LOW" /\ steer'.Pin2 = steer.Pin2 /\ drive' = drive
    BY <1>9, <1>1 DEF ZeroSteerPin1, PinPair
  <2>2. call'[t].step = "zero2"
    BY <1>9, <1>4 DEF ZeroSteerPin1
  <2>. QED
    BY <2>1, <2>2, <1>9, <1>4
    DEF ZeroSteerPin1, OnlyLowers, Stopping, StopHolds, HaltedBy, Ready, At
<1>10. CASE ZeroSteerPin2(t)
  <2>1. /\ steer'.Pin1 = steer.Pin1 /\ steer'.Pin2 = "LOW" /\ steer' \in PinPair
        /\ drive' = drive
    BY <1>10, <1>1 DEF ZeroSteerPin2, PinPair
  <2>2. Return(t) /\ At(t, "zero2")
    BY <1>10, <1>1 DEF ZeroSteerPin2
  <2>3. steer.Pin1 = "LOW" => steer' = Off
    BY <2>1, OffPins
  <2>. QED
    BY <2>1, <2>2, <2>3, <1>5
    DEF OnlyLowers, Stopping, StopHolds, HaltedBy, Halted, Ready, At
<1>. QED
  BY <1>1, <1>6, <1>7, <1>8, <1>9, <1>10
  DEF CarStep, CheckStopped, WriteDriveDuty, WriteSteerDuty, WriteSteerPin1,
      WriteSteerPin2, At

\* What one task has switched off stays off while the others only lower.
LEMMA LoweringKeeps ==
  ASSUME CarTypeOK, CarTypeOK', OnlyLowers
  PROVE  /\ Halted => Halted'
         /\ \A u \in Tasks : call'[u] = call[u] /\ HaltedBy(u) => HaltedBy(u)'
<1>1. /\ drive \in PinPair /\ steer \in PinPair
      /\ drive' \in PinPair /\ steer' \in PinPair
  BY DEF CarTypeOK
<1>2. /\ drive = Off => drive' = Off
      /\ steer = Off => steer' = Off
  BY <1>1, OffPins DEF OnlyLowers
<1>3. Halted => Halted'
  BY <1>2 DEF Halted
<1>4. ASSUME NEW u \in Tasks, call'[u] = call[u], HaltedBy(u)
      PROVE  HaltedBy(u)'
  BY <1>2, <1>3, <1>4 DEF HaltedBy, Stopping, StopHolds, Ready, OnlyLowers
<1>. QED
  BY <1>3, <1>4

\* A stop that has just been called has nothing switched off yet.
LEMMA StopStarts ==
  ASSUME CarTypeOK, NEW t \in Tasks, SetDriveMode(t, DisconnectionStop)
  PROVE  /\ Stopping(t)' /\ HaltedBy(t)' /\ ~Ready(t)'
         /\ \A u \in Tasks \ {t} : call'[u] = call[u]
BY DEF CarTypeOK, SetDriveMode, Returned, Stopping, StopHolds, HaltedBy, Ready

\* One write by a task that is stopping the car, and what it preserves.
LEMMA StopStepKeeps ==
  ASSUME CarTypeOK, NEW t \in Tasks, Stopping(t), CarStep(t)
  PROVE  /\ Halted => Halted'
         /\ \A u \in Tasks : HaltedBy(u) => HaltedBy(u)'
         /\ \A u \in Tasks : Ready(u) \/ Stopping(u) => Ready(u)' \/ Stopping(u)'
<1>1. CarTypeOK'
  BY CarStepType
<1>2. HaltedBy(t) => StopHolds(t)
  BY DEF HaltedBy, Stopping, Ready
<1>. QED
  BY <1>1, <1>2, StopStep, LoweringKeeps DEF Ready, Stopping
-----------------------------------------------------------------------------
(***************************************************************************)
(* SessionInv is inductive.                                                *)
(***************************************************************************)
LEMMA QueueFacts ==
  ASSUME NEW queue \in Seq(Events)
  PROVE  /\ \A e \in Events :
              /\ Append(queue, e) # <<>> /\ Len(Append(queue, e)) = Len(queue) + 1
              /\ Append(queue, e)[Len(queue) + 1] = e
              /\ \A i \in 1 .. Len(queue) : Append(queue, e)[i] = queue[i]
         /\ queue # <<>> =>
              /\ Len(queue) \in Nat \ {0} /\ Head(queue) = queue[1]
              /\ Len(Tail(queue)) = Len(queue) - 1
              /\ \A i \in 1 .. Len(queue) - 1 : Tail(queue)[i] = queue[i + 1]
              /\ Len(queue) = 1 => Tail(queue) = <<>>
<1>1. ASSUME NEW e \in Events
      PROVE  /\ Append(queue, e) # <<>> /\ Len(Append(queue, e)) = Len(queue) + 1
             /\ Append(queue, e)[Len(queue) + 1] = e
             /\ \A i \in 1 .. Len(queue) : Append(queue, e)[i] = queue[i]
  BY AppendProperties
<1>2. ASSUME queue # <<>>
      PROVE  /\ Len(queue) \in Nat \ {0} /\ Head(queue) = queue[1]
             /\ Len(Tail(queue)) = Len(queue) - 1
             /\ \A i \in 1 .. Len(queue) - 1 : Tail(queue)[i] = queue[i + 1]
             /\ Tail(queue) \in Seq(Events)
  <2>1. Len(queue) \in Nat \ {0}
    BY <1>2, EmptySeq, LenProperties
  <2>. QED
    BY <1>2, <2>1, HeadTailProperties
<1>3. ASSUME queue # <<>>, Len(queue) = 1
      PROVE  Tail(queue) = <<>>
  <2>1. Tail(queue) \in Seq(Events) /\ Len(Tail(queue)) = 0
    BY <1>2, <1>3
  <2>2. \A q \in Seq(Events) : q # <<>> => Len(q) \in Nat \ {0}
    BY EmptySeq
  <2>. QED
    BY <2>1, <2>2
<1>. QED
  BY <1>1, <1>2, <1>3

LEMMA EventKinds ==
  /\ ConnectEvent.event = "connect"
  /\ DisconnectEvent.event = "disconnect"
  /\ \A w : WriteEvent(w).event = "write"
  /\ ConnectEvent \in Events /\ DisconnectEvent \in Events
  /\ \A w \in ClientWrites : WriteEvent(w) \in Events
BY DEF ConnectEvent, DisconnectEvent, WriteEvent, Events

LEMMA InitInv == Init => SessionInv
BY TasksAssumption
DEF Init, CarInit, SessionInv, ClosedByCallback, TaskOnlyStops, EventOrder,
    AdvertisingAlone, TaskInSession, SetupFirst, ReportIsOfThisSession, NoClientAtAll,
    HaltedBy, Halted, Ready, Returned, SessionPlaces

\* SessionInv speaks of nothing that these leave alone.
LEMMA InvUnchanged ==
  ASSUME SessionInv,
         UNCHANGED <<call, drive, steer, deviceConnected, link, advertising, inbox,
                     notified, btAt, mgmtAt, tmpMode, setup>>
  PROVE  SessionInv'
BY DEF SessionInv, ClosedByCallback, TaskOnlyStops, EventOrder, AdvertisingAlone,
       TaskInSession, SetupFirst, ReportIsOfThisSession, NoClientAtAll, HaltedBy,
       StopHolds, Stopping, Halted, Ready

LEMMA SetupInv ==
  ASSUME SessionInv, Setup
  PROVE  SessionInv'
<1>1. UNCHANGED <<call, drive, steer, deviceConnected, link, inbox, notified, btAt, tmpMode>>
  BY DEF Setup, InitConnectivityMaintenanceTask, CreateServer, CreateCharacteristics,
     StartAdvertising, carVars, contextVars, radioVars, mgmtVars, btVars
<1>2. setup # "done"
  BY DEF Setup, InitConnectivityMaintenanceTask, CreateServer, CreateCharacteristics,
     StartAdvertising
<1>3. NoClientAtAll /\ Halted /\ Ready(bt) /\ mgmtAt \notin SessionPlaces
  BY <1>2 DEF SessionInv, SetupFirst, ClosedByCallback, HaltedBy, NoClientAtAll
<1>4. ClosedByCallback' /\ TaskOnlyStops' /\ EventOrder'
  BY <1>1 DEF SessionInv, ClosedByCallback, TaskOnlyStops, EventOrder, HaltedBy,
     StopHolds, Stopping, Halted, Ready
<1>5. NoClientAtAll' /\ Halted' /\ Ready(bt)'
  BY <1>1, <1>3 DEF NoClientAtAll, Halted, Ready
<1>6. mgmtAt' \notin SessionPlaces
  BY <1>3 DEF Setup, InitConnectivityMaintenanceTask, CreateServer, CreateCharacteristics,
     StartAdvertising, mgmtVars, SessionPlaces
<1>7. setup' # "done" => ~advertising'
  BY <1>2 DEF Setup, InitConnectivityMaintenanceTask, CreateServer, CreateCharacteristics,
     StartAdvertising, radioVars, SessionInv, SetupFirst
<1>. QED
  BY <1>4, <1>5, <1>6, <1>7 DEF SessionInv, AdvertisingAlone, TaskInSession, SetupFirst,
     ReportIsOfThisSession, SessionPlaces

\* An event in the queue means that setup is over and nobody is advertised to.
LEMMA QueueInUse ==
  ASSUME SessionInv, inbox # <<>> \/ deviceConnected \/ link
  PROVE  /\ ~advertising /\ setup = "done"
         /\ mgmtAt \in SessionPlaces => deviceConnected /\ mgmtAt # "advertise"
<1>1. ~NoClientAtAll
  BY DEF NoClientAtAll
<1>2. ~advertising /\ setup = "done"
  BY <1>1 DEF SessionInv, AdvertisingAlone, SetupFirst
<1>3. mgmtAt \in SessionPlaces => deviceConnected /\ mgmtAt # "advertise"
  <2>1. TaskInSession
    BY DEF SessionInv
  <2>. QED
    BY <1>1, <2>1, Zenon DEF TaskInSession
<1>. QED
  BY <1>2, <1>3

\* Taking the first event off the queue.
LEMMA TakeEvent ==
  ASSUME TypeOK, SessionInv, inbox # <<>>, inbox' = Tail(inbox), UNCHANGED link
  PROVE  /\ \A i \in 1 .. Len(inbox') :
              /\ inbox'[i].event # "connect"
              /\ inbox'[i].event = "disconnect" => i = Len(inbox') /\ ~link'
         /\ Head(inbox).event = "connect" <=> ~deviceConnected
         /\ Head(inbox).event = "disconnect" => inbox' = <<>> /\ ~link
<1>1. inbox \in Seq(Events)
  BY DEF TypeOK
<1>2. /\ Len(inbox) \in Nat \ {0} /\ Head(inbox) = inbox[1]
      /\ Len(inbox') = Len(inbox) - 1
      /\ \A i \in 1 .. Len(inbox') : inbox'[i] = inbox[i + 1]
      /\ Len(inbox) = 1 => inbox' = <<>>
  BY <1>1, QueueFacts
<1>3. \A i \in 1 .. Len(inbox) :
         /\ inbox[i].event = "connect" => i = 1 /\ ~deviceConnected
         /\ inbox[i].event = "disconnect" => i = Len(inbox) /\ ~link
  BY DEF SessionInv, EventOrder
<1>4. ~deviceConnected => inbox[1].event = "connect"
  BY DEF SessionInv, EventOrder
<1>5. ASSUME NEW i \in 1 .. Len(inbox')
      PROVE  /\ inbox'[i].event # "connect"
             /\ inbox'[i].event = "disconnect" => i = Len(inbox') /\ ~link'
  <2>1. i + 1 \in 1 .. Len(inbox) /\ i + 1 # 1 /\ inbox'[i] = inbox[i + 1]
    BY <1>2
  <2>2. inbox[i + 1].event # "connect"
    BY <2>1, <1>3
  <2>3. inbox[i + 1].event = "disconnect" => i + 1 = Len(inbox) /\ ~link
    BY <2>1, <1>3
  <2>4. i + 1 = Len(inbox) => i = Len(inbox')
    <3>1. i \in Int /\ Len(inbox) \in Int /\ Len(inbox') \in Int
          /\ Len(inbox') = Len(inbox) - 1
      BY <1>2
    <3>2. \A j, n, p \in Int : p = n - 1 /\ j + 1 = n => j = p
      OBVIOUS
    <3>. QED
      BY <3>1, <3>2, Zenon
  <2>5. inbox'[i].event = inbox[i + 1].event
    BY <2>1
  <2>6. ~link => ~link'
    OBVIOUS
  <2>. QED
    BY <2>2, <2>3, <2>4, <2>5, <2>6
<1>6. 1 \in 1 .. Len(inbox)
  BY <1>2
<1>. QED
  BY <1>2, <1>3, <1>4, <1>5, <1>6, Zenon

\* A step of one task leaves the frame of the other alone.
LEMMA OwnFrame ==
  ASSUME CarTypeOK, NEW t \in Tasks, CarStep(t)
  PROVE  ~Ready(t) /\ \A u \in Tasks \ {t} : call'[u] = call[u]
<1>1. \A step : Continue(t, step) => \A u \in Tasks \ {t} : call'[u] = call[u]
  BY DEF CarTypeOK, Continue
<1>2. Return(t) => \A u \in Tasks \ {t} : call'[u] = call[u]
  BY DEF CarTypeOK, Return
<1>3. \E step : Continue(t, step) \/ Return(t)
  BY DEF CarStep, WriteMode, WriteDrivePin1, WriteDrivePin2, ZeroSteerPin1,
     ZeroSteerPin2, CheckStopped, WriteDriveDuty, WriteSteerDuty, WriteSteerPin1,
     WriteSteerPin2
<1>4. ~Ready(t)
  BY DEF CarStep, WriteMode, WriteDrivePin1, WriteDrivePin2, ZeroSteerPin1,
     ZeroSteerPin2, CheckStopped, WriteDriveDuty, WriteSteerDuty, WriteSteerPin1,
     WriteSteerPin2, At, Ready
<1>. QED
  BY <1>1, <1>2, <1>3, <1>4

\* Entering a method leaves the frame of the other task alone.
LEMMA OwnCall ==
  ASSUME CarTypeOK, NEW t \in Tasks
  PROVE  /\ \A mode : SetDriveMode(t, mode) => \A u \in Tasks \ {t} : call'[u] = call[u]
         /\ \A speed : SetSpeed(t, speed) => \A u \in Tasks \ {t} : call'[u] = call[u]
         /\ \A side, percentage :
              Turn(t, side, percentage) => \A u \in Tasks \ {t} : call'[u] = call[u]
BY DEF CarTypeOK, SetDriveMode, SetSpeed, Turn

\* While a client is connected bt may do to the car what it likes.
LEMMA ConnectedStep ==
  ASSUME SessionInv, deviceConnected, deviceConnected', EventOrder',
         call'[mgmt] = call[mgmt],
         UNCHANGED <<link, advertising, mgmtAt, tmpMode, notified, setup>>
  PROVE  SessionInv'
<1>1. /\ ~advertising /\ setup = "done"
      /\ mgmtAt \in SessionPlaces => mgmtAt # "advertise"
  BY QueueInUse
<1>2. TaskOnlyStops'
  BY DEF SessionInv, TaskOnlyStops, Ready, Stopping
<1>. QED
  BY <1>1, <1>2 DEF SessionInv, ClosedByCallback, AdvertisingAlone, TaskInSession,
     SetupFirst, ReportIsOfThisSession, SessionPlaces

LEMMA BtInv ==
  ASSUME TypeOK, SessionInv, Bt
  PROVE  SessionInv'
<1>1. /\ CarTypeOK /\ inbox \in Seq(Events)
      /\ bt \in Tasks /\ mgmt \in Tasks /\ mgmt \in Tasks \ {bt}
  BY TasksAssumption DEF TypeOK
<1>2. \A event : Handling(event) => inbox # <<>> /\ Head(inbox).event = event
                                    /\ btAt = "idle"
  BY DEF Handling, BtFree
<1>3. ~deviceConnected => btAt = "idle" /\ HaltedBy(bt)
  BY DEF SessionInv, ClosedByCallback
<1>4. CASE OnConnect
  <2>1. /\ inbox # <<>> /\ inbox' = Tail(inbox) /\ Head(inbox).event = "connect"
        /\ deviceConnected' /\ btAt' = "idle"
        /\ UNCHANGED <<call, drive, steer, link, advertising, notified, mgmtAt, tmpMode, setup>>
    BY <1>2, <1>4 DEF OnConnect, carVars, mgmtVars, btVars
  <2>2. ~deviceConnected /\ EventOrder'
    BY <2>1, TakeEvent DEF EventOrder
  <2>3. ~advertising /\ setup = "done" /\ mgmtAt \notin SessionPlaces
    BY <2>1, <2>2, QueueInUse
  <2>4. TaskOnlyStops'
    BY <2>1 DEF SessionInv, TaskOnlyStops, Ready, Stopping
  <2>. QED
    BY <2>1, <2>2, <2>3, <2>4 DEF SessionInv, ClosedByCallback, AdvertisingAlone,
       TaskInSession, SetupFirst, ReportIsOfThisSession, SessionPlaces
<1>5. CASE OnDisconnect
  <2>1. /\ inbox # <<>> /\ inbox' = Tail(inbox) /\ Head(inbox).event = "disconnect"
        /\ UNCHANGED <<call, drive, steer, deviceConnected, link, advertising, notified,
                       mgmtAt, tmpMode, setup>>
    BY <1>2, <1>5 DEF OnDisconnect, carVars, mgmtVars
  <2>2. deviceConnected /\ inbox' = <<>> /\ ~link /\ EventOrder'
    BY <2>1, TakeEvent DEF EventOrder
  <2>. QED
    BY <2>1, <2>2, ConnectedStep
<1>6. CASE DropClient
  <2>1. /\ btAt = "drop" /\ ~deviceConnected' /\ btAt' = "idle"
        /\ SetDriveMode(bt, DisconnectionStop)
        /\ UNCHANGED <<drive, steer, link, advertising, inbox, notified, mgmtAt, tmpMode, setup>>
    BY <1>6 DEF DropClient, carState, radioVars, mgmtVars
  <2>2. deviceConnected /\ inbox = <<>> /\ ~link
    BY <2>1 DEF SessionInv, EventOrder
  <2>3. HaltedBy(bt)' /\ call'[mgmt] = call[mgmt]
    BY <1>1, <2>1, StopStarts
  <2>4. ~advertising /\ setup = "done" /\ (mgmtAt \in SessionPlaces => mgmtAt # "advertise")
    BY <2>2, QueueInUse
  <2>5. TaskOnlyStops'
    BY <2>3 DEF SessionInv, TaskOnlyStops, Ready, Stopping
  <2>6. EventOrder' /\ NoClientAtAll'
    BY <2>1, <2>2 DEF SessionInv, EventOrder, NoClientAtAll
  <2>. QED
    BY <2>1, <2>2, <2>3, <2>4, <2>5, <2>6 DEF SessionInv, ClosedByCallback,
       AdvertisingAlone, TaskInSession, SetupFirst, ReportIsOfThisSession, SessionPlaces
<1>7. CASE OnDriveWrite \/ OnSteerWrite
  <2>1. /\ inbox # <<>> /\ inbox' = Tail(inbox) /\ Head(inbox).event = "write"
        /\ btAt' # "drop"
        /\ UNCHANGED <<deviceConnected, link, advertising, notified, mgmtAt, tmpMode, setup>>
    BY <1>2, <1>7 DEF OnDriveWrite, OnSteerWrite, contextVars, mgmtVars, btVars
  <2>2. call'[mgmt] = call[mgmt]
    BY <1>1, <1>7, OwnCall DEF OnDriveWrite, OnSteerWrite
  <2>3. deviceConnected /\ EventOrder'
    BY <2>1, TakeEvent DEF EventOrder
  <2>. QED
    BY <2>1, <2>2, <2>3, ConnectedStep
<1>8. CASE OnDriveWriteSpeed
  <2>1. /\ btAt = "speed" /\ btAt' = "idle" /\ SetSpeed(bt, amount)
        /\ UNCHANGED <<deviceConnected, link, advertising, inbox, notified, mgmtAt, tmpMode, setup>>
    BY <1>8 DEF OnDriveWriteSpeed, contextVars, radioVars, mgmtVars
  <2>2. deviceConnected /\ call'[mgmt] = call[mgmt]
    BY <1>1, <1>3, <2>1, OwnCall
  <2>3. EventOrder'
    BY <2>1 DEF SessionInv, EventOrder
  <2>. QED
    BY <2>1, <2>2, <2>3, ConnectedStep
<1>9. CASE BtInCar
  <2>1. /\ CarStep(bt)
        /\ UNCHANGED <<deviceConnected, link, advertising, inbox, notified, btAt, mgmtAt,
                       tmpMode, setup>>
    BY <1>9 DEF BtInCar, contextVars, radioVars, mgmtVars, btVars
  <2>2. ~Ready(bt) /\ call'[mgmt] = call[mgmt]
    BY <1>1, <2>1, OwnFrame
  <2>3. EventOrder' /\ (NoClientAtAll => NoClientAtAll')
    BY <2>1 DEF SessionInv, EventOrder, NoClientAtAll
  <2>4. CASE deviceConnected
    BY <2>1, <2>2, <2>3, <2>4, ConnectedStep
  <2>5. CASE ~deviceConnected
    <3>1. Stopping(bt)
      BY <1>3, <2>2, <2>5 DEF HaltedBy
    <3>2. /\ Halted => Halted'
          /\ HaltedBy(bt) => HaltedBy(bt)'
          /\ HaltedBy(mgmt) => HaltedBy(mgmt)'
          /\ Ready(mgmt) \/ Stopping(mgmt) => Ready(mgmt)' \/ Stopping(mgmt)'
      BY <1>1, <2>1, <3>1, StopStepKeeps
    <3>3. setup = "done"
      BY <2>2 DEF SessionInv, SetupFirst
    <3>. QED
      BY <1>3, <2>1, <2>3, <2>5, <3>2, <3>3 DEF SessionInv, ClosedByCallback,
         TaskOnlyStops, AdvertisingAlone, TaskInSession, SetupFirst, ReportIsOfThisSession
  <2>. QED
    BY <2>4, <2>5
<1>. QED
  BY <1>4, <1>5, <1>6, <1>7, <1>8, <1>9 DEF Bt
\* A step of mgmt outside Car, which leaves the radio's client and bt alone.
LEMMA TaskStep ==
  ASSUME SessionInv, call'[bt] = call[bt],
         UNCHANGED <<drive, steer, deviceConnected, link, inbox, btAt, setup>>
  PROVE  /\ ClosedByCallback' /\ EventOrder'
         /\ NoClientAtAll => NoClientAtAll'
         /\ Halted => Halted'
         /\ Ready(bt) => Ready(bt)'
BY DEF SessionInv, ClosedByCallback, EventOrder, NoClientAtAll, Halted, HaltedBy,
       Stopping, StopHolds, Ready, SetupFirst

LEMMA MgmtInv ==
  ASSUME TypeOK, SessionInv, Mgmt
  PROVE  SessionInv'
<1>1. /\ CarTypeOK /\ bt \in Tasks /\ mgmt \in Tasks
      /\ bt \in Tasks \ {mgmt} /\ bt # mgmt
  BY TasksAssumption DEF TypeOK
<1>2. mgmtAt \in SessionPlaces =>
        setup = "done" /\ ~advertising /\ (deviceConnected \/ NoClientAtAll)
  BY DEF SessionInv, TaskInSession, SetupFirst
<1>3. \A from, to : MgmtGoes(from, to) => mgmtAt = from /\ Ready(mgmt) /\ mgmtAt' = to
  BY DEF MgmtGoes
<1>4. UNCHANGED call => TaskOnlyStops'
  BY DEF SessionInv, TaskOnlyStops, Ready, Stopping
<1>6. CASE Branch
  <2>1. /\ Ready(mgmt) /\ mgmtAt' = (IF deviceConnected THEN "inner" ELSE "blink")
        /\ tmpMode' = IF deviceConnected THEN InitialConenction ELSE tmpMode
        /\ UNCHANGED <<call, drive, steer, deviceConnected, link, advertising, inbox,
                       notified, btAt, setup>>
    BY <1>3, <1>6 DEF Branch, carVars, contextVars, radioVars, btVars
  <2>2. deviceConnected => ~advertising /\ setup = "done"
    BY QueueInUse
  <2>. QED
    BY <2>1, <2>2, <1>4, TaskStep DEF SessionInv, AdvertisingAlone, TaskInSession,
       SetupFirst, ReportIsOfThisSession, SessionPlaces
<1>7. CASE StayConnected
  <2>1. /\ mgmtAt = "inner" /\ mgmtAt' = "read" /\ deviceConnected
        /\ UNCHANGED <<call, drive, steer, deviceConnected, link, advertising, inbox,
                       notified, btAt, tmpMode, setup>>
    BY <1>3, <1>7 DEF StayConnected, carVars, contextVars, radioVars, btVars
  <2>. QED
    BY <2>1, <1>2, <1>4, TaskStep DEF SessionInv, AdvertisingAlone, TaskInSession,
       SetupFirst, ReportIsOfThisSession, SessionPlaces
<1>8. CASE ControllerDisconnected
  <2>1. /\ mgmtAt = "inner" /\ mgmtAt' = "advertise" /\ ~deviceConnected
        /\ SetDriveMode(mgmt, DisconnectionStop)
        /\ UNCHANGED <<drive, steer, deviceConnected, link, advertising, inbox,
                       notified, btAt, tmpMode, setup>>
    BY <1>3, <1>8 DEF ControllerDisconnected, carState, contextVars, radioVars, btVars
  <2>2. call'[bt] = call[bt] /\ HaltedBy(mgmt)' /\ Stopping(mgmt)'
    BY <1>1, <2>1, StopStarts
  <2>3. NoClientAtAll /\ setup = "done" /\ ~advertising
    BY <2>1, <1>2 DEF SessionPlaces
  <2>. QED
    BY <2>1, <2>2, <2>3, TaskStep DEF SessionInv, TaskOnlyStops, AdvertisingAlone,
       TaskInSession, SetupFirst, ReportIsOfThisSession, SessionPlaces
<1>9. CASE ReadDriveMode
  <2>1. /\ mgmtAt = "read" /\ mgmtAt' = (IF m_Mode # tmpMode THEN "notify" ELSE "sample")
        /\ tmpMode' = m_Mode
        /\ UNCHANGED <<call, drive, steer, deviceConnected, link, advertising, inbox,
                       notified, btAt, setup>>
    BY <1>3, <1>9 DEF ReadDriveMode, carVars, contextVars, radioVars, btVars
  <2>. QED
    BY <2>1, <1>2, <1>4, TaskStep DEF SessionInv, AdvertisingAlone, TaskInSession,
       SetupFirst, ReportIsOfThisSession, SessionPlaces
<1>10. CASE NotifyNewDriveMode
  <2>1. /\ mgmtAt = "notify" /\ mgmtAt' = "sample"
        /\ notified' = IF link THEN tmpMode ELSE notified
        /\ UNCHANGED <<call, drive, steer, deviceConnected, link, advertising, inbox,
                       btAt, tmpMode, setup>>
    BY <1>3, <1>10 DEF NotifyNewDriveMode, carVars, contextVars, btVars
  <2>. QED
    BY <2>1, <1>2, <1>4, TaskStep DEF SessionInv, AdvertisingAlone, TaskInSession,
       SetupFirst, ReportIsOfThisSession, SessionPlaces
<1>11. CASE NotifyNewDistanceRead
  <2>1. /\ mgmtAt = "sample" /\ mgmtAt' = "inner"
        /\ UNCHANGED <<call, drive, steer, deviceConnected, link, advertising, inbox,
                       notified, btAt, tmpMode, setup>>
    BY <1>3, <1>11 DEF NotifyNewDistanceRead, carVars, contextVars, radioVars, btVars
  <2>. QED
    BY <2>1, <1>2, <1>4, TaskStep DEF SessionInv, AdvertisingAlone, TaskInSession,
       SetupFirst, ReportIsOfThisSession, SessionPlaces
<1>12. CASE Advertise
  <2>1. /\ mgmtAt = "advertise" /\ Ready(mgmt) /\ mgmtAt' = "top" /\ advertising'
        /\ UNCHANGED <<call, drive, steer, deviceConnected, link, inbox, notified, btAt,
                       tmpMode, setup>>
    BY <1>3, <1>12 DEF Advertise, carVars, contextVars, btVars
  <2>2. NoClientAtAll /\ Halted /\ setup = "done"
    BY <2>1, <1>2 DEF SessionInv, TaskInSession, HaltedBy, SessionPlaces
  <2>. QED
    BY <2>1, <2>2, <1>4, TaskStep DEF SessionInv, AdvertisingAlone, TaskInSession,
       SetupFirst, ReportIsOfThisSession, SessionPlaces
<1>13. CASE Blink \/ ReadCurrentTime \/ CompareElapsedTime
  <2>1. /\ mgmtAt' \notin SessionPlaces
        /\ UNCHANGED <<call, drive, steer, deviceConnected, link, advertising, inbox,
                       notified, btAt, tmpMode, setup>>
    BY <1>3, <1>13 DEF Blink, ReadCurrentTime, CompareElapsedTime, carVars, contextVars,
       radioVars, btVars, SessionPlaces
  <2>. QED
    BY <2>1, <1>4, TaskStep DEF SessionInv, AdvertisingAlone, TaskInSession,
       SetupFirst, ReportIsOfThisSession, SessionPlaces
<1>14. CASE StopAfterTimeout
  <2>1. /\ mgmtAt' = "blink"
        /\ SetDriveMode(mgmt, DisconnectionStop) \/ UNCHANGED call
        /\ UNCHANGED <<drive, steer, deviceConnected, link, advertising, inbox,
                       notified, btAt, tmpMode, setup>>
    BY <1>3, <1>14 DEF StopAfterTimeout, carState, contextVars, radioVars, btVars
  <2>2. call'[bt] = call[bt] /\ TaskOnlyStops'
    BY <1>1, <1>4, <2>1, StopStarts DEF TaskOnlyStops
  <2>. QED
    BY <2>1, <2>2, TaskStep DEF SessionInv, AdvertisingAlone, TaskInSession,
       SetupFirst, ReportIsOfThisSession, SessionPlaces
<1>15. CASE MgmtInCar
  <2>1. /\ CarStep(mgmt)
        /\ UNCHANGED <<deviceConnected, link, advertising, inbox, notified, btAt, mgmtAt,
                       tmpMode, setup>>
    BY <1>15 DEF MgmtInCar, contextVars, radioVars, mgmtVars, btVars
  <2>2. ~Ready(mgmt) /\ call'[bt] = call[bt]
    BY <1>1, <2>1, OwnFrame
  <2>3. Stopping(mgmt)
    BY <2>2 DEF SessionInv, TaskOnlyStops
  <2>4. /\ Halted => Halted'
        /\ HaltedBy(bt) => HaltedBy(bt)'
        /\ HaltedBy(mgmt) => HaltedBy(mgmt)'
        /\ TaskOnlyStops'
    BY <1>1, <2>1, <2>3, StopStepKeeps DEF TaskOnlyStops
  <2>5. /\ EventOrder' /\ (NoClientAtAll => NoClientAtAll')
        /\ Ready(bt) => Ready(bt)'
    BY <2>1, <2>2 DEF SessionInv, EventOrder, NoClientAtAll, Ready
  <2>. QED
    BY <2>1, <2>4, <2>5 DEF SessionInv, ClosedByCallback, AdvertisingAlone,
       TaskInSession, SetupFirst, ReportIsOfThisSession
<1>. QED
  BY <1>6, <1>7, <1>8, <1>9, <1>10, <1>11, <1>12, <1>13, <1>14, <1>15 DEF Mgmt
\* An event of a live link joins the queue.
LEMMA QueueGrows ==
  ASSUME TypeOK, SessionInv, link, NEW e \in Events, e.event # "connect",
         inbox' = Append(inbox, e), e.event = "disconnect" <=> ~link',
         UNCHANGED <<deviceConnected, btAt>>
  PROVE  EventOrder'
<1>1. inbox \in Seq(Events)
  BY DEF TypeOK
<1>2. Len(inbox) \in Nat
  BY <1>1, LenProperties
<1>3. /\ inbox' # <<>> /\ Len(inbox') = Len(inbox) + 1
      /\ inbox'[Len(inbox) + 1] = e
      /\ \A i \in 1 .. Len(inbox) : inbox'[i] = inbox[i]
  BY <1>1, QueueFacts
<1>4. \A i \in 1 .. Len(inbox) :
         /\ inbox[i].event = "connect" => i = 1 /\ ~deviceConnected
         /\ inbox[i].event # "disconnect"
  BY DEF SessionInv, EventOrder
<1>5. ASSUME NEW i \in 1 .. Len(inbox')
      PROVE  /\ inbox'[i].event = "connect" => i = 1 /\ ~deviceConnected'
             /\ inbox'[i].event = "disconnect" => i = Len(inbox') /\ ~link'
  <2>1. i \in 1 .. Len(inbox) \/ i = Len(inbox) + 1
    BY <1>2, <1>3
  <2>2. CASE i \in 1 .. Len(inbox)
    BY <2>2, <1>3, <1>4
  <2>3. CASE i = Len(inbox) + 1
    BY <2>3, <1>3
  <2>. QED
    BY <2>1, <2>2, <2>3
<1>6. ~deviceConnected' => inbox'[1].event = "connect"
  <2>. SUFFICES ASSUME ~deviceConnected
                PROVE  inbox'[1].event = "connect"
    OBVIOUS
  <2>1. inbox # <<>> /\ inbox[1].event = "connect"
    BY DEF SessionInv, EventOrder
  <2>2. 1 \in 1 .. Len(inbox)
    BY <1>1, <2>1, QueueFacts
  <2>. QED
    BY <2>1, <2>2, <1>3
<1>7. btAt' # "drop"
  BY DEF SessionInv, EventOrder
<1>. QED
  BY <1>3, <1>5, <1>6, <1>7 DEF EventOrder

LEMMA EnvironmentInv ==
  ASSUME TypeOK, SessionInv, Environment
  PROVE  SessionInv'
<1>1. inbox \in Seq(Events)
  BY DEF TypeOK
<1>2. CASE LinkUp
  <2>1. /\ advertising /\ link' /\ ~advertising' /\ inbox' = Append(inbox, ConnectEvent)
        /\ UNCHANGED <<call, drive, steer, deviceConnected, btAt, mgmtAt, tmpMode, setup>>
    BY <1>2 DEF LinkUp, carVars, contextVars, mgmtVars, btVars
  <2>2. NoClientAtAll /\ setup = "done" /\ mgmtAt \notin SessionPlaces
    BY <2>1 DEF SessionInv, AdvertisingAlone, SetupFirst, TaskInSession
  <2>3. inbox = <<>> /\ Len(inbox) = 0
    BY <2>2 DEF NoClientAtAll
  <2>4. /\ inbox' # <<>> /\ Len(inbox') = 1
        /\ inbox'[1] = ConnectEvent
    BY <2>1, <2>3, <1>1, QueueFacts, EventKinds
  <2>5. EventOrder'
    <3>1. \A i \in 1 .. Len(inbox') : i = 1
      BY <2>4
    <3>2. btAt' # "drop"
      BY <2>1, <2>2 DEF SessionInv, EventOrder, NoClientAtAll
    <3>3. inbox'[1].event = "connect" /\ ~deviceConnected'
      BY <2>1, <2>2, <2>4, EventKinds DEF NoClientAtAll
    <3>. QED
      BY <2>4, <3>1, <3>2, <3>3 DEF EventOrder
  <2>6. ClosedByCallback' /\ TaskOnlyStops'
    BY <2>1 DEF SessionInv, ClosedByCallback, TaskOnlyStops, HaltedBy, Halted, Stopping,
       StopHolds, Ready
  <2>. QED
    BY <2>1, <2>2, <2>5, <2>6 DEF SessionInv, AdvertisingAlone, TaskInSession,
       SetupFirst, ReportIsOfThisSession, SessionPlaces
<1>3. CASE ClientWrite \/ LinkDown
  <2>1. /\ link
        /\ UNCHANGED <<call, drive, steer, deviceConnected, advertising, notified, btAt,
                       mgmtAt, tmpMode, setup>>
    BY <1>3 DEF ClientWrite, LinkDown, carVars, contextVars, mgmtVars, btVars
  <2>2. EventOrder'
    <3>1. PICK e \in Events : /\ e.event # "connect"
                              /\ inbox' = Append(inbox, e)
                              /\ e.event = "disconnect" <=> ~link'
      BY <1>3, EventKinds DEF ClientWrite, LinkDown
    <3>. QED
      BY <2>1, <3>1, QueueGrows
  <2>3. /\ ~advertising /\ setup = "done"
        /\ mgmtAt \in SessionPlaces => deviceConnected /\ mgmtAt # "advertise"
    BY <2>1, QueueInUse
  <2>4. ClosedByCallback' /\ TaskOnlyStops'
    BY <2>1 DEF SessionInv, ClosedByCallback, TaskOnlyStops, HaltedBy, Halted, Stopping,
       StopHolds, Ready
  <2>. QED
    BY <2>1, <2>2, <2>3, <2>4 DEF SessionInv, AdvertisingAlone, TaskInSession,
       SetupFirst, ReportIsOfThisSession, SessionPlaces
<1>4. CASE Tick
  BY <1>4, InvUnchanged DEF Tick, carVars, contextVars, radioVars, mgmtVars, btVars
<1>. QED
  BY <1>2, <1>3, <1>4 DEF Environment

LEMMA NextInv == TypeOK /\ SessionInv /\ [Next]_vars => SessionInv'
<1>1. ASSUME SessionInv, UNCHANGED vars
      PROVE  SessionInv'
  BY <1>1, InvUnchanged DEF vars, carVars, contextVars, radioVars, mgmtVars, btVars
<1>. QED
  BY <1>1, SetupInv, BtInv, MgmtInv, EnvironmentInv DEF Next

\* The queue, the flag, the radio and the two tasks always agree on the session
\* they are in, and a task that is stopping the car finds switched off what it
\* switched off.
THEOREM SessionInvHolds == Spec => []SessionInv
BY InitInv, NextInv, TypeCorrect, PTL DEF Spec

-----------------------------------------------------------------------------
(***************************************************************************)
(* What follows from it.                                                   *)
(***************************************************************************)

\* After onDisconnect, and until the next onConnect, both motors are off.
THEOREM HaltedWhenClosedHolds == Spec => []HaltedWhenClosed
<1>1. SessionInv => HaltedWhenClosed
  BY DEF SessionInv, ClosedByCallback, HaltedBy, HaltedWhenClosed
<1>. QED
  BY <1>1, SessionInvHolds, PTL

\* A car that can be connected to stands still.
THEOREM AdvertisedCarStandsStillHolds == Spec => []AdvertisedCarStandsStill
<1>1. SessionInv => AdvertisedCarStandsStill
  BY DEF SessionInv, AdvertisingAlone, AdvertisedCarStandsStill
<1>. QED
  BY <1>1, SessionInvHolds, PTL

\* The stop that ends a session cannot hit the next client.
THEOREM LateStopHitsNobodyHolds == Spec => []LateStopHitsNobody
<1>1. SessionInv => LateStopHitsNobody
  BY DEF SessionInv, TaskInSession, NoClientAtAll, LateStopHitsNobody, SessionPlaces
<1>. QED
  BY <1>1, SessionInvHolds, PTL

\* The connectivity task does not use what the constructor has yet to create.
THEOREM TaskUsesInitialisedServerHolds == Spec => []TaskUsesInitialisedServer
<1>1. SessionInv => TaskUsesInitialisedServer
  BY DEF SessionInv, SetupFirst, TaskUsesInitialisedServer, SessionPlaces
<1>. QED
  BY <1>1, SessionInvHolds, PTL

\* tmp_drive_mode is what the client of this session was last told.
THEOREM ReportIsOfThisSessionHolds == Spec => []ReportIsOfThisSession
<1>1. SessionInv => ReportIsOfThisSession
  BY DEF SessionInv
<1>. QED
  BY <1>1, SessionInvHolds, PTL

-----------------------------------------------------------------------------
(***************************************************************************)
(* The firmware implements the safety part of DeadMan: under the mapping   *)
(* of Watch, each of its steps is a step of DeadMan or leaves the session  *)
(* and the motion as they are.                                             *)
(***************************************************************************)

Closing == ~deviceConnected /\ ~Ready(bt)
Closed  == ~deviceConnected /\ Ready(bt)

LEMMA InitWatch == Init => Watch!Init
<1>1. Init => Ready(bt) /\ ~deviceConnected /\ Halted
  BY TasksAssumption DEF Init, CarInit, Ready, Returned, Halted
<1>. QED
  BY <1>1 DEF Watch!Init

\* The four ways in which a step of the firmware is one of DeadMan.
LEMMA SameWatch ==
  ASSUME deviceConnected' = deviceConnected, Ready(bt)' = Ready(bt), Halted' = Halted
  PROVE  UNCHANGED Watch!vars
BY DEF Watch!vars

LEMMA DriveWatch ==
  ASSUME deviceConnected, deviceConnected'
  PROVE  [Watch!Next]_(Watch!vars)
<1>1. CASE Halted' = Halted
  BY <1>1 DEF Watch!vars
<1>2. CASE Halted' # Halted
  BY <1>2 DEF Watch!Next, Watch!Drive
<1>. QED
  BY <1>1, <1>2

LEMMA HaltWatch ==
  ASSUME Closing, ~deviceConnected', Halted \/ Ready(bt)' => Halted'
  PROVE  [Watch!Next]_(Watch!vars)
<1>1. CASE Ready(bt)'
  BY <1>1 DEF Closing, Watch!Next, Watch!Close
<1>2. CASE ~Ready(bt)' /\ Halted'
  BY <1>2 DEF Closing, Watch!Next, Watch!Halt
<1>3. CASE ~Ready(bt)' /\ ~Halted'
  BY <1>3 DEF Closing, Watch!vars
<1>. QED
  BY <1>1, <1>2, <1>3

LEMMA BtWatch ==
  ASSUME TypeOK, SessionInv, Bt
  PROVE  [Watch!Next]_(Watch!vars)
<1>1. /\ CarTypeOK /\ inbox \in Seq(Events) /\ bt \in Tasks
  BY TasksAssumption DEF TypeOK
<1>2. /\ EventOrder
      /\ ~deviceConnected => btAt = "idle" /\ HaltedBy(bt)
  BY DEF SessionInv, ClosedByCallback
<1>3. \A event : Handling(event) => inbox # <<>> /\ inbox[1].event = event /\ Ready(bt)
  BY <1>1, QueueFacts DEF Handling, BtFree
<1>4. UNCHANGED <<drive, steer>> => Halted' = Halted
  BY DEF Halted
<1>5. CASE OnConnect
  <2>1. /\ Handling("connect") /\ deviceConnected'
        /\ UNCHANGED <<call, drive, steer>>
    BY <1>5 DEF OnConnect, carVars
  <2>2. ~deviceConnected /\ Ready(bt)
    <3>1. Len(inbox) \in Nat \ {0}
      BY <1>1, <1>3, <2>1, QueueFacts
    <3>. QED
      BY <1>2, <1>3, <2>1, <3>1 DEF EventOrder
  <2>. QED
    BY <1>4, <2>1, <2>2 DEF Watch!Next, Watch!Open
<1>6. CASE OnDisconnect
  <2>1. UNCHANGED <<call, drive, steer, deviceConnected>>
    BY <1>6 DEF OnDisconnect, carVars
  <2>2. Ready(bt)' = Ready(bt)
    BY <2>1 DEF Ready
  <2>. QED
    BY <1>4, <2>1, <2>2, SameWatch
<1>7. CASE DropClient
  <2>1. /\ btAt = "drop" /\ ~deviceConnected'
        /\ SetDriveMode(bt, DisconnectionStop)
        /\ UNCHANGED <<drive, steer>>
    BY <1>7 DEF DropClient, carState
  <2>2. deviceConnected /\ ~Ready(bt)'
    BY <1>1, <1>2, <2>1, StopStarts
  <2>. QED
    BY <1>4, <2>1, <2>2 DEF Watch!Next, Watch!Lose
<1>8. CASE OnDriveWrite \/ OnSteerWrite
  <2>1. Handling("write") /\ deviceConnected' = deviceConnected
    BY <1>8 DEF OnDriveWrite, OnSteerWrite, contextVars
  <2>2. deviceConnected
    BY <1>2, <1>3, <2>1 DEF EventOrder
  <2>. QED
    BY <2>1, <2>2, DriveWatch
<1>9. CASE OnDriveWriteSpeed
  <2>1. btAt = "speed" /\ deviceConnected' = deviceConnected
    BY <1>9 DEF OnDriveWriteSpeed, contextVars
  <2>. QED
    BY <1>2, <2>1, DriveWatch
<1>10. CASE BtInCar
  <2>1. CarStep(bt) /\ deviceConnected' = deviceConnected
    BY <1>10 DEF BtInCar, contextVars
  <2>2. ~Ready(bt)
    BY <1>1, <2>1, OwnFrame
  <2>3. CASE deviceConnected
    BY <2>1, <2>3, DriveWatch
  <2>4. CASE ~deviceConnected
    <3>1. Stopping(bt) /\ HaltedBy(bt)
      BY <1>2, <2>2, <2>4 DEF HaltedBy
    <3>2. (Halted => Halted') /\ HaltedBy(bt)'
      BY <1>1, <2>1, <3>1, StopStepKeeps
    <3>3. Ready(bt)' => Halted'
      BY <3>2 DEF HaltedBy
    <3>. QED
      BY <2>1, <2>2, <2>4, <3>2, <3>3, HaltWatch DEF Closing
  <2>. QED
    BY <2>3, <2>4
<1>. QED
  BY <1>5, <1>6, <1>7, <1>8, <1>9, <1>10 DEF Bt

LEMMA MgmtWatch ==
  ASSUME TypeOK, SessionInv, Mgmt
  PROVE  [Watch!Next]_(Watch!vars)
<1>1. /\ CarTypeOK /\ bt \in Tasks /\ mgmt \in Tasks /\ bt \in Tasks \ {mgmt}
  BY TasksAssumption DEF TypeOK
<1>2. ~deviceConnected => HaltedBy(bt)
  BY DEF SessionInv, ClosedByCallback
<1>3. CASE MgmtInCar
  <2>1. CarStep(mgmt) /\ deviceConnected' = deviceConnected
    BY <1>3 DEF MgmtInCar, contextVars
  <2>2. Stopping(mgmt)
    BY <1>1, <2>1, OwnFrame DEF SessionInv, TaskOnlyStops
  <2>3. /\ Halted => Halted'
        /\ HaltedBy(bt) => HaltedBy(bt)'
    BY <1>1, <2>1, <2>2, StopStepKeeps
  <2>4. call'[bt] = call[bt]
    BY <1>1, <2>1, <2>2, StopStep
  <2>5. Ready(bt)' = Ready(bt)
    BY <2>4 DEF Ready
  <2>6. CASE deviceConnected
    BY <2>1, <2>6, DriveWatch
  <2>7. CASE Closing
    <3>1. Ready(bt)' => Halted'
      BY <2>5, <2>7 DEF Closing
    <3>. QED
      BY <2>1, <2>3, <2>7, <3>1, HaltWatch DEF Closing
  <2>8. CASE Closed
    <3>1. Halted /\ Halted'
      BY <1>2, <2>3, <2>8 DEF Closed, HaltedBy
    <3>. QED
      BY <2>1, <2>5, <3>1, SameWatch
  <2>. QED
    BY <2>6, <2>7, <2>8 DEF Closing, Closed
<1>4. CASE ~MgmtInCar
  <2>1. /\ UNCHANGED <<drive, steer, deviceConnected>>
        /\ call' = call \/ SetDriveMode(mgmt, DisconnectionStop)
    BY <1>4 DEF Mgmt, Branch, StayConnected, ControllerDisconnected, ReadDriveMode,
       NotifyNewDriveMode, NotifyNewDistanceRead, Advertise, Blink, ReadCurrentTime,
       CompareElapsedTime, StopAfterTimeout, carVars, carState, contextVars
  <2>2. call'[bt] = call[bt]
    BY <1>1, <2>1, StopStarts
  <2>3. Ready(bt)' = Ready(bt) /\ Halted' = Halted
    BY <2>1, <2>2 DEF Ready, Halted
  <2>. QED
    BY <2>1, <2>3, SameWatch
<1>. QED
  BY <1>3, <1>4

LEMMA NextWatch ==
  ASSUME TypeOK, SessionInv, [Next]_vars
  PROVE  [Watch!Next]_(Watch!vars)
<1>1. CASE Setup \/ Environment \/ UNCHANGED vars
  <2>1. UNCHANGED <<call, drive, steer, deviceConnected>>
    BY <1>1 DEF Setup, InitConnectivityMaintenanceTask, CreateServer,
       CreateCharacteristics, StartAdvertising, Environment, LinkUp, ClientWrite,
       LinkDown, Tick, vars, carVars, contextVars
  <2>2. Ready(bt)' = Ready(bt) /\ Halted' = Halted
    BY <2>1 DEF Ready, Halted
  <2>. QED
    BY <2>1, <2>2, SameWatch
<1>. QED
  BY <1>1, BtWatch, MgmtWatch DEF Next

\* The firmware moves the car only for a client, and from the loss of a client
\* to the end of onDisconnect it may only bring it to a halt: whichever of the
\* two tasks gets there first, and whatever commands are still queued.
THEOREM ImplementsDeadManSafety == Spec => Watch!Safety
<1>1. TypeOK /\ SessionInv /\ [Next]_vars => [Watch!Next]_(Watch!vars)
  BY NextWatch
<1>. QED
  BY <1>1, InitWatch, TypeCorrect, SessionInvHolds, PTL DEF Spec, Watch!Safety
=============================================================================

----------------------------- MODULE CarServer -----------------------------
(***************************************************************************)
(* The firmware of the car: the BLE callbacks of BLECallbacks.hpp and the  *)
(* connectivity task of BLEManager.hpp, two tasks that share the Context   *)
(* of BLEManager_context.hpp and one Car, none of it locked.               *)
(*                                                                         *)
(*   bt    the task of the BLE library: it takes one event at a time and   *)
(*         runs onConnect, onDisconnect or onWrite to its end;             *)
(*   mgmt  ConnectivityManagementTask_t: it reports the drive mode while a *)
(*         client is connected, and stops the car, advertises again and    *)
(*         watches the disconnection timeout while none is.                *)
(*                                                                         *)
(* External: the radio.  It has at most one client, accepts one only while *)
(* the car advertises, stops advertising then, never resumes it by itself, *)
(* and hands the events of a link over in order.                           *)
(***************************************************************************)
EXTENDS Car

CONSTANTS
  bt, mgmt,             \* the two tasks
  ClientWrites,         \* what a client may write to a characteristic
  ClockRange,           \* millis() counts modulo this
  DisconnectionTimeout, \* MAXIMUM_DISCONNECTION_TIMEOUT_MS
  QueueBound            \* writes a client may have under way

DriveWrites == [characteristic : {"drive"}, command : Bytes, amount : Amounts]
SteerWrites == [characteristic : {"steer"}, side : Sides \cup {"none"},
                amount : Amounts]

ASSUME TasksAssumption == bt # mgmt /\ Tasks = {bt, mgmt}
ASSUME WritesAssumption == ClientWrites \subseteq DriveWrites \cup SteerWrites
ASSUME ClockAssumption ==
  /\ ClockRange \in Nat \ {0}
  /\ DisconnectionTimeout \in Nat
ASSUME QueueAssumption == QueueBound \in Nat

VARIABLES
  deviceConnected,    \* Context::DeviceConnected
  disconnectionTime,  \* Context::DisconnectionTime
  btAt,               \* where bt is inside a callback
  mgmtAt,             \* where mgmt is in its loops
  amount,             \* packet.GetAmount() of the write bt is handling
  tmpMode,            \* tmp_drive_mode of mgmt
  currentTime,        \* CurrentTime of mgmt
  setup,              \* how far the constructor of BLEManager has come
  link,               \* the radio has a client
  advertising,        \* the radio accepts one
  inbox,              \* events the radio has for bt
  notified,           \* the last drive mode sent over this link, 0 for none
  now                 \* millis()

contextVars == <<deviceConnected, disconnectionTime>>
radioVars   == <<link, advertising, inbox, notified>>
mgmtVars    == <<mgmtAt, tmpMode, currentTime>>
btVars      == <<btAt, amount>>
carState    == <<m_Mode, drive, steer, driveDuty, steerDuty>>
vars == <<carVars, contextVars, radioVars, mgmtVars, btVars, setup, now>>

ConnectEvent    == [event |-> "connect"]
DisconnectEvent == [event |-> "disconnect"]
WriteEvent(w)   == [event |-> "write", write |-> w]

BtPlaces    == {"idle", "drop", "speed"}
\* The branch of the loop that mgmt enters on a connected client ...
SessionPlaces == {"inner", "read", "notify", "sample", "advertise"}
\* ... and the one it enters otherwise.
BlinkPlaces == {"blink", "timeout", "elapsed", "check"}
MgmtPlaces  == {"off", "top"} \cup SessionPlaces \cup BlinkPlaces
SetupSteps  == {"task", "server", "characteristics", "advertise", "done"}

-----------------------------------------------------------------------------
(* The constructor of BLEManager. *)

Init ==
  /\ CarInit
  /\ deviceConnected = FALSE /\ disconnectionTime = 0
  /\ btAt = "idle"           /\ amount = 0
  /\ mgmtAt = "off"          /\ tmpMode = InitialConenction
  /\ currentTime = 0         /\ setup = "task"
  /\ link = FALSE            /\ advertising = FALSE
  /\ inbox = <<>>            /\ notified = 0
  /\ now = 0

\* The task is started before the objects it uses exist.
InitConnectivityMaintenanceTask ==
  /\ setup = "task"
  /\ setup' = "server"
  /\ mgmtAt' = "top"
  /\ UNCHANGED <<carVars, contextVars, radioVars, tmpMode, currentTime, btVars, now>>

\* Mutant of CreateServer: it advertises as soon as the server exists.
CreateServer_Advertising ==
  /\ setup = "server"
  /\ setup' = "characteristics"
  /\ advertising' = TRUE
  /\ UNCHANGED <<carVars, contextVars, link, inbox, notified, mgmtVars, btVars, now>>

CreateServer ==
  /\ setup = "server"
  /\ setup' = "characteristics"
  /\ UNCHANGED <<carVars, contextVars, radioVars, mgmtVars, btVars, now>>

CreateCharacteristics ==
  /\ setup = "characteristics"
  /\ setup' = "advertise"
  /\ UNCHANGED <<carVars, contextVars, radioVars, mgmtVars, btVars, now>>

StartAdvertising ==
  /\ setup = "advertise"
  /\ setup' = "done"
  /\ advertising' = TRUE
  /\ UNCHANGED <<carVars, contextVars, link, inbox, notified, mgmtVars, btVars, now>>

Setup == \/ InitConnectivityMaintenanceTask \/ CreateServer
         \/ CreateCharacteristics           \/ StartAdvertising

-----------------------------------------------------------------------------
(* The BLE callbacks. *)

BtFree == btAt = "idle" /\ Ready(bt)
Handling(event) == BtFree /\ inbox # <<>> /\ Head(inbox).event = event

\* MyServerCallbacks::onConnect
OnConnect ==
  /\ Handling("connect")
  /\ inbox' = Tail(inbox)
  /\ deviceConnected' = TRUE
  /\ UNCHANGED <<carVars, disconnectionTime, link, advertising, notified,
                 mgmtVars, btVars, setup, now>>

\* MyServerCallbacks::onDisconnect: the time, then the flag, then the stop.
OnDisconnect ==
  /\ Handling("disconnect")
  /\ inbox' = Tail(inbox)
  /\ disconnectionTime' = now
  /\ btAt' = "drop"
  /\ UNCHANGED <<carVars, deviceConnected, link, advertising, notified,
                 mgmtVars, amount, setup, now>>

\* Mutant of DropClient: it asks for Stop, which leaves the wheels turned.
DropClient_Stop ==
  /\ btAt = "drop"
  /\ deviceConnected' = FALSE
  /\ SetDriveMode(bt, Stop)
  /\ btAt' = "idle"
  /\ UNCHANGED <<carState, disconnectionTime, radioVars, mgmtVars, amount, setup, now>>

\* Mutant of DropClient: the stop is left to the connectivity task.
DropClient_NoStop ==
  /\ btAt = "drop"
  /\ deviceConnected' = FALSE
  /\ btAt' = "idle"
  /\ UNCHANGED <<carVars, disconnectionTime, radioVars, mgmtVars, amount, setup, now>>

DropClient ==
  /\ btAt = "drop"
  /\ deviceConnected' = FALSE
  /\ SetDriveMode(bt, DisconnectionStop)
  /\ btAt' = "idle"
  /\ UNCHANGED <<carState, disconnectionTime, radioVars, mgmtVars, amount, setup, now>>

\* MyCharCallbacks::onWrite on CHARACTERISTIC_UUID_SET_DRIVE_MODES
OnDriveWrite ==
  /\ Handling("write")
  /\ LET write == Head(inbox).write
         mode  == GetDriveMode(write.command)
     IN  /\ write.characteristic = "drive"
         /\ SetDriveMode(bt, mode)
         /\ IF mode = Unsupported
            THEN UNCHANGED btVars
            ELSE btAt' = "speed" /\ amount' = write.amount
  /\ inbox' = Tail(inbox)
  /\ UNCHANGED <<carState, contextVars, link, advertising, notified,
                 mgmtVars, setup, now>>

\* ... which sets the speed once SetDriveMode has returned.
OnDriveWriteSpeed ==
  /\ btAt = "speed" /\ Ready(bt)
  /\ SetSpeed(bt, amount)
  /\ btAt' = "idle" /\ amount' = 0
  /\ UNCHANGED <<carState, contextVars, radioVars, mgmtVars, setup, now>>

\* MyCharCallbacks::onWrite on CHARACTERISTIC_UUID_STEERING: a first byte
\* that is neither 'L' nor 'R' is dropped.
OnSteerWrite ==
  /\ Handling("write")
  /\ LET write == Head(inbox).write
     IN  /\ write.characteristic = "steer"
         /\ IF write.side = "none" THEN UNCHANGED call
                                   ELSE Turn(bt, write.side, write.amount)
  /\ inbox' = Tail(inbox)
  /\ UNCHANGED <<carState, contextVars, link, advertising, notified,
                 mgmtVars, btVars, setup, now>>

BtInCar ==
  /\ CarStep(bt)
  /\ UNCHANGED <<contextVars, radioVars, mgmtVars, btVars, setup, now>>

Bt == \/ OnConnect    \/ OnDisconnect      \/ DropClient
      \/ OnDriveWrite \/ OnDriveWriteSpeed \/ OnSteerWrite
      \/ BtInCar

-----------------------------------------------------------------------------
(***************************************************************************)
(* ConnectivityManagementTask_t.  mgmtAt names what it does next:          *)
(*   top        the branch on DeviceConnected                              *)
(*   inner      the test of the loop for a connected client                *)
(*   read       reading and comparing the drive mode                       *)
(*   notify     NotifyNewDriveMode                                         *)
(*   sample     the distances, and the 100 ms pause                        *)
(*   advertise  Advertise, once SetDriveMode(DisconnectionStop) returned   *)
(*   blink      the test of the loop that waits for a client               *)
(*   timeout    CoolBlink is done: manage_disconnection_timeout, millis()  *)
(*   elapsed    its reading of DisconnectionTime                           *)
(*   check      its reading of the drive mode                              *)
(***************************************************************************)
MgmtGoes(from, to) == mgmtAt = from /\ Ready(mgmt) /\ mgmtAt' = to

\* Mutant of Branch: tmp_drive_mode lives outside the loop.
Branch_KeepMode ==
  /\ MgmtGoes("top", IF deviceConnected THEN "inner" ELSE "blink")
  /\ UNCHANGED <<carVars, contextVars, radioVars, tmpMode, currentTime, btVars, setup, now>>

\* Mutant of Branch: a new client is taken to know that the car is stopped.
Branch_AssumeStop ==
  /\ MgmtGoes("top", IF deviceConnected THEN "inner" ELSE "blink")
  /\ tmpMode' = IF deviceConnected THEN Stop ELSE tmpMode
  /\ UNCHANGED <<carVars, contextVars, radioVars, currentTime, btVars, setup, now>>

Branch ==
  /\ MgmtGoes("top", IF deviceConnected THEN "inner" ELSE "blink")
  /\ tmpMode' = IF deviceConnected THEN InitialConenction ELSE tmpMode
  /\ UNCHANGED <<carVars, contextVars, radioVars, currentTime, btVars, setup, now>>

StayConnected ==
  /\ deviceConnected
  /\ MgmtGoes("inner", "read")
  /\ UNCHANGED <<carVars, contextVars, radioVars, tmpMode, currentTime,
                 btVars, setup, now>>

\* Mutant of ControllerDisconnected: it advertises first and stops then.
ControllerDisconnected_AdvertiseFirst ==
  /\ ~deviceConnected
  /\ MgmtGoes("inner", "advertise")
  /\ SetDriveMode(mgmt, DisconnectionStop)
  /\ advertising' = TRUE
  /\ UNCHANGED <<carState, contextVars, link, inbox, notified, tmpMode,
                 currentTime, btVars, setup, now>>

\* Mutant of ControllerDisconnected: Advertise is forgotten.
ControllerDisconnected_NoAdvertise ==
  /\ ~deviceConnected
  /\ MgmtGoes("inner", "top")
  /\ SetDriveMode(mgmt, DisconnectionStop)
  /\ UNCHANGED <<carState, contextVars, radioVars, tmpMode, currentTime,
                 btVars, setup, now>>

ControllerDisconnected ==
  /\ ~deviceConnected
  /\ MgmtGoes("inner", "advertise")
  /\ SetDriveMode(mgmt, DisconnectionStop)
  /\ UNCHANGED <<carState, contextVars, radioVars, tmpMode, currentTime,
                 btVars, setup, now>>

ReadDriveMode ==
  /\ MgmtGoes("read", IF m_Mode # tmpMode THEN "notify" ELSE "sample")
  /\ tmpMode' = m_Mode
  /\ UNCHANGED <<carVars, contextVars, radioVars, currentTime, btVars, setup, now>>

\* A notification reaches whoever is connected when it is sent.
NotifyNewDriveMode ==
  /\ MgmtGoes("notify", "sample")
  /\ notified' = IF link THEN tmpMode ELSE notified
  /\ UNCHANGED <<carVars, contextVars, link, advertising, inbox, tmpMode,
                 currentTime, btVars, setup, now>>

NotifyNewDistanceRead ==
  /\ MgmtGoes("sample", "inner")
  /\ UNCHANGED <<carVars, contextVars, radioVars, tmpMode, currentTime,
                 btVars, setup, now>>

Advertise ==
  /\ MgmtGoes("advertise", "top")
  /\ advertising' = TRUE
  /\ UNCHANGED <<carVars, contextVars, link, inbox, notified, tmpMode,
                 currentTime, btVars, setup, now>>

Blink ==
  /\ MgmtGoes("blink", IF deviceConnected THEN "top" ELSE "timeout")
  /\ UNCHANGED <<carVars, contextVars, radioVars, tmpMode, currentTime,
                 btVars, setup, now>>

ReadCurrentTime ==
  /\ MgmtGoes("timeout", "elapsed")
  /\ currentTime' = now
  /\ UNCHANGED <<carVars, contextVars, radioVars, tmpMode, btVars, setup, now>>

\* An unsigned difference: a DisconnectionTime later than CurrentTime makes
\* it huge.
CompareElapsedTime ==
  /\ MgmtGoes("elapsed",
       IF (currentTime - disconnectionTime) % ClockRange > DisconnectionTimeout
       THEN "check" ELSE "blink")
  /\ currentTime' = 0
  /\ UNCHANGED <<carVars, contextVars, radioVars, tmpMode, btVars, setup, now>>

\* DeviceConnected is not looked at again.
StopAfterTimeout ==
  /\ MgmtGoes("check", "blink")
  /\ IF m_Mode # DisconnectionStop
     THEN SetDriveMode(mgmt, DisconnectionStop)
     ELSE UNCHANGED call
  /\ UNCHANGED <<carState, contextVars, radioVars, tmpMode, currentTime,
                 btVars, setup, now>>

MgmtInCar ==
  /\ CarStep(mgmt)
  /\ UNCHANGED <<contextVars, radioVars, mgmtVars, btVars, setup, now>>

Mgmt == \/ Branch          \/ StayConnected   \/ ControllerDisconnected
        \/ ReadDriveMode   \/ NotifyNewDriveMode
        \/ NotifyNewDistanceRead              \/ Advertise
        \/ Blink           \/ ReadCurrentTime \/ CompareElapsedTime
        \/ StopAfterTimeout                   \/ MgmtInCar

-----------------------------------------------------------------------------
(* The radio and the clock. *)

LinkUp ==
  /\ advertising
  /\ link' = TRUE /\ advertising' = FALSE
  /\ inbox' = Append(inbox, ConnectEvent)
  /\ notified' = 0
  /\ UNCHANGED <<carVars, contextVars, mgmtVars, btVars, setup, now>>

ClientWrite ==
  /\ link
  /\ Len(inbox) < QueueBound
  /\ \E write \in ClientWrites : inbox' = Append(inbox, WriteEvent(write))
  /\ UNCHANGED <<carVars, contextVars, link, advertising, notified,
                 mgmtVars, btVars, setup, now>>

\* The client leaves, dies or drives out of range.
LinkDown ==
  /\ link
  /\ link' = FALSE
  /\ inbox' = Append(inbox, DisconnectEvent)
  /\ UNCHANGED <<carVars, contextVars, advertising, notified,
                 mgmtVars, btVars, setup, now>>

Tick ==
  /\ now' = (now + 1) % ClockRange
  /\ UNCHANGED <<carVars, contextVars, radioVars, mgmtVars, btVars, setup>>

Environment == LinkUp \/ ClientWrite \/ LinkDown \/ Tick

Next == Setup \/ Bt \/ Mgmt \/ Environment

Spec == Init /\ [][Next]_vars

\* Every task gets to run: the scheduler of FreeRTOS shares the processors
\* among tasks of one priority and no task here spins.  Nothing is assumed of
\* the client, the link or the clock.
Fairness == WF_vars(Setup) /\ WF_vars(Bt) /\ WF_vars(Mgmt)

FairSpec == Spec /\ Fairness

-----------------------------------------------------------------------------
Events == {ConnectEvent, DisconnectEvent} \cup {WriteEvent(w) : w \in ClientWrites}

TypeOK ==
  /\ CarTypeOK
  /\ deviceConnected \in BOOLEAN
  /\ disconnectionTime \in 0 .. ClockRange - 1
  /\ btAt \in BtPlaces
  /\ amount \in Amounts \cup {0}
  /\ mgmtAt \in MgmtPlaces
  /\ tmpMode \in DriveModes
  /\ currentTime \in 0 .. ClockRange - 1
  /\ setup \in SetupSteps
  /\ link \in BOOLEAN
  /\ advertising \in BOOLEAN
  /\ inbox \in Seq(Events)
  /\ notified \in DriveModes \cup {0}
  /\ now \in 0 .. ClockRange - 1

Halted == drive = Off /\ steer = Off

\* Once onDisconnect has returned, and until the next onConnect, both motors
\* are without power, whatever command of the lost client was still under way
\* and whatever the two tasks, which both stop the car, wrote in between.
HaltedWhenClosed == (~deviceConnected /\ Ready(bt)) => Halted

\* A car that offers itself to the next client stands still, even if the
\* callback of the loss is still inside Car (Advertise comes after the stop
\* of the connectivity task, not after that of the callback).
AdvertisedCarStandsStill == advertising => Halted

\* The stop the connectivity task gives after a session hits no other client:
\* until it has called Advertise nobody can connect.
LateStopHitsNobody ==
  mgmtAt = "advertise" => ~deviceConnected /\ ~link /\ ~advertising

\* The task is created before the server and the characteristics, and never
\* uses them before the constructor has set them (BLEManager::BLEManager).
TaskUsesInitialisedServer ==
  mgmtAt \in {"notify", "sample", "advertise"} => setup = "done"

\* What tmp_drive_mode holds is what this client was last told: a session
\* never inherits the comparison value of an earlier one.
ReportIsOfThisSession ==
  (link /\ mgmtAt \in {"inner", "read", "sample"} /\ tmpMode # InitialConenction)
    => notified = tmpMode

\* A lost link brings the car to a halt.
LostLinkHalts == (deviceConnected /\ ~link) ~> (~deviceConnected /\ Halted)

\* A session the connectivity task has noticed ends in advertising again.
NoticedSessionEndsInAdvertising ==
  (mgmtAt \in SessionPlaces /\ ~deviceConnected) ~> advertising

\* A drive mode the car stays in is reported to a client that stays, if the
\* connectivity task has noticed it or not yet ("Send new drive mode back to
\* Client").
ModeIsReported ==
  \A mode \in CarModes :
    (link /\ m_Mode = mode) ~> (notified = mode \/ m_Mode # mode \/ ~link)

\* The firmware implements DeadMan: a session is closing until onDisconnect
\* has returned.
Watch == INSTANCE DeadMan WITH
  session <- IF deviceConnected THEN "open"
             ELSE IF Ready(bt) THEN "closed" ELSE "closing",
  moving  <- ~Halted

ImplementsDeadMan == Watch!Spec

-----------------------------------------------------------------------------
(***************************************************************************)
(* Why the safety properties hold: the inductive invariant of the proofs.  *)
(***************************************************************************)

\* Task t is in SetDriveMode(DisconnectionStop), and what it has written so
\* far still holds.
Stopping(t) ==
  /\ call[t].mode = DisconnectionStop /\ call[t].side = "none"
  /\ call[t].step \in {"mode", "pin1", "pin2", "zero1", "zero2"}

StopHolds(t) ==
  /\ call[t].step = "pin2" => drive.Pin1 = "LOW"
  /\ call[t].step \in {"zero1", "zero2"} => drive = Off
  /\ call[t].step = "zero2" => steer.Pin1 = "LOW"

HaltedBy(t) == IF Ready(t) THEN Halted ELSE Stopping(t) /\ StopHolds(t)

\* Without a client bt is in no callback but the end of onDisconnect.
ClosedByCallback == ~deviceConnected => btAt = "idle" /\ HaltedBy(bt)

\* mgmt never does anything to the car but stop it.
TaskOnlyStops == Ready(mgmt) \/ Stopping(mgmt)

\* A link's events come connect first, disconnect last.
EventOrder ==
  /\ \A i \in 1 .. Len(inbox) :
       /\ inbox[i].event = "connect" => i = 1 /\ ~deviceConnected
       /\ inbox[i].event = "disconnect" => i = Len(inbox) /\ ~link
  /\ (~deviceConnected /\ inbox # <<>>) => inbox[1].event = "connect"
  /\ link => deviceConnected \/ inbox # <<>>
  /\ btAt = "drop" => deviceConnected /\ inbox = <<>> /\ ~link

NoClientAtAll == ~deviceConnected /\ ~link /\ inbox = <<>>

AdvertisingAlone == advertising => NoClientAtAll /\ Halted

\* A session mgmt is in is over for good once DeviceConnected is false.
TaskInSession ==
  /\ mgmtAt \in SessionPlaces => ~advertising /\ (deviceConnected \/ NoClientAtAll)
  /\ mgmtAt = "advertise" => NoClientAtAll /\ HaltedBy(mgmt)

SetupFirst ==
  setup # "done" => /\ NoClientAtAll /\ ~advertising /\ Ready(bt)
                    /\ mgmtAt \notin SessionPlaces

\* Together: at every moment the queue, the flag, the radio and the places of
\* the two tasks agree on which session it is, and whichever task is stopping
\* the car, nothing it has already switched off is on again.
SessionInv ==
  /\ ClosedByCallback /\ TaskOnlyStops /\ EventOrder /\ AdvertisingAlone
  /\ TaskInSession /\ SetupFirst /\ ReportIsOfThisSession

-----------------------------------------------------------------------------
(* What comments and messages of the source say, and the runs refute. *)

\* onDisconnect says "Restarting advertising": a car without a client comes to
\* advertise again.
RestartsAdvertising == (setup = "done" /\ ~link) ~> advertising

\* A completed stop has turned off the driveshaft ("Stops the car, turn off
\* driveshaft power"): a settled car in DisconnectionStop does not drive.
StopTurnsOffDriveshaft ==
  (Settled /\ m_Mode = DisconnectionStop) => drive = Off
=============================================================================

-------------------------------- MODULE Car --------------------------------
(***************************************************************************)
(* The car itself: class car::Car of BLERCcar_server/Car.hpp with the two  *)
(* motors of Motor.hpp, as the tasks that call it see it.                  *)
(*                                                                         *)
(* A method of Car is not atomic.  It writes the mode, two direction pins  *)
(* and a PWM duty one after the other, without a lock, and two tasks of    *)
(* the firmware call it.  Every such write is an action here; call[t] is   *)
(* the frame of the method task t is in: the write it makes next and the   *)
(* arguments it was called with.                                           *)
(***************************************************************************)
EXTENDS Packets

CONSTANTS
  Tasks,    \* the tasks that may be inside a method of Car
  Amounts   \* the percentages they pass: one unsigned byte each

ASSUME AmountsAssumption == Amounts \subseteq Bytes

VARIABLES
  m_Mode,      \* Car::m_Mode
  drive,       \* levels of m_DriveShaft.Pin1 and Pin2
  steer,       \* levels of m_Steering.Pin1 and Pin2
  driveDuty,   \* m_DriveShaft.m_Pwmduty, as given to ledcWrite
  steerDuty,   \* m_Steering.m_Pwmduty, as given to ledcWrite
  call         \* the method each task is in

carVars == <<m_Mode, drive, steer, driveDuty, steerDuty, call>>

-----------------------------------------------------------------------------
MIN_PWM == 150
MAX_PWM == 255

\* Mutant of DutyCycle: the target range is not narrowed by its lower end.
DutyCycle_Wide(percentage) == (percentage * MAX_PWM) \div 100 + MIN_PWM

\* Motor::speedPercentageToDutyCycle, with the integer map() of Arduino.
DutyCycle(percentage) ==
  (percentage * (MAX_PWM - MIN_PWM)) \div 100 + MIN_PWM

Off     == [Pin1 |-> "LOW",  Pin2 |-> "LOW"]
Ahead   == [Pin1 |-> "LOW",  Pin2 |-> "HIGH"]
Reverse == [Pin1 |-> "HIGH", Pin2 |-> "LOW"]
PinPair == [Pin1 : {"LOW", "HIGH"}, Pin2 : {"LOW", "HIGH"}]

\* The drive pins SetDriveMode(mode) writes: moveForward, moveBackward, stop.
DrivePins(mode) ==
  CASE mode = Forward  -> Ahead
    [] mode = Backward -> Reverse
    [] OTHER           -> Off

\* The steering pins TurnLeft and TurnRight write.
SteerPins(side) == IF side = "left" THEN Reverse ELSE Ahead

Sides == {"left", "right"}
Steps == {"ready", "mode", "pin1", "pin2", "zero1", "zero2",
          "speed", "duty", "steerDuty", "turn1", "turn2"}
Frames == [step : Steps, mode : DriveModes, percentage : Amounts \cup {0},
           side : Sides \cup {"none"}]

Returned == [step |-> "ready", mode |-> Stop, percentage |-> 0, side |-> "none"]

Ready(t) == call[t].step = "ready"

-----------------------------------------------------------------------------
(***************************************************************************)
(* Entering a method.  zeroSteer is the part TurnLeft(0), TurnRight(0) and *)
(* stop(true) share.                                                       *)
(***************************************************************************)
SetDriveMode(t, mode) ==
  call' = [call EXCEPT ![t] =
             [Returned EXCEPT !.step = "mode", !.mode = mode]]

SetSpeed(t, speed) ==
  call' = [call EXCEPT ![t] =
             [Returned EXCEPT !.step = "speed", !.percentage = speed]]

Turn(t, side, percentage) ==
  call' = [call EXCEPT ![t] =
             [Returned EXCEPT !.step = IF percentage = 0 THEN "zero1" ELSE "steerDuty",
                              !.percentage = percentage, !.side = side]]

-----------------------------------------------------------------------------
(* The writes, one action each. *)

At(t, step) == call[t].step = step

Continue(t, step) == call' = [call EXCEPT ![t].step = step]
Return(t)         == call' = [call EXCEPT ![t] = Returned]

\* The modes m_Mode takes: the default branch records Stop.
CarModes == {Forward, Backward, Stop, DisconnectionStop}
\* Mutant of RecordedMode: the default branch forgets to record Stop.
RecordedMode_AsAsked(mode) == mode

RecordedMode(mode) == IF mode \in CarModes THEN mode ELSE Stop

WriteMode(t) ==
  /\ At(t, "mode")
  /\ m_Mode' = RecordedMode(call[t].mode)
  /\ Continue(t, "pin1")
  /\ UNCHANGED <<drive, steer, driveDuty, steerDuty>>

\* Mutant of WriteDrivePin1: stop only lowers Pin2.
WriteDrivePin1_NotOnStop(t) ==
  /\ At(t, "pin1")
  /\ drive' = IF DrivePins(call[t].mode) = Off THEN drive
              ELSE [drive EXCEPT !.Pin1 = DrivePins(call[t].mode).Pin1]
  /\ Continue(t, "pin2")
  /\ UNCHANGED <<m_Mode, steer, driveDuty, steerDuty>>

WriteDrivePin1(t) ==
  /\ At(t, "pin1")
  /\ drive' = [drive EXCEPT !.Pin1 = DrivePins(call[t].mode).Pin1]
  /\ Continue(t, "pin2")
  /\ UNCHANGED <<m_Mode, steer, driveDuty, steerDuty>>

\* DisconnectionStop and the default branch go on to align the wheels.
WriteDrivePin2(t) ==
  /\ At(t, "pin2")
  /\ drive' = [drive EXCEPT !.Pin2 = DrivePins(call[t].mode).Pin2]
  /\ IF call[t].mode \in {Forward, Backward, Stop}
     THEN Return(t) ELSE Continue(t, "zero1")
  /\ UNCHANGED <<m_Mode, steer, driveDuty, steerDuty>>

ZeroSteerPin1(t) ==
  /\ At(t, "zero1")
  /\ steer' = [steer EXCEPT !.Pin1 = "LOW"]
  /\ Continue(t, "zero2")
  /\ UNCHANGED <<m_Mode, drive, driveDuty, steerDuty>>

\* zeroSteer returns to stop, which is done, or to a turn, which goes on.
ZeroSteerPin2(t) ==
  /\ At(t, "zero2")
  /\ steer' = [steer EXCEPT !.Pin2 = "LOW"]
  /\ IF call[t].side = "none" THEN Return(t) ELSE Continue(t, "steerDuty")
  /\ UNCHANGED <<m_Mode, drive, driveDuty, steerDuty>>

\* SetSpeed reads the mode and gives up on a stopped car ...
CheckStopped(t) ==
  /\ At(t, "speed")
  /\ IF m_Mode = Stop THEN Return(t) ELSE Continue(t, "duty")
  /\ UNCHANGED <<m_Mode, drive, steer, driveDuty, steerDuty>>

\* ... and otherwise sets the duty of the drive shaft.
\* Mutant of WriteDriveDuty: the percentage is written as the duty.
WriteDriveDuty_Raw(t) ==
  /\ At(t, "duty")
  /\ driveDuty' = call[t].percentage
  /\ Return(t)
  /\ UNCHANGED <<m_Mode, drive, steer, steerDuty>>

WriteDriveDuty(t) ==
  /\ At(t, "duty")
  /\ driveDuty' = DutyCycle(call[t].percentage)
  /\ Return(t)
  /\ UNCHANGED <<m_Mode, drive, steer, steerDuty>>

WriteSteerDuty(t) ==
  /\ At(t, "steerDuty")
  /\ steerDuty' = DutyCycle(call[t].percentage)
  /\ Continue(t, "turn1")
  /\ UNCHANGED <<m_Mode, drive, steer, driveDuty>>

WriteSteerPin1(t) ==
  /\ At(t, "turn1")
  /\ steer' = [steer EXCEPT !.Pin1 = SteerPins(call[t].side).Pin1]
  /\ Continue(t, "turn2")
  /\ UNCHANGED <<m_Mode, drive, driveDuty, steerDuty>>

\* Mutant of WriteSteerPin2: a turn raises its pin and lowers none.
WriteSteerPin2_RaiseOnly(t) ==
  /\ At(t, "turn2")
  /\ steer' = IF call[t].side = "left" THEN steer ELSE [steer EXCEPT !.Pin2 = "HIGH"]
  /\ Return(t)
  /\ UNCHANGED <<m_Mode, drive, driveDuty, steerDuty>>

WriteSteerPin2(t) ==
  /\ At(t, "turn2")
  /\ steer' = [steer EXCEPT !.Pin2 = SteerPins(call[t].side).Pin2]
  /\ Return(t)
  /\ UNCHANGED <<m_Mode, drive, driveDuty, steerDuty>>

CarStep(t) ==
  \/ WriteMode(t)      \/ WriteDrivePin1(t) \/ WriteDrivePin2(t)
  \/ ZeroSteerPin1(t)  \/ ZeroSteerPin2(t)
  \/ CheckStopped(t)   \/ WriteDriveDuty(t)
  \/ WriteSteerDuty(t) \/ WriteSteerPin1(t) \/ WriteSteerPin2(t)

\* The car as its constructor leaves it: both duties at MIN_PWM, the output
\* pins at their reset level.
CarInit ==
  /\ m_Mode = Stop
  /\ drive = Off
  /\ steer = Off
  /\ driveDuty = MIN_PWM
  /\ steerDuty = MIN_PWM
  /\ call = [t \in Tasks |-> Returned]

-----------------------------------------------------------------------------
(* The car alone, under any sequence of calls. *)

CallSetDriveMode(t) ==
  /\ Ready(t)
  /\ \E mode \in DriveModes : SetDriveMode(t, mode)
  /\ UNCHANGED <<m_Mode, drive, steer, driveDuty, steerDuty>>

CallSetSpeed(t) ==
  /\ Ready(t)
  /\ \E speed \in Amounts : SetSpeed(t, speed)
  /\ UNCHANGED <<m_Mode, drive, steer, driveDuty, steerDuty>>

CallTurn(t) ==
  /\ Ready(t)
  /\ \E side \in Sides, percentage \in Amounts : Turn(t, side, percentage)
  /\ UNCHANGED <<m_Mode, drive, steer, driveDuty, steerDuty>>

CarNext ==
  \E t \in Tasks :
    CarStep(t) \/ CallSetDriveMode(t) \/ CallSetSpeed(t) \/ CallTurn(t)

CarSpec == CarInit /\ [][CarNext]_carVars

-----------------------------------------------------------------------------
\* Every byte is accepted as a percentage, so a duty may pass MAX_PWM.
CarTypeOK ==
  /\ m_Mode \in CarModes
  /\ drive \in PinPair
  /\ steer \in PinPair
  /\ driveDuty \in MIN_PWM .. DutyCycle(255)
  /\ steerDuty \in MIN_PWM .. DutyCycle(255)
  /\ call \in [Tasks -> Frames]

Settled == \A t \in Tasks : Ready(t)

\* Between calls the drive pins are those of the mode the car reports: what
\* CurrentDriveMode answers is what the wheels do (SetDriveMode, stop,
\* moveForward and moveBackward).
ModeTellsMotion == Settled => drive = DrivePins(m_Mode)

\* Between calls the steering motor is pushed one way or not at all, in
\* whatever order turns and stops came: TurnLeft after TurnRight passes through
\* both pins HIGH, and stop(true) may come between any two turns.
SteeredOneWay == Settled => steer \in {Off, Ahead, Reverse}

\* Both duties stay within the range the PWM channel takes, and leave it only for an
\* amount that is no percentage: any byte is taken for one
\* (Motor::speedPercentageToDutyCycle).
DutyInRange ==
  \A duty \in {driveDuty, steerDuty} :
    /\ duty >= MIN_PWM
    /\ duty > MAX_PWM => \E amount \in Amounts : amount > 100 /\ duty = DutyCycle(amount)
=============================================================================

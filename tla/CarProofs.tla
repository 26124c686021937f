----------------------------- MODULE CarProofs -----------------------------
(***************************************************************************)
(* Proofs about the car alone: the type of its state, for any number of    *)
(* callers, and what a single caller may rely on.                          *)
(***************************************************************************)
EXTENDS Car, TLAPS

(***************************************************************************)
(* Motor.                                                                  *)
(***************************************************************************)

\* A percentage, a byte that is one or not, becomes a duty of known bounds
\* (speedPercentageToDutyCycle).
LEMMA DutyCycleBounds ==
  ASSUME NEW percentage \in Bytes
  PROVE  /\ DutyCycle(percentage) \in MIN_PWM .. DutyCycle(255)
         /\ percentage <= 100 => DutyCycle(percentage) \in MIN_PWM .. MAX_PWM
BY DEF DutyCycle, MIN_PWM, MAX_PWM, Bytes

\* A larger percentage never means a smaller duty.
LEMMA DutyCycleMonotone ==
  ASSUME NEW low \in Bytes, NEW high \in Bytes, low <= high
  PROVE  DutyCycle(low) <= DutyCycle(high)
BY DEF DutyCycle, MIN_PWM, MAX_PWM, Bytes

-----------------------------------------------------------------------------
(***************************************************************************)
(* The type of the state.                                                  *)
(***************************************************************************)

LEMMA ModeSets ==
  /\ CarModes \subseteq DriveModes
  /\ \A mode \in DriveModes : RecordedMode(mode) \in CarModes
  /\ \A mode : DrivePins(mode) \in {Off, Ahead, Reverse}
  /\ \A side : SteerPins(side) \in {Ahead, Reverse}
  /\ {Off, Ahead, Reverse} \subseteq PinPair
BY DEF CarModes, DriveModes, RecordedMode, DrivePins, SteerPins, PinPair,
       Off, Ahead, Reverse, Forward, Backward, Stop, DisconnectionStop

\* A frame that goes on to another write, or returns, is a frame.
LEMMA FrameMoves ==
  ASSUME CarTypeOK, NEW t \in Tasks
  PROVE  /\ Return(t) => call' \in [Tasks -> Frames]
         /\ \A step \in Steps : Continue(t, step) => call' \in [Tasks -> Frames]
BY DEF CarTypeOK, Return, Continue, Frames, Returned, Steps, DriveModes, Stop

\* Entering a method with legal arguments gives a frame.
LEMMA FrameStarts ==
  ASSUME CarTypeOK, NEW t \in Tasks
  PROVE  /\ \A mode \in DriveModes : SetDriveMode(t, mode) => call' \in [Tasks -> Frames]
         /\ \A speed \in Amounts \cup {0} : SetSpeed(t, speed) => call' \in [Tasks -> Frames]
         /\ \A side \in Sides, percentage \in Amounts \cup {0} :
              Turn(t, side, percentage) => call' \in [Tasks -> Frames]
<1>1. call \in [Tasks -> Frames]
  BY DEF CarTypeOK
<1>2. ASSUME NEW frame \in Frames
      PROVE  [call EXCEPT ![t] = frame] \in [Tasks -> Frames]
  BY <1>1
<1>3. ASSUME NEW mode \in DriveModes, SetDriveMode(t, mode)
      PROVE  call' \in [Tasks -> Frames]
  <2>1. [Returned EXCEPT !.step = "mode", !.mode = mode] \in Frames
    BY DEF Returned, Frames, Steps
  <2>. QED
    BY <1>2, <1>3, <2>1 DEF SetDriveMode
<1>4. ASSUME NEW speed \in Amounts \cup {0}, SetSpeed(t, speed)
      PROVE  call' \in [Tasks -> Frames]
  <2>1. [Returned EXCEPT !.step = "speed", !.percentage = speed] \in Frames
    BY ModeSets DEF Returned, Frames, Steps, CarModes
  <2>. QED
    BY <1>2, <1>4, <2>1 DEF SetSpeed
<1>5. ASSUME NEW side \in Sides, NEW percentage \in Amounts \cup {0},
             Turn(t, side, percentage)
      PROVE  call' \in [Tasks -> Frames]
  <2>1. ASSUME NEW step \in {"zero1", "steerDuty"}
        PROVE  [Returned EXCEPT !.step = step, !.percentage = percentage,
                                !.side = side] \in Frames
    BY <2>1, ModeSets DEF Returned, Frames, Steps, CarModes
  <2>. QED
    BY <1>2, <1>5, <2>1 DEF Turn
<1>. QED
  BY <1>3, <1>4, <1>5

\* One write of any method of Car preserves the type of its state.
LEMMA CarStepType ==
  ASSUME CarTypeOK, NEW t \in Tasks, CarStep(t)
  PROVE  CarTypeOK'
<1>1. call[t] \in Frames
  BY DEF CarTypeOK
<1>2. /\ call[t].mode \in DriveModes
      /\ call[t].percentage \in Bytes
  <2>1. call[t].mode \in DriveModes /\ call[t].percentage \in Amounts \cup {0}
    BY <1>1 DEF Frames
  <2>2. 0 \in Bytes
    BY DEF Bytes
  <2>. QED
    BY <2>1, <2>2, AmountsAssumption
<1>3. /\ DrivePins(call[t].mode) \in PinPair
      /\ SteerPins(call[t].side) \in PinPair
      /\ RecordedMode(call[t].mode) \in CarModes
  BY <1>2, ModeSets
<1>4. DutyCycle(call[t].percentage) \in MIN_PWM .. DutyCycle(255)
  BY <1>2, DutyCycleBounds
<1>5. \A pins \in PinPair, level \in {"LOW", "HIGH"} :
         /\ [pins EXCEPT !.Pin1 = level] \in PinPair
         /\ [pins EXCEPT !.Pin2 = level] \in PinPair
  BY DEF PinPair
<1>6. \A pins \in PinPair : pins.Pin1 \in {"LOW", "HIGH"} /\ pins.Pin2 \in {"LOW", "HIGH"}
  BY DEF PinPair
<1>7. CASE WriteMode(t)
  BY <1>7, <1>3, FrameMoves DEF WriteMode, CarTypeOK, Steps
<1>8. CASE WriteDrivePin1(t)
  BY <1>8, <1>3, <1>5, <1>6, FrameMoves DEF WriteDrivePin1, CarTypeOK, Steps
<1>9. CASE WriteDrivePin2(t)
  BY <1>9, <1>3, <1>5, <1>6, FrameMoves DEF WriteDrivePin2, CarTypeOK, Steps
<1>10. CASE ZeroSteerPin1(t)
  BY <1>10, <1>5, FrameMoves DEF ZeroSteerPin1, CarTypeOK, Steps
<1>11. CASE ZeroSteerPin2(t)
  BY <1>11, <1>5, FrameMoves DEF ZeroSteerPin2, CarTypeOK, Steps
<1>12. CASE CheckStopped(t)
  BY <1>12, FrameMoves DEF CheckStopped, CarTypeOK, Steps
<1>13. CASE WriteDriveDuty(t)
  BY <1>13, <1>4, FrameMoves DEF WriteDriveDuty, CarTypeOK
<1>14. CASE WriteSteerDuty(t)
  BY <1>14, <1>4, FrameMoves DEF WriteSteerDuty, CarTypeOK, Steps
<1>15. CASE WriteSteerPin1(t)
  BY <1>15, <1>3, <1>5, <1>6, FrameMoves DEF WriteSteerPin1, CarTypeOK, Steps
<1>16. CASE WriteSteerPin2(t)
  BY <1>16, <1>3, <1>5, <1>6, FrameMoves DEF WriteSteerPin2, CarTypeOK, Steps
<1>. QED
  BY <1>7, <1>8, <1>9, <1>10, <1>11, <1>12, <1>13, <1>14, <1>15, <1>16 DEF CarStep

LEMMA CarInitType == CarInit => CarTypeOK
BY DEF CarInit, CarTypeOK, CarModes, PinPair, Off, MIN_PWM, MAX_PWM, DutyCycle,
       Frames, Returned, Steps, DriveModes, Stop

\* The type invariant of the car, whatever tasks call it and whatever bytes
\* they pass as percentages.
THEOREM CarTypeCorrect == CarSpec => []CarTypeOK
<1>1. CarTypeOK /\ [CarNext]_carVars => CarTypeOK'
  <2>. SUFFICES ASSUME CarTypeOK, [CarNext]_carVars
                PROVE  CarTypeOK'
    OBVIOUS
  <2>1. CASE UNCHANGED carVars
    BY <2>1 DEF carVars, CarTypeOK
  <2>2. CASE CarNext
    <3>1. PICK t \in Tasks :
            CarStep(t) \/ CallSetDriveMode(t) \/ CallSetSpeed(t) \/ CallTurn(t)
      BY <2>2 DEF CarNext
    <3>2. CASE CarStep(t)
      BY <3>2, CarStepType
    <3>3. CASE CallSetDriveMode(t)
      BY <3>3, FrameStarts DEF CallSetDriveMode, CarTypeOK
    <3>4. CASE CallSetSpeed(t)
      BY <3>4, FrameStarts DEF CallSetSpeed, CarTypeOK
    <3>5. CASE CallTurn(t)
      BY <3>5, FrameStarts DEF CallTurn, CarTypeOK
    <3>. QED
      BY <3>1, <3>2, <3>3, <3>4, <3>5
  <2>. QED
    BY <2>1, <2>2
<1>. QED
  BY CarInitType, <1>1, PTL DEF CarSpec

\* Whoever asks, and whatever bytes, a duty leaves the range of the PWM channel only for
\* an amount above 100 (Motor::setSpeed).
THEOREM DutyInRangeHolds == CarSpec => []DutyInRange
<1> DEFINE Allowed(duty) ==
      /\ duty >= MIN_PWM
      /\ duty > MAX_PWM => \E amount \in Amounts : amount > 100 /\ duty = DutyCycle(amount)
<1>1. Allowed(MIN_PWM)
  BY DEF MIN_PWM, MAX_PWM
<1>2. ASSUME NEW percentage \in Amounts \cup {0}
      PROVE  Allowed(DutyCycle(percentage))
  <2>1. 0 \in Bytes /\ 0 <= 100
    BY DEF Bytes
  <2>2. percentage \in Bytes /\ (percentage = 0 => percentage <= 100)
    BY <2>1, AmountsAssumption
  <2>3. /\ DutyCycle(percentage) \in MIN_PWM .. DutyCycle(255)
        /\ percentage <= 100 => DutyCycle(percentage) \in MIN_PWM .. MAX_PWM
    BY <2>2, DutyCycleBounds
  <2>4. CASE percentage <= 100
    BY <2>3, <2>4 DEF MIN_PWM, MAX_PWM
  <2>5. CASE ~(percentage <= 100)
    <3>1. percentage \in Amounts /\ percentage > 100
      BY <2>2, <2>5 DEF Bytes
    <3>2. DutyCycle(percentage) >= MIN_PWM
      BY <2>3 DEF MIN_PWM
    <3>. QED
      BY <3>1, <3>2
  <2>. QED
    BY <2>4, <2>5
<1>3. DutyInRange <=> Allowed(driveDuty) /\ Allowed(steerDuty)
  BY DEF DutyInRange
<1>4. DutyInRange' <=> Allowed(driveDuty') /\ Allowed(steerDuty')
  BY DEF DutyInRange, MIN_PWM, MAX_PWM, DutyCycle
<1>. HIDE DEF Allowed
<1>5. CarInit => DutyInRange
  BY <1>1, <1>3 DEF CarInit
<1>6. CarTypeOK /\ DutyInRange /\ [CarNext]_carVars => DutyInRange'
  <2>. SUFFICES ASSUME CarTypeOK, DutyInRange, [CarNext]_carVars
                PROVE  Allowed(driveDuty') /\ Allowed(steerDuty')
    BY <1>4
  <2>1. Allowed(driveDuty) /\ Allowed(steerDuty)
    BY <1>3
  <2>2. CASE UNCHANGED carVars
    BY <2>1, <2>2 DEF carVars
  <2>3. CASE CarNext
    <3>1. PICK t \in Tasks :
            CarStep(t) \/ CallSetDriveMode(t) \/ CallSetSpeed(t) \/ CallTurn(t)
      BY <2>3 DEF CarNext
    <3>2. call[t].percentage \in Amounts \cup {0}
      BY DEF CarTypeOK, Frames
    <3>3. Allowed(DutyCycle(call[t].percentage))
      BY <1>2, <3>2
    <3>4. CASE CarStep(t)
      BY <3>4, <3>3, <2>1 DEF CarStep, WriteMode, WriteDrivePin1, WriteDrivePin2,
         ZeroSteerPin1, ZeroSteerPin2, CheckStopped, WriteDriveDuty,
         WriteSteerDuty, WriteSteerPin1, WriteSteerPin2
    <3>5. CASE CallSetDriveMode(t) \/ CallSetSpeed(t) \/ CallTurn(t)
      BY <3>5, <2>1 DEF CallSetDriveMode, CallSetSpeed, CallTurn
    <3>. QED
      BY <3>1, <3>4, <3>5
  <2>. QED
    BY <2>2, <2>3
<1>. QED
  BY <1>5, <1>6, CarTypeCorrect, PTL DEF CarSpec

-----------------------------------------------------------------------------
(***************************************************************************)
(* What a single caller may rely on.  While it is inside a method the pins *)
(* need not agree with the mode; SingleInv says what holds instead after   *)
(* each write, so that they agree when the method returns.                 *)
(***************************************************************************)
OneCaller == \A t, u \in Tasks : t = u

OneWay == {Off, Ahead, Reverse}

DriveFollows(t) ==
  CASE call[t].step = "pin1" -> m_Mode = RecordedMode(call[t].mode)
    [] call[t].step = "pin2" -> /\ m_Mode = RecordedMode(call[t].mode)
                                /\ drive.Pin1 = DrivePins(call[t].mode).Pin1
    [] OTHER -> drive = DrivePins(m_Mode)

SteerFollows(t) ==
  IF call[t].step = "turn2"
  THEN steer.Pin1 = SteerPins(call[t].side).Pin1
  ELSE steer \in OneWay

SingleInv == \A t \in Tasks : DriveFollows(t) /\ SteerFollows(t)

\* What is recorded for a mode does to the wheels what was asked.
LEMMA RecordedModePins ==
  ASSUME NEW mode \in DriveModes
  PROVE  DrivePins(RecordedMode(mode)) = DrivePins(mode)
BY DEF DrivePins, RecordedMode, CarModes, DriveModes, Forward, Backward, Stop,
       DisconnectionStop

\* Every action of the only caller preserves what it may rely on.
LEMMA SingleStep ==
  ASSUME CarTypeOK, SingleInv, NEW t \in Tasks, Tasks = {t}, CarStep(t)
  PROVE  SingleInv'
<1>1. /\ call \in [Tasks -> Frames] /\ call[t] \in Frames
      /\ call[t].mode \in DriveModes
      /\ drive \in PinPair /\ steer \in PinPair
  BY DEF CarTypeOK, Frames
<1>2. DriveFollows(t) /\ SteerFollows(t)
  BY DEF SingleInv
<1>3. SUFFICES DriveFollows(t)' /\ SteerFollows(t)'
  BY DEF SingleInv
<1>4. \A step : Continue(t, step) => /\ call'[t].step = step
                                     /\ call'[t].mode = call[t].mode
                                     /\ call'[t].side = call[t].side
  BY <1>1 DEF Continue, Frames
<1>5. Return(t) => call'[t].step = "ready"
  BY <1>1 DEF Return, Returned
<1>6. DrivePins(RecordedMode(call[t].mode)) = DrivePins(call[t].mode)
  BY <1>1, RecordedModePins
<1>7. \A pins \in PinPair : pins = [Pin1 |-> pins.Pin1, Pin2 |-> pins.Pin2]
  BY DEF PinPair
<1>8. \A mode : DrivePins(mode) \in PinPair
  BY ModeSets
<1>9. CASE WriteMode(t)
  BY <1>9, <1>2, <1>4 DEF WriteMode, At, DriveFollows, SteerFollows
<1>10. CASE WriteDrivePin1(t)
  BY <1>10, <1>1, <1>2, <1>4 DEF WriteDrivePin1, At, DriveFollows, SteerFollows, PinPair
<1>11. CASE WriteDrivePin2(t)
  <2>1. drive' = DrivePins(call[t].mode)
    BY <1>11, <1>1, <1>2, <1>7, <1>8 DEF WriteDrivePin2, At, DriveFollows, PinPair
  <2>2. drive' = DrivePins(m_Mode')
    BY <2>1, <1>11, <1>2, <1>6 DEF WriteDrivePin2, At, DriveFollows
  <2>3. call'[t].step \in {"ready", "zero1"}
    BY <1>11, <1>4, <1>5 DEF WriteDrivePin2
  <2>. QED
    BY <2>2, <2>3, <1>11, <1>2 DEF WriteDrivePin2, At, DriveFollows, SteerFollows
<1>12. CASE ZeroSteerPin1(t)
  <2>1. steer' \in OneWay
    BY <1>12, <1>1, <1>2 DEF ZeroSteerPin1, At, SteerFollows, OneWay, PinPair,
       Off, Ahead, Reverse
  <2>. QED
    BY <2>1, <1>12, <1>2, <1>4 DEF ZeroSteerPin1, At, DriveFollows, SteerFollows
<1>13. CASE ZeroSteerPin2(t)
  <2>1. steer' \in OneWay
    BY <1>13, <1>1, <1>2 DEF ZeroSteerPin2, At, SteerFollows, OneWay, PinPair,
       Off, Ahead, Reverse
  <2>2. call'[t].step \in {"ready", "steerDuty"}
    BY <1>13, <1>4, <1>5 DEF ZeroSteerPin2
  <2>. QED
    BY <2>1, <2>2, <1>13, <1>2 DEF ZeroSteerPin2, At, DriveFollows, SteerFollows
<1>14. CASE CheckStopped(t)
  <2>1. call'[t].step \in {"ready", "duty"}
    BY <1>14, <1>4, <1>5 DEF CheckStopped
  <2>. QED
    BY <2>1, <1>14, <1>2 DEF CheckStopped, At, DriveFollows, SteerFollows
<1>15. CASE WriteDriveDuty(t)
  BY <1>15, <1>2, <1>5 DEF WriteDriveDuty, At, DriveFollows, SteerFollows
<1>16. CASE WriteSteerDuty(t)
  BY <1>16, <1>2, <1>4 DEF WriteSteerDuty, At, DriveFollows, SteerFollows
<1>17. CASE WriteSteerPin1(t)
  BY <1>17, <1>1, <1>2, <1>4 DEF WriteSteerPin1, At, DriveFollows, SteerFollows, PinPair
<1>18. CASE WriteSteerPin2(t)
  <2>1. steer' = SteerPins(call[t].side)
    BY <1>18, <1>1, <1>2 DEF WriteSteerPin2, At, SteerFollows, SteerPins, PinPair,
       Ahead, Reverse
  <2>. QED
    BY <2>1, <1>18, <1>2, <1>5, ModeSets
    DEF WriteSteerPin2, At, DriveFollows, SteerFollows, OneWay
<1>. QED
  BY <1>9, <1>10, <1>11, <1>12, <1>13, <1>14, <1>15, <1>16, <1>17, <1>18 DEF CarStep

LEMMA SingleCall ==
  ASSUME CarTypeOK, SingleInv, NEW t \in Tasks, Tasks = {t},
         CallSetDriveMode(t) \/ CallSetSpeed(t) \/ CallTurn(t)
  PROVE  SingleInv'
<1>1. call \in [Tasks -> Frames]
  BY DEF CarTypeOK
<1>2. Ready(t) /\ UNCHANGED <<m_Mode, drive, steer>>
  BY DEF CallSetDriveMode, CallSetSpeed, CallTurn
<1>3. call'[t].step \in {"mode", "speed", "zero1", "steerDuty"}
  BY <1>1 DEF CallSetDriveMode, CallSetSpeed, CallTurn, SetDriveMode, SetSpeed, Turn,
     Returned
<1>4. DriveFollows(t)' /\ SteerFollows(t)'
  BY <1>2, <1>3 DEF SingleInv, Ready, DriveFollows, SteerFollows
<1>. QED
  BY <1>4 DEF SingleInv

LEMMA SingleInvariant ==
  ASSUME OneCaller
  PROVE  CarSpec => []SingleInv
<1>1. CarInit => SingleInv
  BY DEF CarInit, SingleInv, DriveFollows, SteerFollows, Returned, DrivePins, OneWay,
     Stop, Forward, Backward
<1>2. CarTypeOK /\ SingleInv /\ [CarNext]_carVars => SingleInv'
  <2>. SUFFICES ASSUME CarTypeOK, SingleInv, [CarNext]_carVars
                PROVE  SingleInv'
    OBVIOUS
  <2>1. CASE UNCHANGED carVars
    BY <2>1 DEF carVars, SingleInv, DriveFollows, SteerFollows
  <2>2. CASE CarNext
    <3>1. PICK t \in Tasks :
            CarStep(t) \/ CallSetDriveMode(t) \/ CallSetSpeed(t) \/ CallTurn(t)
      BY <2>2 DEF CarNext
    <3>2. Tasks = {t}
      BY <3>1 DEF OneCaller
    <3>. QED
      BY <3>1, <3>2, SingleStep, SingleCall
  <2>. QED
    BY <2>1, <2>2
<1>. QED
  BY <1>1, <1>2, CarTypeCorrect, PTL DEF CarSpec

\* For a single caller the wheels do what the reported mode says whenever no
\* method is running.
THEOREM ModeTellsMotionHolds ==
  ASSUME OneCaller, Tasks # {}
  PROVE  CarSpec => []ModeTellsMotion
<1>1. SingleInv => ModeTellsMotion
  BY DEF SingleInv, DriveFollows, ModeTellsMotion, Settled, Ready
<1>. QED
  BY <1>1, SingleInvariant, PTL

\* For a single caller the steering motor is pushed one way or not at all
\* whenever no method is running.
THEOREM SteeredOneWayHolds ==
  ASSUME OneCaller, Tasks # {}
  PROVE  CarSpec => []SteeredOneWay
<1>1. SingleInv => SteeredOneWay
  BY DEF SingleInv, SteerFollows, SteeredOneWay, Settled, Ready, OneWay
<1>. QED
  BY <1>1, SingleInvariant, PTL
=============================================================================

---------------------------- MODULE MCCarServer ----------------------------
(* The firmware with one slow client at a time. *)
EXTENDS CarServer

MCTasks   == {bt, mgmt}
MCAmounts == {0}

DriveWrite(command, pct) ==
  [characteristic |-> "drive", command |-> command, amount |-> pct]
SteerWrite(side, pct) ==
  [characteristic |-> "steer", side |-> side, amount |-> pct]

\* A drive, a stop and a byte that is no drive mode.  No property of this module
\* tells driving backward from driving forward (PacketTrip runs both) or looks at a
\* duty, so one way and one amount are enough, and 0 goes the longer way through a
\* turn.
MCDriveWrites == {DriveWrite(command, 0) : command \in {Forward, Stop, DisconnectionStop}}
\* A turn, a straightening, and a first byte that is neither side.
MCSteerWrites ==
  {SteerWrite("left", 0), SteerWrite("right", 0), SteerWrite("none", 0)}
MCWrites == MCDriveWrites \cup MCSteerWrites

\* Enough to drive and turn; the firmware stops the car by itself.
MCFewWrites == {DriveWrite(Forward, 0), SteerWrite("left", 0)}
\* Enough to drive.
MCOneWrite == {DriveWrite(Forward, 0)}
=============================================================================

---------------------------- MODULE MCPacketTrip ----------------------------
(* Every drive mode, the two letters, and stacks that matter to a string.    *)
EXTENDS PacketTrip, Wire

MCTasks == {bt}
\* 200 is neither a drive mode nor a letter, and negative as a signed char.
MCCommands == [c \in Characteristics |->
  CASE c = "drive" -> DriveModes \cup {200} [] c = "steer" -> {76, 82, 200}
    [] c = "report" -> CarModes]
\* MIN_PWM, MAX_PWM, and the first and the last byte that is no percentage.
MCPercentages == {0, 100, 101, 255}
\* A terminator at once, after other bytes, and none in sight.
MCTails == {<<0>>, <<7, 0>>, <<7, 7>>, <<0, 7>>}
\* Bytes as they are; no wider number travels.
MCWidth == [t \in IntTypes |-> IF t = "BYTE" THEN 8 ELSE 16]
=============================================================================

------------------------------ MODULE DeadMan ------------------------------
(***************************************************************************)
(* What the firmware promises to whoever stands next to the car: it moves  *)
(* only for a client, and when the client is gone it comes to a halt and   *)
(* stays halted until the next one.                                        *)
(***************************************************************************)
VARIABLES
  session,  \* "open": a client commands; "closing": it has been lost;
            \* "closed": the loss has been dealt with
  moving    \* some motor is powered

vars == <<session, moving>>

TypeOK == session \in {"open", "closing", "closed"} /\ moving \in BOOLEAN

Init == session = "closed" /\ moving = FALSE

Open == session = "closed" /\ session' = "open" /\ UNCHANGED moving

\* A client starts and stops the motors as it likes.
Drive == session = "open" /\ moving' \in BOOLEAN /\ UNCHANGED session

Lose == session = "open" /\ session' = "closing" /\ UNCHANGED moving

\* A lost client's car may be halted early ...
Halt == session = "closing" /\ moving' = FALSE /\ UNCHANGED session

\* ... and is halted when the loss has been dealt with.
Close == session = "closing" /\ session' = "closed" /\ moving' = FALSE

Next == Open \/ Drive \/ Lose \/ Halt \/ Close

Safety == Init /\ [][Next]_vars

Spec == Safety /\ WF_vars(Close)
=============================================================================

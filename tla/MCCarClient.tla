---------------------------- MODULE MCCarClient ----------------------------
(* The client program with a car that is lost a few times. *)
EXTENDS CarClient
=============================================================================

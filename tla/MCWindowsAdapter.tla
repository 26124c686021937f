-------------------------- MODULE MCWindowsAdapter --------------------------
(* A device with two services, which sends its services and its data in      *)
(* advertisements and its name in responses.                                 *)
EXTENDS WindowsAdapter

CONSTANT Name

MCGatt == <<2, 0>>
MCAdverts == {[identifier |-> NoName, data |-> {1}, services |-> {1}],
              [identifier |-> Name, data |-> {}, services |-> {}]}
=============================================================================

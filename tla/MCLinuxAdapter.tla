--------------------------- MODULE MCLinuxAdapter ---------------------------
(* A device with one service that has more characteristics than fit.         *)
EXTENDS LinuxAdapter

MCGatt == <<2>>
=============================================================================

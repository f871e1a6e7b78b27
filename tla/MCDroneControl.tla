---------------------------- MODULE MCDroneControl ----------------------------
(***************************************************************************)
(* DroneControl for TLC: connect is given twice, three frames wait at most. *)
(***************************************************************************)
EXTENDS DroneControl
===============================================================================

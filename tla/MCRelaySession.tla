--------------------------- MODULE MCRelaySession ---------------------------
(***************************************************************************)
(* RelaySession for TLC: two clients that write on two sockets to the      *)
(* drone, the one that is open and the one that is opened next.            *)
(***************************************************************************)
EXTENDS RelaySession, TLC
=============================================================================

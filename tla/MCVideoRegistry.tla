--------------------------- MODULE MCVideoRegistry ---------------------------
(***************************************************************************)
(* VideoRegistry for TLC: one receiver, since none depends on another, and *)
(* a call of on_packet that lasts longer than the times leave.             *)
(***************************************************************************)
EXTENDS VideoRegistry
=============================================================================

--------------------------- MODULE MCClientProgram ---------------------------
(***************************************************************************)
(* ClientProgram for TLC: two statuses, two frames on their way.           *)
(***************************************************************************)
EXTENDS ClientProgram
=============================================================================

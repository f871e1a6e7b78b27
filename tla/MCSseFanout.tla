----------------------------- MODULE MCSseFanout -----------------------------
(***************************************************************************)
(* SseFanout for TLC: two pages with short queues.                         *)
(***************************************************************************)
EXTENDS SseFanout, TLC

CONSTANTS p1, p2

Pages == {p1, p2}
=============================================================================

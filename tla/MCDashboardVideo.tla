-------------------------- MODULE MCDashboardVideo --------------------------
(***************************************************************************)
(* DashboardVideo for TLC: two pages, or one.                              *)
(*                                                                         *)
(* PagesOrSets keeps the graph small enough for liveness: two pages watch, *)
(* or one page watches and the drone goes over to new parameter sets.      *)
(***************************************************************************)
EXTENDS DashboardVideo, TLC

CONSTANTS p1, p2

Pages == {p1, p2}
One   == {p1}

OnlyOne == hpc[p2] = "off" /\ codec[p2] = NoPair /\ dec[p2] = NONE

PagesOrSets == Next /\ (version' > 1 => OnlyOne')

PagesOrSetsSpec ==
    /\ Init /\ [][PagesOrSets]_vars
    /\ Flows
    /\ \A c \in Clients : WF_vars(StallEnds(c))
=============================================================================

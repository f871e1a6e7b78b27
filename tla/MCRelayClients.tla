--------------------------- MODULE MCRelayClients ---------------------------
(***************************************************************************)
(* RelayClients for TLC.  Two clients, their slots used again without      *)
(* bound: one is greeted while the other is told a change or taken off the *)
(* list.  BesideSpec keeps the graph small enough for liveness: the second *)
(* one only connects beside the first, and stalls for good if it stalls.   *)
(***************************************************************************)
EXTENDS RelayClients, TLC

CONSTANTS c1, c2

Both == {c1, c2}

Symmetry == Permutations(Both)

Beside == /\ Next
          /\ csock'[c2] = "backlog" => csock[c2] = "backlog" \/ c1 \in clients
          /\ csock'[c2] # "closed" => <<peer[c2], peer'[c2]>> \in
               {<<"gone", "up">>, <<"up", "up">>, <<"up", "stalled">>, <<"stalled", "stalled">>}

BesideSpec == Init /\ [][Beside]_vars /\ Fairness
=============================================================================

--------------------------- MODULE RelayLifecycle ---------------------------
(***************************************************************************)
(* What the relay promises about its connection to the drone, abstractly:  *)
(* it holds at most one connection, serves clients (READY) only over a     *)
(* connection that went through the whole handshake, and has released the  *)
(* connection before it starts scanning again.  RelaySession implements    *)
(* this specification.                                                     *)
(***************************************************************************)
EXTENDS RelayState

VARIABLES state,  \* the relay's state, as clients are told it
          conn    \* the connection to the drone: "none", "opening" (some part
                  \* of the handshake is still to come), "live" (all of it is
                  \* done) or "lost" (closed, the fall back still to come)

vars == <<state, conn>>

Init == state = SCANNING /\ conn = "none"

\* The drone's access point is seen by a scan.
SeeDrone == /\ state = SCANNING
            /\ state' = WIFI_CONNECTING
            /\ UNCHANGED conn

\* The network interface is associated with the drone's access point.
Associate == /\ state \in {SCANNING, WIFI_CONNECTING}
             /\ state' = DRONE_CONNECTING
             /\ UNCHANGED conn

LoseWifi == /\ state = WIFI_CONNECTING
            /\ state' = SCANNING
            /\ UNCHANGED conn

Dial == /\ state = DRONE_CONNECTING
        /\ conn = "none"
        /\ conn' = "opening"
        /\ UNCHANGED state

\* The handshake's last step and the change to READY are one step: nothing can
\* be served over a connection that is still opening.
Establish == /\ state = DRONE_CONNECTING
             /\ conn = "opening"
             /\ state' = READY
             /\ conn' = "live"

\* A connection, or the attempt to open one, is given up.
Drop == /\ \/ state = DRONE_CONNECTING /\ conn \in {"none", "opening"}
           \/ state = READY /\ conn = "live"
        /\ conn' = "lost"
        /\ UNCHANGED state

FallBack == /\ conn = "lost"
            /\ state' = SCANNING
            /\ conn' = "none"

Next == \/ SeeDrone \/ Associate \/ LoseWifi
        \/ Dial \/ Establish \/ Drop \/ FallBack

Spec == Init /\ [][Next]_vars
=============================================================================

----------------------------- MODULE RelayState -----------------------------
(***************************************************************************)
(* The states of the relay (class RelayState of relay/relay.py) and the    *)
(* changes of state its handlers can make, shared by every module that     *)
(* speaks about the relay's state.                                         *)
(***************************************************************************)

SCANNING         == "scanning"
WIFI_CONNECTING  == "wifi_connecting"
DRONE_CONNECTING == "drone_connecting"
READY            == "ready"

RelayStates == {SCANNING, WIFI_CONNECTING, DRONE_CONNECTING, READY}

\* The pairs <<old, new>> some handler passes to _set_state.
Edges == { <<SCANNING, WIFI_CONNECTING>>,         \* _do_scanning: SSID found
           <<SCANNING, DRONE_CONNECTING>>,        \* _do_scanning: associated
           <<WIFI_CONNECTING, DRONE_CONNECTING>>, \* _do_wifi_connect: success
           <<WIFI_CONNECTING, SCANNING>>,         \* _do_wifi_connect: failure
           <<DRONE_CONNECTING, READY>>,           \* _do_drone_connect: success
           <<DRONE_CONNECTING, SCANNING>>,        \* _do_drone_connect: failure
           <<READY, SCANNING>> }                  \* _do_ready: every exit
=============================================================================

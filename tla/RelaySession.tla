---------------------------- MODULE RelaySession ----------------------------
(***************************************************************************)
(* The relay's connection to the drone (class DroneRelay of                *)
(* relay/relay.py): the main thread's state machine with its handshake and *)
(* its fall back, and the threads that read from the clients               *)
(* (_client_recv_loop) and write on the drone's socket, which the main     *)
(* thread replaces under them.                                             *)
(*                                                                         *)
(* The drone, the WiFi and the TCP connection are the environment.  A scan *)
(* that finds nothing, a receive that times out with the WiFi up and the   *)
(* drone's own frames change nothing here: they are stuttering steps.      *)
(* What clients are sent is the subject of RelayClients.                   *)
(***************************************************************************)
EXTENDS RelayState, Naturals

CONSTANTS Clients,  \* the clients on TCP 4900, one receive thread each
          Socks,    \* the sockets the relay can have open to the drone
          NONE      \* Python's None

ASSUME NoneAssumption == NONE \notin Socks

VARIABLES
    \* The main thread.
    state,   \* DroneRelay.state
    pc,      \* where the main thread is: "loop" in run or in a handler that
             \* waits for the WiFi or for the drone's data, "connect",
             \* "challenge", "ack", "init" inside _do_drone_connect, "closed"
             \* between _close_drone and _set_state(SCANNING)
    sock,    \* DroneRelay._drone_sock
    open,    \* the sockets opened and not yet closed
    \* The connection on sock.
    link,    \* "idle" before connect returns, "up", "dead" when the drone has
             \* forgotten it, "probing" when data were sent on a dead one,
             \* "fin" when the drone closed it, "reset"
    answer,  \* the drone's answer to the response, if any: "none",
             \* "accepted", "rejected" or a frame that is no verdict, "other"
    sent,    \* how many frames of the init sequence were sent
    early,   \* a client's data were sent before the init sequence was over
    wifi,    \* the interface is associated with the drone's network, or not
    \* The receive threads of the clients.
    upc      \* "recv", "state" and "send": the lines 328, 332 and 334

main    == <<state, pc, sock, open>>
session == <<link, answer, sent, early>>
vars    == <<main, session, wifi, upc>>

-----------------------------------------------------------------------------
\* What the relay sends once it is authenticated: so many frames.
InitLength == 9

Pcs     == {"loop", "connect", "challenge", "ack", "init", "closed"}
Links   == {"idle", "up", "dead", "probing", "fin", "reset"}
Answers == {"none", "accepted", "rejected", "other"}

TypeOK ==
    /\ state \in RelayStates
    /\ pc \in Pcs
    /\ sock \in Socks \cup {NONE}
    /\ open \subseteq Socks
    /\ link \in Links
    /\ answer \in Answers
    /\ sent \in 0 .. InitLength
    /\ early \in BOOLEAN
    /\ wifi \in {"up", "down"}
    /\ upc \in [Clients -> {"recv", "state", "send"}]

NewSession == /\ link' = "idle"
              /\ answer' = "none"
              /\ sent' = 0
              /\ early' = FALSE

Init == /\ state = SCANNING
        /\ pc = "loop"
        /\ sock = NONE
        /\ open = {}
        /\ link = "idle"
        /\ answer = "none"
        /\ sent = 0
        /\ early = FALSE
        /\ wifi \in {"up", "down"}
        /\ upc = [c \in Clients |-> "recv"]

\* The connection after something is sent on it: a drone that has forgotten
\* the connection answers with a reset, sooner or later.
AfterSend(l) == IF l = "dead" THEN "probing" ELSE l

\* _close_drone: the socket is closed and forgotten, its connection with it.
CloseDrone == /\ open' = open \ {sock}
              /\ sock' = NONE
              /\ NewSession

-----------------------------------------------------------------------------
(* The main thread *)

\* _do_scanning finds the interface already on the drone's network.
ScanAssociated == /\ state = SCANNING
                  /\ pc = "loop"
                  /\ wifi = "up"
                  /\ state' = DRONE_CONNECTING
                  /\ UNCHANGED <<pc, sock, open, session, wifi, upc>>

\* _do_scanning does not (or cannot tell: nmcli failed) and the scan lists the
\* drone's SSID.
ScanFound == /\ state = SCANNING
             /\ pc = "loop"
             /\ state' = WIFI_CONNECTING
             /\ UNCHANGED <<pc, sock, open, session, wifi, upc>>

\* _do_wifi_connect
WifiConnected == /\ state = WIFI_CONNECTING
                 /\ wifi' = "up"
                 /\ state' = DRONE_CONNECTING
                 /\ UNCHANGED <<pc, sock, open, session, upc>>

WifiFailed == /\ state = WIFI_CONNECTING
              /\ state' = SCANNING
              /\ UNCHANGED <<pc, sock, open, session, wifi, upc>>

\* _do_drone_connect
OpenSocket == /\ state = DRONE_CONNECTING
              /\ pc = "loop"
              /\ \E s \in Socks \ open : sock' = s /\ open' = open \cup {s}
              /\ pc' = "connect"
              /\ UNCHANGED <<state, session, wifi, upc>>

Connected == /\ pc = "connect"
             /\ wifi = "up"
             /\ link' = "up"
             /\ pc' = "challenge"
             /\ UNCHANGED <<state, sock, open, answer, sent, early, wifi, upc>>

\* The challenge has come, the response goes out (_authenticate).
SendResponse == /\ pc = "challenge"
                /\ link # "reset"
                /\ link' = AfterSend(link)
                /\ pc' = "ack"
                /\ UNCHANGED <<state, sock, open, answer, sent, early, wifi, upc>>

\* A bug: the error bit is not looked at either.
TakeAckUnchecked == /\ pc = "ack"
                    /\ answer # "none"
                    /\ link # "reset"
                    /\ pc' = "init"
                    /\ UNCHANGED <<state, sock, open, session, wifi, upc>>

\* The first frame that comes next is the acknowledgement unless its error bit
\* is set; its command is not looked at.
TakeAck == /\ pc = "ack"
           /\ answer \in {"accepted", "other"}
           /\ link # "reset"
           /\ pc' = "init"
           /\ UNCHANGED <<state, sock, open, session, wifi, upc>>

\* A bug: one frame more than the sequence has.
InitSendUnbounded == /\ pc = "init"
                     /\ sent <= InitLength
                     /\ link # "reset"
                     /\ sent' = sent + 1
                     /\ link' = AfterSend(link)
                     /\ UNCHANGED <<main, answer, early, wifi, upc>>

\* One send of _init_sequence.
InitSend == /\ pc = "init"
            /\ sent < InitLength
            /\ link # "reset"
            /\ sent' = sent + 1
            /\ link' = AfterSend(link)
            /\ UNCHANGED <<main, answer, early, wifi, upc>>

\* A bug: READY is announced before the init sequence is over.
InitDoneEarly == /\ pc = "init"
                 /\ state' = READY
                 /\ pc' = "loop"
                 /\ UNCHANGED <<sock, open, session, wifi, upc>>

InitDone == /\ pc = "init"
            /\ sent = InitLength
            /\ state' = READY
            /\ pc' = "loop"
            /\ UNCHANGED <<sock, open, session, wifi, upc>>

\* A bug: the except branch does not close the socket.
HandshakeFailedLeaks == /\ state = DRONE_CONNECTING
                        /\ pc # "closed"
                        /\ pc' = "closed"
                        /\ UNCHANGED <<state, sock, open, session, wifi, upc>>

\* Any exception of _do_drone_connect: no answer in time, a closed or reset
\* connection, a bad challenge, a rejection.
HandshakeFailed == /\ state = DRONE_CONNECTING
                   /\ pc # "closed"
                   /\ CloseDrone
                   /\ pc' = "closed"
                   /\ UNCHANGED <<state, wifi, upc>>

\* A bug: the loop goes on after the socket is closed.
LeaveReadyStays == /\ state = READY
                   /\ pc = "loop"
                   /\ CloseDrone
                   /\ UNCHANGED <<pc, state, wifi, upc>>

\* The receive loop of _do_ready is left, for one of the reasons below.
LeaveReady == /\ state = READY
              /\ pc = "loop"
              /\ CloseDrone
              /\ pc' = "closed"
              /\ UNCHANGED <<state, wifi, upc>>

\* A bug: the end of the stream is not taken for the end of the connection.
RecvBrokenResetOnly == link = "reset" /\ LeaveReady

\* recv returns no data or raises.
RecvBroken == link \in {"fin", "reset"} /\ LeaveReady

\* recv times out and the interface is on another network, or on none ...
RecvTimeoutWifiLost ==
    wifi = "down" /\ link \notin {"fin", "reset"} /\ LeaveReady

\* ... or nmcli fails, which _get_current_ssid does not tell from that.
RecvTimeoutQueryFailed ==
    wifi = "up" /\ link \notin {"fin", "reset"} /\ LeaveReady

\* The _set_state(SCANNING) after either _close_drone.
FallBack == /\ pc = "closed"
            /\ state' = SCANNING
            /\ pc' = "loop"
            /\ UNCHANGED <<sock, open, session, wifi, upc>>

-----------------------------------------------------------------------------
(* The receive thread of a client *)

\* recv returns some of the client's bytes, a whole number of frames or not.  They
\* are dropped at once if there is no socket to the drone.
RecvChunk(c) == /\ upc[c] = "recv"
                /\ sock # NONE
                /\ upc' = [upc EXCEPT ![c] = "state"]
                /\ UNCHANGED <<main, session, wifi>>

\* The second half of the condition: state == READY.
CheckReady(c) ==
    /\ upc[c] = "state"
    /\ upc' = [upc EXCEPT ![c] = IF state = READY THEN "send" ELSE "recv"]
    /\ UNCHANGED <<main, session, wifi>>

\* self._drone_sock.sendall(data): _drone_sock is read again.  A missing,
\* unconnected or broken socket raises, and the exception is swallowed.
Forward(c) ==
    /\ upc[c] = "send"
    /\ upc' = [upc EXCEPT ![c] = "recv"]
    /\ IF sock = NONE \/ link \in {"idle", "reset"}
         THEN UNCHANGED session
         ELSE /\ early' = (early \/ sent < InitLength)
              /\ link' = AfterSend(link)
              /\ UNCHANGED <<answer, sent>>
    /\ UNCHANGED <<main, wifi>>

-----------------------------------------------------------------------------
(* The environment *)

WifiLost == /\ wifi = "up"
            /\ wifi' = "down"
            /\ UNCHANGED <<main, session, upc>>

\* The operating system associates again by itself.
WifiBack == /\ wifi = "down"
            /\ wifi' = "up"
            /\ UNCHANGED <<main, session, upc>>

\* The drone answers the response.  It sends another frame first only if
\* something other than the response reached it.
DroneAnswers == /\ pc = "ack"
                /\ link = "up"
                /\ wifi = "up"
                /\ answer = "none"
                /\ \/ answer' \in {"accepted", "rejected"}
                   \/ early /\ answer' = "other"
                /\ UNCHANGED <<main, link, sent, early, wifi, upc>>

DroneCloses == /\ link = "up"
               /\ wifi = "up"
               /\ link' = "fin"
               /\ UNCHANGED <<main, answer, sent, early, wifi, upc>>

\* The drone restarts, or gives the connection up while it is out of reach:
\* the relay is not told.
DroneForgets == /\ link = "up"
                /\ link' = "dead"
                /\ wifi' = "down"
                /\ UNCHANGED <<main, answer, sent, early, upc>>

\* The drone resets a connection it does not know, or the retransmissions of
\* the relay run out.
LinkReset == /\ link = "probing"
             /\ link' = "reset"
             /\ UNCHANGED <<main, answer, sent, early, wifi, upc>>

-----------------------------------------------------------------------------
Main == \/ ScanAssociated \/ ScanFound \/ WifiConnected \/ WifiFailed
        \/ OpenSocket \/ Connected \/ SendResponse \/ TakeAck
        \/ InitSend \/ InitDone \/ HandshakeFailed
        \/ RecvBroken \/ RecvTimeoutWifiLost \/ RecvTimeoutQueryFailed
        \/ FallBack

Uplink(c) == RecvChunk(c) \/ CheckReady(c) \/ Forward(c)

Fault == WifiLost \/ DroneCloses \/ DroneForgets

Environment == Fault \/ WifiBack \/ DroneAnswers \/ LinkReset

Next == Main \/ (\E c \in Clients : Uplink(c)) \/ Environment

Spec == Init /\ [][Next]_vars

-----------------------------------------------------------------------------
(* Fairness *)

\* The steps the main thread takes by itself: its receives have timeouts, the
\* commands it runs have timeouts, and its loop never ends.  A scan finds the
\* drone and nmcli fails only if the environment wants it so.
Progress == \/ ScanAssociated \/ WifiConnected \/ WifiFailed
            \/ OpenSocket \/ Connected \/ SendResponse \/ TakeAck
            \/ InitSend \/ InitDone \/ HandshakeFailed
            \/ RecvBroken \/ RecvTimeoutWifiLost \/ FallBack

\* TCP reports the loss of data it could not deliver.
FairSpec == Spec /\ WF_vars(Progress) /\ WF_vars(LinkReset)

\* What can go wrong on its own while everything is in place: a fault, a failing
\* command, a rejection, a timeout on a connection that is up.
Trouble == \/ Fault
           \/ WifiFailed
           \/ RecvTimeoutQueryFailed
           \/ DroneAnswers /\ answer' = "rejected"
           \/ /\ HandshakeFailed
              /\ wifi = "up" /\ link \in {"idle", "up"} /\ answer # "rejected"

-----------------------------------------------------------------------------
(* Properties *)

\* The relay "maintains a single connection" (relay.py:5): every socket it has
\* opened to the drone and not closed is the one _drone_sock refers to, however
\* the handshake or the session ended.
SingleConnection == open = IF sock = NONE THEN {} ELSE {sock}

\* In READY, and wherever the handshake uses it, there is a socket: none of the
\* assertions "self._drone_sock is not None" (relay.py:184, 246, 260, 283) fails.
AssertionsHold ==
    (pc \in {"connect", "challenge", "ack", "init"} \/ (state = READY /\ pc = "loop"))
        => sock # NONE

\* Clients are told READY only over a connection that went through the whole
\* handshake: the drone accepted the response and got every frame of the init
\* sequence.  The exception is a session into which a client's data slipped
\* before its time, whose answer can be taken for the acknowledgement.
ReadyMeansAccepted ==
    (state = READY /\ pc = "loop") => /\ answer = "accepted" \/ (answer = "other" /\ early)
                                      /\ sent = InitLength

\* Nothing of an earlier connection is left when the relay dials again: what an
\* answer, a client's data or a lost link left behind ends with its socket.
CleanStart == sock = NONE => /\ link = "idle"
                             /\ answer = "none"
                             /\ sent = 0
                             /\ ~early

Edge == <<state, state'>> \in Edges

\* The relay's state changes only along the edges its clients are told about
\* (relay.py:8-9): READY is entered from DRONE_CONNECTING alone, and every
\* failure leads to SCANNING.  RelayClients assumes no more of the main thread.
EdgesOnly == [][Edge]_state

HandshakeOver == sock # NONE /\ sent = InitLength /\ answer # "none"

\* The connection as RelayLifecycle sees it: opening until the whole handshake
\* was seen to be done.
ConnectionStatus ==
    CASE pc = "closed"                -> "lost"
      [] pc = "loop" /\ sock = NONE   -> "none"
      [] pc = "loop" /\ HandshakeOver -> "live"
      [] OTHER                        -> "opening"

Lifecycle == INSTANCE RelayLifecycle WITH conn <- ConnectionStatus

\* The relay implements RelayLifecycle: one connection, READY only when it is
\* live, released before the next scan.
ImplementsLifecycle == Lifecycle!Spec

\* A connection the drone closed or reset, or on which data were lost, sends
\* the relay back to SCANNING.
BrokenLinkNoticed ==
    (state = READY /\ link \in {"probing", "fin", "reset"}) ~> state = SCANNING

\* A drone that is on and in reach: a scan finds it, the operating system
\* associates again, the drone accepts a good response.
Accepts == DroneAnswers /\ answer' = "accepted"
DroneIsThere == WF_vars(ScanFound) /\ WF_vars(WifiBack) /\ WF_vars(Accepts)

\* "The drone only needs to be powered on - the relay handles connection
\* automatically" (docs/network.md:67): if the drone is there and nothing goes wrong
\* any more the relay reaches READY and stays there, whatever connection,
\* handshake or client's data the troubles left it with.
ServiceReturns == DroneIsThere => (<>[][~Trouble]_vars => <>[](state = READY))

-----------------------------------------------------------------------------
(* What comments and documents say, and the code does not do *)

\* "On failure at any stage, returns to SCANNING" (relay.py:9): a drone that has
\* forgotten the connection is one.
DeadLinkNoticed == (state = READY /\ link = "dead") ~> (state # READY)
=============================================================================

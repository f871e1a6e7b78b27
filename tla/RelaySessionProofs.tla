------------------------- MODULE RelaySessionProofs -------------------------
(***************************************************************************)
(* Theorems about RelaySession, for any clients and any sockets.           *)
(***************************************************************************)
EXTENDS RelaySession, TLAPS

Handshake == {"connect", "challenge", "ack", "init"}

\* Where the main thread is decides its state and whether it has a socket.
PcInv == /\ pc \in Handshake => state = DRONE_CONNECTING /\ sock # NONE
         /\ pc = "closed"    => state \in {DRONE_CONNECTING, READY} /\ sock = NONE
         /\ pc = "loop"      => (sock # NONE <=> state = READY)

\* How far the handshake is decides what the drone was sent and answered.
ProgressInv ==
    /\ sock # NONE =>
         /\ pc = "connect" => link = "idle"
         /\ pc \in {"connect", "challenge"} => answer = "none"
         /\ pc \in {"connect", "challenge", "ack"} => sent = 0
         /\ pc \in {"init", "loop"} => answer \in {"accepted", "other"}
         /\ pc = "loop" => sent = InitLength
         /\ answer = "other" => early
    /\ CleanStart

\* The inductive invariant.  TypeOK and the properties alone are not: that
\* TakeAck and InitDone lead to an accepted session rests on ProgressInv, that
\* they find a socket rests on PcInv.
IInv == TypeOK /\ SingleConnection /\ PcInv /\ ProgressInv

-----------------------------------------------------------------------------
\* The relay starts without a connection (relay.py:68-72).
LEMMA InitIInv == Init => IInv
<1> SUFFICES ASSUME Init PROVE IInv
  OBVIOUS
<1>1. /\ state \in RelayStates /\ pc \in Pcs
      /\ sock \in Socks \cup {NONE} /\ open \subseteq Socks
      /\ link \in Links /\ answer \in Answers /\ sent \in 0 .. InitLength
  BY DEF Init, RelayStates, Pcs, Links, Answers, InitLength
<1>2. early \in BOOLEAN /\ wifi \in {"up", "down"}
  BY DEF Init
<1>3. upc \in [Clients -> {"recv", "state", "send"}]
  BY DEF Init
<1>4. SingleConnection /\ PcInv /\ ProgressInv
  BY DEF Init, SingleConnection, PcInv, ProgressInv, CleanStart, Handshake, SCANNING, READY
<1> QED BY <1>1, <1>2, <1>3, <1>4 DEF IInv, TypeOK

\* _close_drone (relay.py:484-490) leaves no socket open and nothing of the
\* connection, provided there was one connection at most.
LEMMA CloseDroneCleans ==
  ASSUME SingleConnection, CloseDrone
  PROVE  SingleConnection' /\ CleanStart' /\ sock' = NONE
  BY DEF SingleConnection, CloseDrone, NewSession, CleanStart

LEMMA CloseDroneTyped ==
  ASSUME TypeOK, CloseDrone
  PROVE  /\ sock' \in Socks \cup {NONE} /\ open' \subseteq Socks
         /\ link' \in Links /\ answer' \in Answers /\ sent' \in 0 .. InitLength
         /\ early' \in BOOLEAN
<1>1. sock' \in Socks \cup {NONE} /\ open' \subseteq Socks
  BY DEF TypeOK, CloseDrone
<1>2. link' \in Links /\ answer' \in Answers /\ sent' \in 0 .. InitLength
  BY DEF CloseDrone, NewSession, Links, Answers, InitLength
<1>3. early' \in BOOLEAN
  BY DEF CloseDrone, NewSession
<1> QED BY <1>1, <1>2, <1>3

\* Every step of every thread and of the environment keeps the types.
LEMMA NextTypeOK ==
  ASSUME TypeOK, [Next]_vars
  PROVE  TypeOK'
<1> USE DEF TypeOK, main, session
<1>1. CASE Main
  <2>1. CASE ScanAssociated \/ ScanFound \/ WifiConnected \/ WifiFailed
    BY <2>1 DEF ScanAssociated, ScanFound, WifiConnected, WifiFailed, RelayStates
  <2>2. CASE OpenSocket
    BY <2>2 DEF OpenSocket, Pcs
  <2>3. CASE Connected \/ TakeAck
    BY <2>3 DEF Connected, TakeAck, Pcs, Links
  <2>4. CASE SendResponse \/ InitSend
    <3>1. AfterSend(link) \in Links
      BY DEF AfterSend, Links
    <3>2. sent \in 0 .. InitLength /\ sent < InitLength => sent + 1 \in 0 .. InitLength
      BY DEF InitLength
    <3>3. pc' \in Pcs /\ link' \in Links /\ sent' \in 0 .. InitLength
      BY <2>4, <3>1, <3>2 DEF SendResponse, InitSend, Pcs
    <3>4. /\ state' = state /\ sock' = sock /\ open' = open /\ answer' = answer
          /\ early' = early /\ wifi' = wifi /\ upc' = upc
      BY <2>4 DEF SendResponse, InitSend
    <3> QED BY <3>3, <3>4
  <2>5. CASE InitDone \/ FallBack
    BY <2>5 DEF InitDone, FallBack, Pcs, RelayStates
  <2>6. CASE HandshakeFailed \/ LeaveReady
    BY <2>6, CloseDroneTyped DEF HandshakeFailed, LeaveReady, Pcs
  <2> QED BY <1>1, <2>1, <2>2, <2>3, <2>4, <2>5, <2>6
          DEF Main, RecvBroken, RecvTimeoutWifiLost, RecvTimeoutQueryFailed
<1>2. ASSUME NEW c \in Clients, Uplink(c)
      PROVE  TypeOK'
  <2>1. CASE RecvChunk(c)
    BY <2>1 DEF RecvChunk
  <2>2. CASE CheckReady(c)
    BY <2>2 DEF CheckReady
  <2>3. CASE Forward(c)
    <3>1. AfterSend(link) \in Links
      BY DEF AfterSend, Links
    <3> QED BY <2>3, <3>1 DEF Forward
  <2> QED BY <1>2, <2>1, <2>2, <2>3 DEF Uplink
<1>3. CASE Environment
  BY <1>3 DEF Environment, Fault, WifiLost, WifiBack, DroneCloses, DroneForgets,
              DroneAnswers, LinkReset, Links, Answers
<1>4. CASE UNCHANGED vars
  BY <1>4 DEF vars
<1> QED BY <1>1, <1>2, <1>3, <1>4 DEF Next

\* Every step keeps the rest of the inductive invariant.
LEMMA NextIInv ==
  ASSUME IInv, [Next]_vars
  PROVE  IInv'
<1> USE DEF IInv, main, session, Handshake,
            SCANNING, WIFI_CONNECTING, DRONE_CONNECTING, READY
<1>1. TypeOK'
  BY NextTypeOK
<1>2. CASE Main
  <2>1. CASE ScanAssociated \/ ScanFound \/ WifiConnected \/ WifiFailed
    BY <1>1, <2>1 DEF ScanAssociated, ScanFound, WifiConnected, WifiFailed,
                      SingleConnection, PcInv, ProgressInv, CleanStart, TypeOK, Pcs
  <2>2. CASE OpenSocket
    BY <1>1, <2>2, NoneAssumption
    DEF OpenSocket, SingleConnection, PcInv, ProgressInv, CleanStart
  <2>3. CASE Connected \/ SendResponse \/ TakeAck
    BY <1>1, <2>3 DEF Connected, SendResponse, TakeAck,
                      SingleConnection, PcInv, ProgressInv, CleanStart
  <2>4. CASE InitSend \/ InitDone
    BY <1>1, <2>4 DEF InitSend, InitDone,
                      SingleConnection, PcInv, ProgressInv, CleanStart
  <2>5. CASE HandshakeFailed
    BY <1>1, <2>5, CloseDroneCleans DEF HandshakeFailed, PcInv, ProgressInv
  <2>6. CASE LeaveReady
    BY <1>1, <2>6, CloseDroneCleans DEF LeaveReady, PcInv, ProgressInv
  <2>7. CASE FallBack
    BY <1>1, <2>7 DEF FallBack, SingleConnection, PcInv, ProgressInv, CleanStart
  <2> QED BY <1>2, <2>1, <2>2, <2>3, <2>4, <2>5, <2>6, <2>7
          DEF Main, RecvBroken, RecvTimeoutWifiLost, RecvTimeoutQueryFailed
<1>3. ASSUME NEW c \in Clients, Uplink(c)
      PROVE  IInv'
  <2>1. CASE RecvChunk(c) \/ CheckReady(c)
    BY <1>1, <2>1 DEF RecvChunk, CheckReady,
                      SingleConnection, PcInv, ProgressInv, CleanStart
  <2>2. CASE Forward(c)
    BY <1>1, <2>2 DEF Forward, AfterSend,
                      SingleConnection, PcInv, ProgressInv, CleanStart
  <2> QED BY <1>3, <2>1, <2>2 DEF Uplink
<1>4. CASE Environment
  BY <1>1, <1>4 DEF Environment, Fault, WifiLost, WifiBack, DroneCloses, DroneForgets,
              DroneAnswers, LinkReset, SingleConnection, PcInv, ProgressInv, CleanStart
<1>5. CASE UNCHANGED vars
  BY <1>1, <1>5 DEF vars, SingleConnection, PcInv, ProgressInv, CleanStart
<1> QED BY <1>2, <1>3, <1>4, <1>5 DEF Next

\* The inductive invariant holds in every behaviour of the relay.
THEOREM InductiveInvariance == Spec => []IInv
  BY InitIInv, NextIInv, PTL DEF Spec

\* Types, for any number of clients and of sockets.
THEOREM TypeInvariance == Spec => []TypeOK
<1>1. IInv => TypeOK
  BY DEF IInv
<1> QED BY <1>1, InductiveInvariance, PTL

\* The relay never leaks nor doubles its connection to the drone (relay.py:5),
\* over any number of handshakes that fail at any step.
THEOREM SingleConnectionHolds == Spec => []SingleConnection
<1>1. IInv => SingleConnection
  BY DEF IInv
<1> QED BY <1>1, InductiveInvariance, PTL

\* No assertion on _drone_sock fails (relay.py:184, 246, 260, 283).
THEOREM NoAssertionFails == Spec => []AssertionsHold
<1>1. IInv => AssertionsHold
  BY DEF IInv, PcInv, Handshake, AssertionsHold, READY
<1> QED BY <1>1, InductiveInvariance, PTL

\* READY is only ever shown over an accepted and initialised connection.
THEOREM ReadyIsAccepted == Spec => []ReadyMeansAccepted
<1>1. IInv => ReadyMeansAccepted
  BY DEF IInv, PcInv, ProgressInv, ReadyMeansAccepted, READY
<1> QED BY <1>1, InductiveInvariance, PTL

-----------------------------------------------------------------------------
\* A step that changes the relay's state takes an edge of its state machine.
THEOREM EdgesHold == Spec => EdgesOnly
<1> USE DEF SCANNING, WIFI_CONNECTING, DRONE_CONNECTING, READY
<1>1. ASSUME IInv, [Next]_vars
      PROVE  [Edge]_state
  <2>1. CASE Main
    <3>1. CASE ScanAssociated \/ ScanFound \/ WifiConnected \/ WifiFailed
      BY <3>1 DEF ScanAssociated, ScanFound, WifiConnected, WifiFailed, Edge, Edges
    <3>2. CASE OpenSocket \/ Connected \/ SendResponse \/ TakeAck \/ InitSend
               \/ HandshakeFailed \/ LeaveReady
      BY <3>2 DEF OpenSocket, Connected, SendResponse, TakeAck, InitSend,
                  HandshakeFailed, LeaveReady, main
    <3>3. CASE InitDone \/ FallBack
      BY <1>1, <3>3 DEF InitDone, FallBack, IInv, PcInv, Handshake, Edge, Edges
    <3> QED BY <2>1, <3>1, <3>2, <3>3
            DEF Main, RecvBroken, RecvTimeoutWifiLost, RecvTimeoutQueryFailed
  <2>2. ASSUME NEW c \in Clients, Uplink(c)
        PROVE  state' = state
    BY <2>2 DEF Uplink, RecvChunk, CheckReady, Forward, main
  <2>3. CASE Environment
    BY <2>3 DEF Environment, Fault, WifiLost, WifiBack, DroneCloses, DroneForgets,
                DroneAnswers, LinkReset, main
  <2>4. CASE UNCHANGED vars
    BY <2>4 DEF vars, main
  <2> QED BY <1>1, <2>1, <2>2, <2>3, <2>4 DEF Next
<1> QED BY <1>1, InductiveInvariance, PTL DEF Spec, EdgesOnly

-----------------------------------------------------------------------------
(* The refinement of RelayLifecycle *)

\* The abstract connection as told by pc and sock alone.
StatusSummary == /\ pc = "closed"                => ConnectionStatus = "lost"
                 /\ pc \in Handshake             => ConnectionStatus = "opening"
                 /\ pc = "loop" /\ sock = NONE   => ConnectionStatus = "none"
                 /\ pc = "loop" /\ sock # NONE   => ConnectionStatus = "live"

LEMMA StatusByPc == IInv => StatusSummary
<1>1. pc = "closed" => ConnectionStatus = "lost"
  BY DEF ConnectionStatus
<1>2. pc \in Handshake => ConnectionStatus = "opening"
  <2>1. pc \in Handshake => pc # "loop" /\ pc # "closed"
    BY DEF Handshake
  <2> QED BY <2>1 DEF ConnectionStatus
<1>3. pc = "loop" /\ sock = NONE => ConnectionStatus = "none"
  BY DEF ConnectionStatus, HandshakeOver
<1>4. IInv => (pc = "loop" /\ sock # NONE => ConnectionStatus = "live")
  <2>1. IInv => (pc = "loop" /\ sock # NONE => HandshakeOver)
    BY DEF IInv, ProgressInv, HandshakeOver
  <2> QED BY <2>1 DEF ConnectionStatus, HandshakeOver
<1> QED BY <1>1, <1>2, <1>3, <1>4 DEF StatusSummary

LEMMA StatusByPcNext == IInv' => StatusSummary'
  BY StatusByPc, PTL

LEMMA InitLifecycle == Init => Lifecycle!Init
<1>1. Init => ConnectionStatus = "none"
  BY DEF Init, ConnectionStatus, HandshakeOver
<1> QED BY <1>1 DEF Init, Lifecycle!Init, SCANNING, Lifecycle!SCANNING

\* Each step of the relay is a step of the abstract one, or changes nothing the
\* abstract one shows.
LEMMA NextLifecycle ==
  ASSUME IInv, IInv', [Next]_vars
  PROVE  [Lifecycle!Next]_(Lifecycle!vars)
<1> USE DEF Handshake,
        SCANNING, WIFI_CONNECTING, DRONE_CONNECTING, READY,
        Lifecycle!SCANNING, Lifecycle!WIFI_CONNECTING,
        Lifecycle!DRONE_CONNECTING, Lifecycle!READY
<1>1. StatusSummary /\ StatusSummary'
  BY StatusByPc, StatusByPcNext
<1>2. PcInv /\ pc \in Handshake \cup {"closed", "loop"}
  BY DEF IInv, TypeOK, Pcs
<1>3. ASSUME UNCHANGED <<state, pc, sock>>
      PROVE  UNCHANGED Lifecycle!vars
  BY <1>1, <1>2, <1>3 DEF StatusSummary, Lifecycle!vars
<1>4. CASE Main
  <2>1. CASE ScanAssociated \/ ScanFound \/ WifiConnected \/ WifiFailed
    <3>1. pc' = pc /\ sock' = sock
      BY <2>1 DEF ScanAssociated, ScanFound, WifiConnected, WifiFailed
    <3>2. pc = "loop" /\ sock = NONE
      BY <1>2, <2>1
      DEF ScanAssociated, ScanFound, WifiConnected, WifiFailed, PcInv
    <3>3. ConnectionStatus' = ConnectionStatus
      BY <1>1, <3>1, <3>2 DEF StatusSummary
    <3> QED BY <2>1, <3>3
            DEF ScanAssociated, ScanFound, WifiConnected, WifiFailed, Lifecycle!Next,
                Lifecycle!SeeDrone, Lifecycle!Associate, Lifecycle!LoseWifi
  <2>2. CASE OpenSocket
    <3>1. pc = "loop" /\ sock = NONE /\ pc' = "connect"
      BY <1>2, <2>2 DEF OpenSocket, PcInv
    <3>2. ConnectionStatus = "none" /\ ConnectionStatus' = "opening"
      BY <1>1, <3>1 DEF StatusSummary
    <3> QED BY <2>2, <3>2 DEF OpenSocket, Lifecycle!Next, Lifecycle!Dial
  <2>3. CASE Connected \/ SendResponse \/ TakeAck \/ InitSend
    <3>1. pc \in Handshake /\ pc' \in Handshake /\ state' = state
      BY <2>3 DEF Connected, SendResponse, TakeAck, InitSend, main
    <3>2. ConnectionStatus = "opening" /\ ConnectionStatus' = "opening"
      BY <1>1, <3>1 DEF StatusSummary
    <3> QED BY <3>1, <3>2 DEF Lifecycle!vars
  <2>4. CASE InitDone
    <3>1. pc = "init" /\ state = DRONE_CONNECTING /\ sock # NONE
      BY <1>2, <2>4 DEF InitDone, PcInv
    <3>2. pc' = "loop" /\ sock' # NONE /\ state' = READY
      BY <2>4, <3>1 DEF InitDone
    <3>3. ConnectionStatus = "opening" /\ ConnectionStatus' = "live"
      BY <1>1, <3>1, <3>2 DEF StatusSummary
    <3> QED BY <3>1, <3>2, <3>3 DEF Lifecycle!Next, Lifecycle!Establish
  <2>5. CASE HandshakeFailed
    <3>1. state = DRONE_CONNECTING /\ state' = state /\ pc # "closed" /\ pc' = "closed"
      BY <2>5 DEF HandshakeFailed
    <3>2. pc = "loop" => sock = NONE
      BY <1>2, <3>1 DEF PcInv
    <3>3. ConnectionStatus \in {"none", "opening"} /\ ConnectionStatus' = "lost"
      BY <1>1, <1>2, <3>1, <3>2 DEF StatusSummary
    <3> QED BY <3>1, <3>3 DEF Lifecycle!Next, Lifecycle!Drop
  <2>6. CASE LeaveReady
    <3>1. state = READY /\ state' = state /\ pc = "loop" /\ pc' = "closed" /\ sock # NONE
      BY <1>2, <2>6 DEF LeaveReady, PcInv
    <3>2. ConnectionStatus = "live" /\ ConnectionStatus' = "lost"
      BY <1>1, <3>1 DEF StatusSummary
    <3> QED BY <3>1, <3>2 DEF Lifecycle!Next, Lifecycle!Drop
  <2>7. CASE FallBack
    <3>1. pc = "closed" /\ sock' = NONE /\ pc' = "loop" /\ state' = SCANNING
      BY <1>2, <2>7 DEF FallBack, PcInv
    <3>2. ConnectionStatus = "lost" /\ ConnectionStatus' = "none"
      BY <1>1, <3>1 DEF StatusSummary
    <3> QED BY <3>1, <3>2 DEF Lifecycle!Next, Lifecycle!FallBack
  <2> QED BY <1>4, <2>1, <2>2, <2>3, <2>4, <2>5, <2>6, <2>7
          DEF Main, RecvBroken, RecvTimeoutWifiLost, RecvTimeoutQueryFailed
<1>5. ASSUME NEW c \in Clients, Uplink(c)
      PROVE  UNCHANGED <<state, pc, sock>>
  BY <1>5 DEF Uplink, RecvChunk, CheckReady, Forward, main
<1>6. CASE Environment
  <2>1. UNCHANGED <<state, pc, sock>>
    BY <1>6 DEF Environment, Fault, WifiLost, WifiBack, DroneCloses, DroneForgets,
                DroneAnswers, LinkReset, main
  <2> QED BY <1>3, <2>1
<1>7. CASE UNCHANGED vars
  BY <1>3, <1>7 DEF vars, main
<1> QED BY <1>3, <1>4, <1>5, <1>6, <1>7 DEF Next

\* RelaySession implements RelayLifecycle: every behaviour of the two kinds of
\* threads and of the environment, with its connection seen as ConnectionStatus,
\* is one the abstract specification allows.
THEOREM Refinement == Spec => ImplementsLifecycle
  BY InductiveInvariance, InitLifecycle, NextLifecycle, PTL
  DEF Spec, ImplementsLifecycle, Lifecycle!Spec
=============================================================================

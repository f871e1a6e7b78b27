------------------------- MODULE RelayClientsProofs -------------------------
(***************************************************************************)
(* Theorems about RelayClients, for any number of clients.                 *)
(***************************************************************************)
EXTENDS RelayClients, TLAPS

\* The accept thread greets one client at a time, and before that client has a
\* receive thread; a connection that waits to be accepted has no thread at all.
GreetInv == /\ apc \in {"read", "send"} <=> acl # NONE
            /\ apc = "send" => greeting # NONE
            /\ \A c \in Clients : acl = c => tpc[c] = "none" /\ csock[c] # "backlog"
            /\ \A c \in Clients : csock[c] = "backlog" => tpc[c] = "none"

\* The inductive invariant.  RegistrySound needs GreetInv: a connection is handed
\* from the accept thread to its receive thread without a gap.  StatusCurrent
\* needs RegistrySound: what is forgotten of a closed connection is not of a
\* listed client.
IInv == TypeOK /\ GreetInv /\ RegistrySound /\ StatusCurrent

-----------------------------------------------------------------------------
\* The relay starts without clients (relay.py:75).
LEMMA InitIInv == Init => IInv
<1> SUFFICES ASSUME Init PROVE IInv
  OBVIOUS
<1>1. TypeOK
  BY DEF Init, TypeOK, RelayStates
<1>2. GreetInv
  BY DEF Init, GreetInv
<1>3. RegistrySound
  BY DEF Init, RegistrySound
<1>4. StatusCurrent
  BY DEF Init, StatusCurrent
<1> QED BY <1>1, <1>2, <1>3, <1>4 DEF IInv

\* The types of what SendStatus writes.
LEMMA SendStatusTyped ==
  ASSUME TypeOK, NEW c \in Clients, NEW status \in RelayStates, SendStatus(c, status)
  PROVE  /\ view' \in [Clients -> RelayStates \cup {NONE}]
         /\ overtaken' \subseteq Clients
         /\ missed' \subseteq Clients
  BY DEF TypeOK, SendStatus

LEMMA ForgetTyped ==
  ASSUME TypeOK, NEW c \in Clients, Forget(c)
  PROVE  /\ peer' \in [Clients -> {"up", "stalled", "gone"}]
         /\ view' \in [Clients -> RelayStates \cup {NONE}]
         /\ overtaken' \subseteq Clients
         /\ missed' \subseteq Clients
  BY DEF TypeOK, Forget

\* Every step of every thread keeps the types.
LEMMA NextTypeOK ==
  ASSUME IInv, [Next]_vars
  PROVE  TypeOK'
<1>a. TypeOK /\ GreetInv
  BY DEF IInv
<1> USE DEF mainVars, acceptVars, history
<1>1. CASE SetState
  BY <1>1, <1>a DEF SetState, TypeOK
<1>2. CASE BroadcastBegin \/ BroadcastEnd
  BY <1>2, <1>a DEF BroadcastBegin, BroadcastEnd, TypeOK
<1>3. ASSUME NEW c \in Clients, BroadcastTo(c)
      PROVE  TypeOK'
  <2>1. state \in RelayStates
    BY <1>a DEF TypeOK
  <2>2. /\ view' \in [Clients -> RelayStates \cup {NONE}]
        /\ overtaken' \subseteq Clients
        /\ missed' \subseteq Clients
    BY <1>3, <1>a, <2>1, SendStatusTyped DEF BroadcastTo
  <2> QED BY <1>3, <1>a, <2>2 DEF BroadcastTo, TypeOK
<1>4. CASE BroadcastRaw
  BY <1>4, <1>a DEF BroadcastRaw, TypeOK
<1>5. ASSUME NEW c \in Clients, Accept(c)
      PROVE  TypeOK'
  BY <1>5, <1>a DEF Accept, TypeOK
<1>6. CASE GreetRead \/ AcceptFails
  BY <1>6, <1>a DEF GreetRead, AcceptFails, TypeOK
<1>7. CASE GreetSend
  <2>1. acl \in Clients /\ greeting \in RelayStates
    BY <1>7, <1>a DEF GreetSend, GreetInv, TypeOK
  <2>2. CASE csock[acl] = "open"
    <3>1. SendStatus(acl, greeting)
      BY <1>7, <2>2 DEF GreetSend
    <3>2. /\ view' \in [Clients -> RelayStates \cup {NONE}]
          /\ overtaken' \subseteq Clients
          /\ missed' \subseteq Clients
      BY <1>a, <2>1, <3>1, SendStatusTyped
    <3> QED BY <1>7, <1>a, <2>1, <2>2, <3>2 DEF GreetSend, TypeOK
  <2>3. CASE csock[acl] # "open"
    <3>1. Forget(acl)
      BY <1>7, <2>3 DEF GreetSend
    <3>2. /\ peer' \in [Clients -> {"up", "stalled", "gone"}]
          /\ view' \in [Clients -> RelayStates \cup {NONE}]
          /\ overtaken' \subseteq Clients
          /\ missed' \subseteq Clients
      BY <1>a, <2>1, <3>1, ForgetTyped
    <3> QED BY <1>7, <1>a, <2>1, <2>3, <3>2 DEF GreetSend, TypeOK
  <2> QED BY <2>2, <2>3
<1>8. ASSUME NEW c \in Clients, RecvEnd(c) \/ Unlist(c)
      PROVE  TypeOK'
  BY <1>8, <1>a DEF RecvEnd, Unlist, TypeOK
<1>9. ASSUME NEW c \in Clients, CloseClient(c)
      PROVE  TypeOK'
  <2>1. /\ peer' \in [Clients -> {"up", "stalled", "gone"}]
        /\ view' \in [Clients -> RelayStates \cup {NONE}]
        /\ overtaken' \subseteq Clients
        /\ missed' \subseteq Clients
    BY <1>9, <1>a, ForgetTyped DEF CloseClient
  <2> QED BY <1>9, <1>a, <2>1 DEF CloseClient, TypeOK
<1>10. ASSUME NEW c \in Clients, Peer(c)
       PROVE  TypeOK'
  BY <1>10, <1>a DEF Peer, Connect, PeerStalls, PeerResumes, PeerLeaves, PeerChanges, TypeOK
<1>11. CASE UNCHANGED vars
  BY <1>11, <1>a DEF vars, TypeOK
<1> QED BY <1>1, <1>2, <1>3, <1>4, <1>5, <1>6, <1>7, <1>8, <1>9, <1>10, <1>11
        DEF Next, Main, Acceptor, Receiver

\* A connection passes from the backlog to the accept thread, from there to its
\* receive thread, and back, without being in two hands or in none.
LEMMA NextHandover ==
  ASSUME IInv, [Next]_vars
  PROVE  GreetInv' /\ RegistrySound'
<1>a. TypeOK /\ GreetInv /\ RegistrySound
  BY DEF IInv
<1> USE DEF mainVars, acceptVars, history, GreetInv, RegistrySound, Watched
<1>1. CASE SetState \/ BroadcastBegin \/ BroadcastEnd
  BY <1>1, <1>a DEF SetState, BroadcastBegin, BroadcastEnd
<1>2. ASSUME NEW c \in Clients, BroadcastTo(c)
      PROVE  GreetInv' /\ RegistrySound'
  BY <1>2, <1>a DEF BroadcastTo
<1>3. CASE BroadcastRaw
  BY <1>3, <1>a DEF BroadcastRaw, TypeOK
<1>4. ASSUME NEW c \in Clients, Accept(c)
      PROVE  GreetInv' /\ RegistrySound'
  BY <1>4, <1>a, NoneAssumption DEF Accept, TypeOK
<1>5. CASE GreetRead
  BY <1>5, <1>a, NoneAssumption DEF GreetRead, TypeOK
<1>6. CASE GreetSend
  <2>1. acl \in Clients
    BY <1>6, <1>a DEF GreetSend, TypeOK
  <2>2. CASE csock[acl] = "open"
    BY <1>6, <1>a, <2>1, <2>2, NoneAssumption DEF GreetSend, TypeOK
  <2>3. CASE csock[acl] # "open"
    BY <1>6, <1>a, <2>1, <2>3, NoneAssumption DEF GreetSend, TypeOK
  <2> QED BY <2>2, <2>3
<1>7. CASE AcceptFails
  BY <1>7, <1>a DEF AcceptFails
<1>8. ASSUME NEW c \in Clients, Receiver(c)
      PROVE  GreetInv' /\ RegistrySound'
  <2>1. CASE RecvEnd(c)
    BY <2>1, <1>a DEF RecvEnd, TypeOK
  <2>2. CASE Unlist(c)
    BY <2>2, <1>a DEF Unlist, TypeOK
  <2>3. CASE CloseClient(c)
    BY <2>3, <1>a DEF CloseClient, TypeOK
  <2> QED BY <1>8, <2>1, <2>2, <2>3 DEF Receiver
<1>9. ASSUME NEW c \in Clients, Peer(c)
      PROVE  GreetInv' /\ RegistrySound'
  <2>1. CASE Connect(c)
    BY <2>1, <1>a, NoneAssumption DEF Connect, TypeOK
  <2>2. CASE PeerStalls(c) \/ PeerResumes(c) \/ PeerLeaves(c)
    BY <2>2, <1>a DEF PeerStalls, PeerResumes, PeerLeaves, PeerChanges
  <2> QED BY <1>9, <2>1, <2>2 DEF Peer
<1>10. CASE UNCHANGED vars
  BY <1>10, <1>a DEF vars
<1> QED BY <1>1, <1>2, <1>3, <1>4, <1>5, <1>6, <1>7, <1>8, <1>9, <1>10
        DEF Next, Main, Acceptor

\* No interleaving leaves a client with a status nobody knows to be old.
LEMMA NextStatusCurrent ==
  ASSUME IInv, [Next]_vars
  PROVE  StatusCurrent'
<1>a. TypeOK /\ GreetInv /\ RegistrySound /\ StatusCurrent
  BY DEF IInv
<1> USE DEF mainVars, acceptVars, history, StatusCurrent, Told
<1>1. CASE SetState \/ BroadcastBegin \/ BroadcastEnd
  BY <1>1, <1>a DEF SetState, BroadcastBegin, BroadcastEnd, TypeOK
<1>2. ASSUME NEW c \in Clients, BroadcastTo(c)
      PROVE  StatusCurrent'
  BY <1>2, <1>a DEF BroadcastTo, SendStatus, TypeOK
<1>3. CASE BroadcastRaw
  BY <1>3, <1>a DEF BroadcastRaw
<1>4. ASSUME NEW c \in Clients, Accept(c)
      PROVE  StatusCurrent'
  <2>1. acl = NONE /\ acl' = c
    BY <1>4, <1>a DEF Accept, GreetInv
  <2> QED BY <1>4, <1>a, <2>1, NoneAssumption DEF Accept, TypeOK
<1>5. CASE GreetRead \/ AcceptFails
  BY <1>5, <1>a DEF GreetRead, AcceptFails
<1>6. CASE GreetSend
  <2>1. acl \in Clients
    BY <1>6, <1>a DEF GreetSend, GreetInv, TypeOK
  <2>2. CASE csock[acl] = "open"
    BY <1>6, <1>a, <2>1, <2>2 DEF GreetSend, SendStatus, TypeOK
  <2>3. CASE csock[acl] # "open"
    <3>1. acl \notin clients
      BY <1>a, <2>1, <2>3 DEF RegistrySound
    <3> QED BY <1>6, <1>a, <2>1, <2>3, <3>1 DEF GreetSend, Forget, TypeOK
  <2> QED BY <2>2, <2>3
<1>7. ASSUME NEW c \in Clients, RecvEnd(c) \/ Unlist(c)
      PROVE  StatusCurrent'
  BY <1>7, <1>a DEF RecvEnd, Unlist
<1>8. ASSUME NEW c \in Clients, CloseClient(c)
      PROVE  StatusCurrent'
  <2>1. c \notin clients
    BY <1>8, <1>a DEF CloseClient, RegistrySound
  <2> QED BY <1>8, <1>a, <2>1 DEF CloseClient, Forget, TypeOK
<1>9. ASSUME NEW c \in Clients, Peer(c)
      PROVE  StatusCurrent'
  BY <1>9, <1>a DEF Peer, Connect, PeerStalls, PeerResumes, PeerLeaves, PeerChanges
<1>10. CASE UNCHANGED vars
  BY <1>10, <1>a DEF vars
<1> QED BY <1>1, <1>2, <1>3, <1>4, <1>5, <1>6, <1>7, <1>8, <1>9, <1>10
        DEF Next, Main, Acceptor, Receiver

-----------------------------------------------------------------------------
\* The inductive invariant holds in every behaviour of the relay.
THEOREM InductiveInvariance == Spec => []IInv
<1>1. ASSUME IInv, [Next]_vars
      PROVE  IInv'
  BY <1>1, NextTypeOK, NextHandover, NextStatusCurrent DEF IInv
<1> QED BY <1>1, InitIInv, PTL DEF Spec

\* Types, for any number of clients.
THEOREM TypeInvariance == Spec => []TypeOK
<1>1. IInv => TypeOK
  BY DEF IInv
<1> QED BY <1>1, InductiveInvariance, PTL

\* The main thread never sends to a closed socket and no connection is left
\* without a thread that will notice its end (relay.py:309-319, 343-349, 435-447).
THEOREM RegistryIsSound == Spec => []RegistrySound
<1>1. IInv => RegistrySound
  BY DEF IInv
<1> QED BY <1>1, InductiveInvariance, PTL

\* Whatever the interleaving of greetings, broadcasts and departures, a client
\* whose last status is old lost the newer one or was greeted after it.
THEOREM StatusIsCurrent == Spec => []StatusCurrent
<1>1. IInv => StatusCurrent
  BY DEF IInv
<1> QED BY <1>1, InductiveInvariance, PTL
=============================================================================

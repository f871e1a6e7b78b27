---------------------------- MODULE RelayClients ----------------------------
(***************************************************************************)
(* The relay's TCP clients (class DroneRelay of relay/relay.py): the       *)
(* accept thread that lists and greets them, the receive thread each of    *)
(* them has, and the main thread that tells them every change of state and *)
(* forwards the drone's frames, all sharing the list _clients.             *)
(*                                                                         *)
(* The list is guarded by _clients_lock.  The main thread holds it while   *)
(* it sends; the other threads hold it for a single step.  The greeting is *)
(* sent outside of it.  Of the main thread only its changes of state are   *)
(* kept: any edge of the state machine, which RelaySession justifies.      *)
(***************************************************************************)
EXTENDS RelayState

CONSTANTS Clients,  \* slots for client connections, used again once closed
          NONE      \* no status, no client

ASSUME NoneAssumption == NONE \notin Clients /\ NONE \notin RelayStates

VARIABLES
    \* The main thread.
    state,      \* DroneRelay.state
    mpc,        \* "idle", "lock" before _broadcast_status takes the lock,
                \* "send" while it holds it
    todo,       \* the clients _broadcast_status has still to send to
    clients,    \* DroneRelay._clients, as a set: the order is never used
    \* The accept thread.
    apc,        \* "accept", "read" and "send" in _send_status, "dead"
    acl,        \* the client it is greeting
    greeting,   \* the state it has read for the greeting
    \* The connections.
    csock,      \* "backlog" until accepted, "open", "closed" before and after
    peer,       \* the client "up", "stalled" with all buffers full, or "gone"
    view,       \* the last status that reached the client
    tpc,        \* its receive thread: "none", "recv", "unlist", "close"
    \* History, for the properties.
    overtaken,  \* clients whose last status was a greeting already out of date
    missed      \* clients to whom the last status sent was lost

mainVars   == <<state, mpc, todo>>
acceptVars == <<apc, acl, greeting>>
history    == <<overtaken, missed>>
vars == <<mainVars, clients, acceptVars, csock, peer, view, tpc, history>>

TypeOK ==
    /\ state \in RelayStates
    /\ mpc \in {"idle", "lock", "send"}
    /\ todo \subseteq Clients
    /\ clients \subseteq Clients
    /\ apc \in {"accept", "read", "send", "dead"}
    /\ acl \in Clients \cup {NONE}
    /\ greeting \in RelayStates \cup {NONE}
    /\ csock \in [Clients -> {"backlog", "open", "closed"}]
    /\ peer \in [Clients -> {"up", "stalled", "gone"}]
    /\ view \in [Clients -> RelayStates \cup {NONE}]
    /\ tpc \in [Clients -> {"none", "recv", "unlist", "close"}]
    /\ overtaken \subseteq Clients
    /\ missed \subseteq Clients

Init == /\ state = SCANNING
        /\ mpc = "idle"
        /\ todo = {}
        /\ clients = {}
        /\ apc = "accept"
        /\ acl = NONE
        /\ greeting = NONE
        /\ csock = [c \in Clients |-> "closed"]
        /\ peer = [c \in Clients |-> "gone"]
        /\ view = [c \in Clients |-> NONE]
        /\ tpc = [c \in Clients |-> "none"]
        /\ overtaken = {}
        /\ missed = {}

LockFree == mpc # "send"

\* sock.sendall of a status frame on an open socket: it reaches a client that
\* reads and is lost, with a timeout, if the client does not.  No exception
\* leaves _send_status.
SendStatus(c, status) ==
    IF peer[c] = "up"
      THEN /\ view' = [view EXCEPT ![c] = status]
           /\ missed' = missed \ {c}
           /\ overtaken' = IF status = state THEN overtaken \ {c} ELSE overtaken \cup {c}
      ELSE /\ missed' = missed \cup {c}
           /\ UNCHANGED <<view, overtaken>>

\* Nothing is left of a connection whose last thread is done with it.
Forget(c) == /\ peer' = [peer EXCEPT ![c] = "gone"]
             /\ view' = [view EXCEPT ![c] = NONE]
             /\ missed' = missed \ {c}
             /\ overtaken' = overtaken \ {c}

-----------------------------------------------------------------------------
(* The main thread *)

\* A bug: the fall back to SCANNING is not broadcast.
SetStateSilent ==
    /\ mpc = "idle"
    /\ \E new \in RelayStates :
         /\ <<state, new>> \in Edges
         /\ state' = new
         /\ mpc' = IF new = SCANNING THEN "idle" ELSE "lock"
    /\ UNCHANGED <<todo, clients, acceptVars, csock, peer, view, tpc, history>>

\* The assignment of _set_state.
SetState == /\ mpc = "idle"
            /\ \E new \in RelayStates : <<state, new>> \in Edges /\ state' = new
            /\ mpc' = "lock"
            /\ UNCHANGED <<todo, clients, acceptVars, csock, peer, view, tpc, history>>

\* _broadcast_status: takes the lock and copies the list ...
BroadcastBegin == /\ mpc = "lock"
                  /\ mpc' = "send"
                  /\ todo' = clients
                  /\ UNCHANGED <<state, clients, acceptVars, csock, peer, view, tpc, history>>

\* A bug: the timeout of one client ends the loop.
BroadcastToStops(c) ==
    /\ mpc = "send"
    /\ c \in todo
    /\ todo' = IF peer[c] = "stalled" THEN {} ELSE todo \ {c}
    /\ SendStatus(c, state)
    /\ UNCHANGED <<state, mpc, clients, acceptVars, csock, peer, tpc>>

\* ... sends to one client after the other ...
BroadcastTo(c) == /\ mpc = "send"
                  /\ c \in todo
                  /\ todo' = todo \ {c}
                  /\ SendStatus(c, state)
                  /\ UNCHANGED <<state, mpc, clients, acceptVars, csock, peer, tpc>>

\* ... and releases the lock.
BroadcastEnd == /\ mpc = "send"
                /\ todo = {}
                /\ mpc' = "idle"
                /\ UNCHANGED <<state, todo, clients, acceptVars, csock, peer, view, tpc, history>>

\* A bug: dead clients are closed and stay in the list.
BroadcastRawKeeps ==
    /\ mpc = "idle"
    /\ state = READY
    /\ \E dead \in SUBSET {c \in clients : peer[c] # "up"} :
         /\ dead # {}
         /\ csock' = [c \in Clients |-> IF c \in dead THEN "closed" ELSE csock[c]]
    /\ UNCHANGED <<mainVars, clients, acceptVars, peer, view, tpc, history>>

\* _broadcast_raw finds clients it cannot send to: it unlists and closes them.
\* A stalled client is found out by the timeout, a gone one sooner or later.
BroadcastRaw ==
    /\ mpc = "idle"
    /\ state = READY
    /\ \E dead \in SUBSET {c \in clients : peer[c] # "up"} :
         /\ dead # {}
         /\ {c \in clients : peer[c] = "stalled"} \subseteq dead
         /\ clients' = clients \ dead
         /\ csock' = [c \in Clients |-> IF c \in dead THEN "closed" ELSE csock[c]]
    /\ UNCHANGED <<mainVars, acceptVars, peer, view, tpc, history>>

-----------------------------------------------------------------------------
(* The accept thread *)

Accept(c) == /\ apc = "accept"
             /\ csock[c] = "backlog"
             /\ LockFree
             /\ csock' = [csock EXCEPT ![c] = "open"]
             /\ clients' = clients \cup {c}
             /\ acl' = c
             /\ apc' = "read"
             /\ UNCHANGED <<mainVars, greeting, peer, view, tpc, history>>

\* _send_status reads the state ...
GreetRead == /\ apc = "read"
             /\ greeting' = state
             /\ apc' = "send"
             /\ UNCHANGED <<mainVars, clients, acl, csock, peer, view, tpc, history>>

\* ... and sends it; the receive thread is started.  On a socket that
\* _broadcast_raw has closed meanwhile it dies at once, in settimeout.
GreetSend == /\ apc = "send"
             /\ IF csock[acl] = "open"
                  THEN /\ SendStatus(acl, greeting)
                       /\ tpc' = [tpc EXCEPT ![acl] = "recv"]
                       /\ UNCHANGED peer
                  ELSE /\ Forget(acl)
                       /\ UNCHANGED tpc
             /\ apc' = "accept"
             /\ acl' = NONE
             /\ greeting' = NONE
             /\ UNCHANGED <<mainVars, clients, csock>>

\* accept raises something other than a timeout, an aborted connection or the
\* lack of descriptors: the loop does not catch it and the thread is over.
AcceptFails == /\ apc = "accept"
               /\ \E c \in Clients : csock[c] = "backlog"
               /\ apc' = "dead"
               /\ UNCHANGED <<mainVars, clients, acl, greeting, csock, peer, view, tpc, history>>

-----------------------------------------------------------------------------
(* The receive thread of a client *)

\* A bug: no data is not taken for the end of the stream.
RecvEndClosedOnly(c) ==
    /\ tpc[c] = "recv"
    /\ csock[c] = "closed"
    /\ tpc' = [tpc EXCEPT ![c] = "unlist"]
    /\ UNCHANGED <<mainVars, clients, acceptVars, csock, peer, view, history>>

\* recv returns no data, or raises on a socket closed by _broadcast_raw.
RecvEnd(c) == /\ tpc[c] = "recv"
              /\ peer[c] = "gone" \/ csock[c] = "closed"
              /\ tpc' = [tpc EXCEPT ![c] = "unlist"]
              /\ UNCHANGED <<mainVars, clients, acceptVars, csock, peer, view, history>>

Unlist(c) == /\ tpc[c] = "unlist"
             /\ LockFree
             /\ clients' = clients \ {c}
             /\ tpc' = [tpc EXCEPT ![c] = "close"]
             /\ UNCHANGED <<mainVars, acceptVars, csock, peer, view, history>>

CloseClient(c) == /\ tpc[c] = "close"
                  /\ csock' = [csock EXCEPT ![c] = "closed"]
                  /\ tpc' = [tpc EXCEPT ![c] = "none"]
                  /\ Forget(c)
                  /\ UNCHANGED <<mainVars, clients, acceptVars>>

-----------------------------------------------------------------------------
(* The clients *)

\* A client connects.  Its slot is free once nothing of an earlier one is left.
Connect(c) == /\ csock[c] = "closed"
              /\ tpc[c] = "none"
              /\ acl # c
              /\ csock' = [csock EXCEPT ![c] = "backlog"]
              /\ peer' = [peer EXCEPT ![c] = "up"]
              /\ UNCHANGED <<mainVars, clients, acceptVars, view, tpc, history>>

\* It goes away, or reads again after it had stopped.
PeerChanges(c, from, to) == /\ csock[c] \in {"backlog", "open"}
                            /\ peer[c] \in from
                            /\ peer' = [peer EXCEPT ![c] = to]
                            /\ UNCHANGED <<mainVars, clients, acceptVars, csock, view, tpc, history>>

\* It stops reading until the frames of a drone in READY have filled all buffers.
PeerStalls(c)  == /\ state = READY
                  /\ c \in clients
                  /\ acl # c
                  /\ PeerChanges(c, {"up"}, "stalled")
PeerResumes(c) == PeerChanges(c, {"stalled"}, "up")
PeerLeaves(c)  == PeerChanges(c, {"up", "stalled"}, "gone")

-----------------------------------------------------------------------------
Main == \/ SetState \/ BroadcastBegin \/ (\E c \in Clients : BroadcastTo(c))
        \/ BroadcastEnd \/ BroadcastRaw

Acceptor == (\E c \in Clients : Accept(c)) \/ GreetRead \/ GreetSend \/ AcceptFails

Receiver(c) == RecvEnd(c) \/ Unlist(c) \/ CloseClient(c)

Peer(c) == Connect(c) \/ PeerStalls(c) \/ PeerResumes(c) \/ PeerLeaves(c)

Next == \/ Main
        \/ Acceptor
        \/ \E c \in Clients : Receiver(c) \/ Peer(c)

Spec == Init /\ [][Next]_vars

\* The threads are scheduled.  The main thread always finishes a broadcast, each
\* of its sends having a timeout, but need not change state again.
Broadcast == BroadcastBegin \/ (\E c \in Clients : BroadcastTo(c)) \/ BroadcastEnd

Fairness == /\ WF_vars(Broadcast)
            /\ WF_vars(GreetRead) /\ WF_vars(GreetSend)
            /\ WF_vars((\E c \in Clients : Accept(c)) \/ AcceptFails)
            /\ \A c \in Clients : SF_vars(Receiver(c))

FairSpec == Spec /\ Fairness

-----------------------------------------------------------------------------
(* Properties *)

\* Somebody will notice when client c leaves: its receive thread, or the accept
\* thread that is about to start one.
Watched(c) == tpc[c] \in {"recv", "unlist", "close"} \/ acl = c

\* The main thread never sends to a socket that was closed: a listed client is
\* open and watched.  And no connection leaks: an open one is watched.
RegistrySound ==
    \A c \in Clients : /\ c \in clients => csock[c] = "open" /\ tpc[c] # "close"
                       /\ csock[c] = "open" => Watched(c)

\* The main thread has told client c the present state, or has nothing to tell.
Told(c) == mpc = "idle" \/ (mpc = "send" /\ c \notin todo)

\* Once a broadcast has passed it, every client in the list, greeted before,
\* during or after it, was last sent the present state - however the steps of the
\* three kinds of threads interleave - except if that status was lost or the
\* greeting came after a newer status.
StatusCurrent ==
    \A c \in clients \ (missed \cup overtaken) :
        Told(c) /\ acl # c => view[c] = state

\* A connection whose client has left is closed in the end, whatever broadcasts
\* and greetings are under way.
GoneReleased ==
    \A c \in Clients : (csock[c] = "open" /\ peer[c] = "gone") ~> csock[c] = "closed"

\* "Updated status frames on state changes" (relay.py:14): a change reaches every
\* client that is listed and reads, whoever else does not.
ChangesArrive ==
    \A c \in Clients :
        (mpc = "lock" /\ c \in clients /\ peer[c] = "up")
            ~> (c \in clients /\ peer[c] = "up" => view[c] = state)
=============================================================================

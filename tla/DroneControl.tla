----------------------------- MODULE DroneControl -----------------------------
(***************************************************************************)
(* research/drone_control.py: the command line that talks to the drone     *)
(* without the relay.  Its connect may be given while connected, and       *)
(* disconnect does not wait for the receive thread: that one sits in a     *)
(* recv of up to five seconds, and if connect has succeeded again when it  *)
(* comes out, it goes on with the new socket, beside the new thread.       *)
(*                                                                         *)
(* A connection is numbered by its socket.  _authenticated is left out, as *)
(* it is only ever written; so is what is done with telemetry (Packets).   *)
(***************************************************************************)
EXTENDS Integers, Sequences

CONSTANTS MaxConns,  \* how often connect is given
          MaxInbox   \* how many frames wait in a connection at most

ASSUME BoundAssumption == MaxConns \in Nat \ {0} /\ MaxInbox \in Nat \ {0}

Conns == 1 .. MaxConns
Said  == {"challenge", "bad", "ack", "nack", "telemetry"}

VARIABLES at,       \* the command line: "cli", the steps of connect_and_auth, "gone"
          sock,     \* self.sock, 0 is None
          made,     \* the sockets made
          closed,   \* ... and those closed
          running,  \* _running
          rx, on,   \* each receive thread, named by the connection it was started
                    \* for: where it is, the socket it reads
          drone,    \* what the drone thinks of a connection
          ended,    \* how it has ended it: "no", "eof", "reset"
          inbox,    \* what it has sent
          overdue,  \* the sockets whose connect timed out
          stray     \* the connections on which something came to the drone before
                    \* it had accepted

cliVars   == <<at, sock, made, closed, running>>
rxVars    == <<rx, on>>
droneVars == <<drone, ended, inbox>>
history   == <<overdue, stray>>
vars      == <<cliVars, rxVars, droneVars, history>>

Init == /\ at = "cli" /\ sock = 0 /\ made = 0 /\ closed = {} /\ running = FALSE
        /\ rx = [c \in Conns |-> "none"] /\ on = [c \in Conns |-> 0]
        /\ drone = [c \in Conns |-> "none"] /\ ended = [c \in Conns |-> "no"]
        /\ inbox = [c \in Conns |-> << >>]
        /\ overdue = {} /\ stray = {}

\* A socket nobody refers to any more is closed by Python.
Open(c) == /\ at # "gone" /\ c \in 1 .. made \ closed
           /\ c = sock \/ \E t \in Conns : on[t] = c

\* The TCP connection is there: the drone has answered the SYN of connect.
Linked(c) == Open(c) /\ drone[c] \notin {"none", "pending"} /\ ended[c] = "no"

\* It has not answered yet.
Pending(c) == Open(c) /\ drone[c] = "pending"

-----------------------------------------------------------------------------
(* The drone: it takes a connection sooner or later, or does not, sends a         *)
(* challenge, accepts or refuses the answer, and reports to whom it has accepted. *)

Says(c, frame) == Len(inbox[c]) < MaxInbox /\ inbox' = [inbox EXCEPT ![c] = Append(@, frame)]

\* "bad" is a challenge that is cut, too short or not to be decoded.
Challenge(c) == /\ Linked(c) /\ drone[c] = "new"
                /\ drone' = [drone EXCEPT ![c] = "asked"]
                /\ \E frame \in {"challenge", "bad"} : Says(c, frame)
                /\ UNCHANGED <<cliVars, rxVars, ended, history>>

Decide(c) == /\ Linked(c) /\ drone[c] = "answered"
             /\ \/ drone' = [drone EXCEPT ![c] = "accepted"] /\ Says(c, "ack")
                \/ drone' = [drone EXCEPT ![c] = "refused"] /\ Says(c, "nack")
             /\ UNCHANGED <<cliVars, rxVars, ended, history>>

Report(c) == /\ Linked(c) /\ drone[c] = "accepted" /\ Says(c, "telemetry")
             /\ UNCHANGED <<cliVars, rxVars, drone, ended, history>>

HangUp(c) == /\ Linked(c)
             /\ \E how \in {"eof", "reset"} : ended' = [ended EXCEPT ![c] = how]
             /\ UNCHANGED <<cliVars, rxVars, drone, inbox, history>>

Establish(c) == /\ Pending(c)
                /\ \E state \in {"new", "none"} : drone' = [drone EXCEPT ![c] = state]
                /\ UNCHANGED <<cliVars, rxVars, ended, inbox, history>>

Drone == \E c \in Conns : Establish(c) \/ Challenge(c) \/ Decide(c) \/ Report(c) \/ HangUp(c)

-----------------------------------------------------------------------------
(* connect_and_auth *)

Connect == /\ at = "cli" /\ made < MaxConns
           /\ made' = made + 1 /\ sock' = made + 1 /\ at' = "dial"
           /\ UNCHANGED <<closed, running, rxVars, droneVars, history>>

\* sock.connect sends a SYN, or finds no way to the drone.
Dial == /\ at = "dial"
        /\ \/ at' = "syn" /\ drone' = [drone EXCEPT ![sock] = "pending"]
           \/ at' = "cli" /\ UNCHANGED drone
        /\ UNCHANGED <<sock, made, closed, running, rxVars, ended, inbox, history>>

\* It returns with the connection or raises: refused, reset or after its ten seconds.
\* The socket stays open and in self.sock, also where the drone may still answer.
DialEnds == /\ at = "syn"
            /\ \/ /\ drone[sock] \notin {"none", "pending"} /\ at' = "challenge"
                  /\ UNCHANGED overdue
               \/ (drone[sock] = "none" \/ ended[sock] = "reset") /\ at' = "cli" /\ UNCHANGED overdue
               \/ drone[sock] = "pending" /\ at' = "cli" /\ overdue' = overdue \cup {sock}
            /\ UNCHANGED <<sock, made, closed, running, rxVars, droneVars, stray>>

\* A failure closes the socket but leaves self.sock and _running as they are.
GiveUp == at' = "cli" /\ closed' = closed \cup {sock}

\* A bug: recv waits without a timeout.
FailsPatient == \/ ended[sock] = "eof" /\ inbox[sock] = << >> /\ GiveUp
                \/ ended[sock] = "reset" /\ at' = "gone" /\ UNCHANGED closed

\* How a recv of the handshake fails.  Only a timeout is caught, so that a reset ends
\* the program.
Fails == \/ ended[sock] # "reset" /\ inbox[sock] = << >> /\ GiveUp
         \/ ended[sock] = "reset" /\ at' = "gone" /\ UNCHANGED closed

\* A recv takes some frames of which only the first is looked at.
Reads(c, first) == \E k \in 1 .. Len(inbox[c]) :
                       /\ inbox[c][1] = first
                       /\ inbox' = [inbox EXCEPT ![c] = SubSeq(@, k + 1, Len(@))]

AwaitChallenge ==
    /\ at = "challenge"
    /\ \/ Reads(sock, "challenge") /\ at' = "answer" /\ UNCHANGED closed
       \/ (\E first \in {"bad", "ack", "nack", "telemetry"} : Reads(sock, first)) /\ GiveUp
       \/ Fails /\ UNCHANGED inbox
    /\ UNCHANGED <<sock, made, running, rxVars, drone, ended, history>>

Answer == /\ at = "answer"
          /\ IF ended[sock] = "no"
               THEN at' = "ack" /\ drone' = [drone EXCEPT ![sock] = "answered"] /\ UNCHANGED closed
               ELSE GiveUp /\ UNCHANGED drone
          /\ UNCHANGED <<sock, made, running, rxVars, ended, inbox, history>>

\* A bug: the error bit of the answer is not looked at.
AwaitAckAny ==
    /\ at = "ack"
    /\ \/ /\ \E first \in {"ack", "nack", "telemetry"} : Reads(sock, first)
          /\ at' = "setup" /\ running' = TRUE /\ rx' = [rx EXCEPT ![sock] = "test"]
          /\ UNCHANGED closed
       \/ Fails /\ UNCHANGED <<inbox, running, rx>>
    /\ UNCHANGED <<sock, made, on, drone, ended, history>>

\* Whatever comes without the error bit is taken for the answer: telemetry too, when
\* the answer went to an old receive thread.
AwaitAck ==
    /\ at = "ack"
    /\ \/ /\ \E first \in {"ack", "telemetry"} : Reads(sock, first)
          /\ at' = "setup" /\ running' = TRUE /\ rx' = [rx EXCEPT ![sock] = "test"]
          /\ UNCHANGED closed
       \/ (\E first \in {"nack", "bad"} : Reads(sock, first)) /\ GiveUp /\ UNCHANGED <<running, rx>>
       \/ Fails /\ UNCHANGED <<inbox, running, rx>>
    /\ UNCHANGED <<sock, made, on, drone, ended, history>>

\* Something is sent on self.sock; an error is printed.
Sends == /\ stray' = stray \cup {c \in {sock} \cap Conns : Linked(c) /\ drone[c] # "accepted"}
         /\ UNCHANGED overdue

\* The three frames behind the handshake.
Setup == /\ at = "setup"
         /\ Sends /\ at' = "cli"
         /\ UNCHANGED <<sock, made, closed, running, rxVars, droneVars>>

ConnectAndAuth == Dial \/ DialEnds \/ AwaitChallenge \/ Answer \/ AwaitAck \/ Setup

-----------------------------------------------------------------------------
(* The other commands *)

Command == /\ at = "cli" /\ Sends
           /\ UNCHANGED <<cliVars, rxVars, droneVars>>

\* disconnect, also when the program is quit.
Disconnect == /\ at = "cli"
              /\ at' \in {"cli", "gone"}
              /\ running' = FALSE /\ closed' = closed \cup ({sock} \ {0}) /\ sock' = 0
              /\ UNCHANGED <<made, rxVars, droneVars, history>>

-----------------------------------------------------------------------------
(* _recv_loop of the thread started for connection t *)

\* A bug: the thread keeps the socket it has been started for.
TestOwn(t) ==
    /\ at # "gone" /\ rx[t] = "test"
    /\ IF running /\ sock # 0
         THEN rx' = [rx EXCEPT ![t] = "recv"] /\ on' = [on EXCEPT ![t] = t]
         ELSE rx' = [rx EXCEPT ![t] = "done"] /\ UNCHANGED on
    /\ UNCHANGED <<cliVars, droneVars, history>>

Test(t) == /\ at # "gone" /\ rx[t] = "test"
           /\ IF running /\ sock # 0
                THEN rx' = [rx EXCEPT ![t] = "recv"] /\ on' = [on EXCEPT ![t] = sock]
                ELSE rx' = [rx EXCEPT ![t] = "done"] /\ UNCHANGED on
           /\ UNCHANGED <<cliVars, droneVars, history>>

\* Frames of any kind, a timeout, or an error: the socket is closed, not being
\* connected, or ended by the drone.
Recv(t) == /\ at # "gone" /\ rx[t] = "recv"
           /\ \/ /\ on[t] \notin closed /\ rx' = [rx EXCEPT ![t] = "test"]
                 /\ \E first \in Said : Reads(on[t], first)
              \/ /\ on[t] \in closed \/ Pending(on[t])
                    \/ (Linked(on[t]) /\ inbox[on[t]] = << >>)
                 /\ rx' = [rx EXCEPT ![t] = "test"] /\ UNCHANGED inbox
              \/ /\ \/ on[t] \in closed \/ drone[on[t]] = "none" \/ ended[on[t]] = "reset"
                    \/ (ended[on[t]] = "eof" /\ inbox[on[t]] = << >>)
                 /\ rx' = [rx EXCEPT ![t] = "done"] /\ UNCHANGED inbox
           /\ on' = [on EXCEPT ![t] = 0]
           /\ UNCHANGED <<cliVars, drone, ended, history>>

Next == \/ Drone \/ Connect \/ ConnectAndAuth \/ Command \/ Disconnect
        \/ \E t \in Conns : Test(t) \/ Recv(t)

\* Waits end with a timeout; the drone may be silent and the operator idle.
Fairness == WF_vars(ConnectAndAuth) /\ \A t \in Conns : WF_vars(Test(t) \/ Recv(t))

Spec == Init /\ [][Next]_vars /\ Fairness

-----------------------------------------------------------------------------
(* Properties *)

\* Each variable keeps its type, and the program counters their places.
TypeOK ==
    /\ at \in {"cli", "dial", "syn", "challenge", "answer", "ack", "setup", "gone"}
    /\ made \in 0 .. MaxConns /\ sock \in 0 .. made /\ closed \subseteq Conns
    /\ running \in BOOLEAN /\ overdue \subseteq Conns /\ stray \subseteq Conns
    /\ rx \in [Conns -> {"none", "test", "recv", "done"}] /\ on \in [Conns -> 0 .. MaxConns]
    /\ drone \in [Conns -> {"none", "pending", "new", "asked", "answered", "accepted", "refused"}]
    /\ ended \in [Conns -> {"no", "eof", "reset"}]
    /\ inbox \in [Conns -> Seq(Said)]

\* Nothing but the answer to its challenge comes to the drone on a connection it has
\* not accepted, but where connect timed out (drone_control.py:306): there the socket
\* stays, and commands go to a drone that answers later.  Neither a refusal nor a
\* failure of any other kind lets a command through, nor does connect_and_auth send
\* its frames when an old receive thread has taken a part of the handshake.
NothingBeforeAccept == stray \subseteq overdue

\* A silent, dead or refusing drone, or a thread that takes its frames away, cannot
\* hold up the operator: each connect comes back to the command line, or the program
\* ends.
ConnectReturns == at = "dial" ~> at \in {"cli", "gone"}

\* A connection that has been given up, by a disconnect or by another connect, is let
\* go of for good by the thread that still reads it, however much the drone sends.
OldConnectionDropped == \A c \in Conns : (Open(c) /\ c # sock) ~> []~Open(c)
===============================================================================

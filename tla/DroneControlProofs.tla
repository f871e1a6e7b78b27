-------------------------- MODULE DroneControlProofs --------------------------
(***************************************************************************)
(* Theorems about DroneControl, for any number of connections and frames.  *)
(***************************************************************************)
EXTENDS DroneControl, SequenceTheorems, TLAPS

\* connect_and_auth works on a new socket the drone has not decided about.
HandshakeInv ==
    /\ at \notin {"cli", "gone"} => sock # 0
    /\ at = "dial" => drone[sock] = "none"
    /\ at = "syn" => drone[sock] \in {"none", "pending", "new", "asked"}
    /\ at \in {"challenge", "answer"} => drone[sock] \in {"new", "asked"}
    /\ \A c \in Conns : c > made => drone[c] = "none"

\* What is taken for an acceptance is only sent on an accepted connection.
AcceptanceInv ==
    \A c \in Conns : \A i \in 1 .. Len(inbox[c]) :
        inbox[c][i] \in {"ack", "telemetry"} => drone[c] = "accepted"

\* Where commands are sent, self.sock is accepted, closed, reset, never connected, or
\* one whose connect timed out.
ReachInv ==
    at \in {"cli", "setup"} /\ sock # 0 =>
        \/ sock \in closed \cup overdue
        \/ drone[sock] \in {"none", "accepted"} \/ ended[sock] = "reset"

\* The inductive invariant.
IInv == TypeOK /\ HandshakeInv /\ AcceptanceInv /\ ReachInv /\ NothingBeforeAccept

-----------------------------------------------------------------------------
(* Steps *)

\* self.sock is None or one of the sockets made.
LEMMA SockMade ==
  ASSUME TypeOK
  PROVE  (sock = 0 \/ (sock \in Conns /\ sock <= made)) /\ 0 \in 0 .. made
<1>1. made \in 0 .. MaxConns /\ sock \in 0 .. made
  BY DEF TypeOK
<1> QED BY <1>1, BoundAssumption DEF Conns, BoundAssumption

\* The drone sends a frame.
LEMMA SaysTyped ==
  ASSUME TypeOK, NEW c \in Conns, NEW frame \in Said, Says(c, frame)
  PROVE  /\ inbox' \in [Conns -> Seq(Said)]
         /\ \A d \in Conns : d # c => inbox'[d] = inbox[d]
         /\ Len(inbox[c]) \in Nat /\ Len(inbox'[c]) = Len(inbox[c]) + 1
         /\ inbox'[c][Len(inbox[c]) + 1] = frame
         /\ \A i \in 1 .. Len(inbox[c]) : inbox'[c][i] = inbox[c][i]
<1>1. inbox \in [Conns -> Seq(Said)] /\ inbox[c] \in Seq(Said)
  BY DEF TypeOK
<1>2. inbox' = [inbox EXCEPT ![c] = Append(inbox[c], frame)]
  BY DEF Says
<1>3. Append(inbox[c], frame) \in Seq(Said)
  BY <1>1, AppendProperties
<1>4. inbox'[c] = Append(inbox[c], frame)
  BY <1>1, <1>2
<1>5. inbox' \in [Conns -> Seq(Said)] /\ \A d \in Conns : d # c => inbox'[d] = inbox[d]
  BY <1>1, <1>2, <1>3
<1> QED BY <1>1, <1>4, <1>5, AppendProperties, LenProperties

\* Somebody reads frames: what is left was there before.
LEMMA ReadsTyped ==
  ASSUME TypeOK, NEW c \in Conns, NEW first, Reads(c, first)
  PROVE  /\ inbox' \in [Conns -> Seq(Said)]
         /\ 1 \in 1 .. Len(inbox[c]) /\ inbox[c][1] = first
         /\ \A d \in Conns : d # c => inbox'[d] = inbox[d]
         /\ \A i \in 1 .. Len(inbox'[c]) : \E j \in 1 .. Len(inbox[c]) : inbox'[c][i] = inbox[c][j]
<1>1. inbox \in [Conns -> Seq(Said)] /\ inbox[c] \in Seq(Said) /\ Len(inbox[c]) \in Nat
  BY DEF TypeOK
<1>2. PICK k \in 1 .. Len(inbox[c]) :
        /\ inbox[c][1] = first
        /\ inbox' = [inbox EXCEPT ![c] = SubSeq(inbox[c], k + 1, Len(inbox[c]))]
  BY DEF Reads
<1> DEFINE s == inbox[c]
           rest == SubSeq(s, k + 1, Len(s))
<1>3. k + 1 \in Int /\ Len(s) \in Int /\ \A i \in k + 1 .. Len(s) : s[i] \in Said
  BY <1>1, ElementOfSeq
<1>4. /\ rest \in Seq(Said)
      /\ Len(rest) = (IF k + 1 <= Len(s) THEN Len(s) - (k + 1) + 1 ELSE 0)
      /\ \A i \in 1 .. Len(s) - (k + 1) + 1 : rest[i] = s[k + 1 + i - 1]
  BY <1>3, SubSeqProperties
<1>5. inbox'[c] = rest /\ \A d \in Conns : d # c => inbox'[d] = inbox[d]
  BY <1>1, <1>2
<1>6. inbox' \in [Conns -> Seq(Said)]
  BY <1>1, <1>2, <1>4
<1> HIDE DEF s, rest
<1>7. ASSUME NEW i \in 1 .. Len(rest)
      PROVE  \E j \in 1 .. Len(s) : rest[i] = s[j]
  <2>1. k + 1 + i - 1 \in 1 .. Len(s) /\ i \in 1 .. Len(s) - (k + 1) + 1
    BY <1>1, <1>4 DEF s
  <2> QED BY <1>4, <2>1
<1> QED BY <1>1, <1>2, <1>5, <1>6, <1>7 DEF s

\* At first nothing is connected.
LEMMA InitIInv == Init => IInv
<1> SUFFICES ASSUME Init PROVE IInv
  OBVIOUS
<1>1. TypeOK
  <2>1. 0 \in 0 .. MaxConns /\ 0 \in 0 .. 0 /\ << >> \in Seq(Said)
    BY BoundAssumption DEF BoundAssumption
  <2>2. inbox \in [Conns -> Seq(Said)] /\ made \in 0 .. MaxConns /\ sock \in 0 .. made
    BY <2>1 DEF Init
  <2>3. running \in BOOLEAN
    BY DEF Init
  <2> QED BY <2>1, <2>2, <2>3 DEF Init, TypeOK
<1>2. HandshakeInv /\ AcceptanceInv /\ ReachInv /\ NothingBeforeAccept
  BY DEF Init, HandshakeInv, AcceptanceInv, ReachInv, NothingBeforeAccept, Conns
<1> QED BY <1>1, <1>2 DEF IInv

\* The drone answers on a connection, decides about it or ends it.
LEMMA DroneStep ==
  ASSUME IInv, Drone
  PROVE  IInv'
<1>0. TypeOK /\ HandshakeInv /\ AcceptanceInv /\ ReachInv /\ NothingBeforeAccept
  BY DEF IInv
<1>1. PICK c \in Conns : Establish(c) \/ Challenge(c) \/ Decide(c) \/ Report(c) \/ HangUp(c)
  BY DEF Drone
<1> USE DEF cliVars, rxVars, history
<1>2. UNCHANGED <<at, sock, made, closed, running, rx, on, overdue, stray>> /\ c \in 1 .. made \ closed
  BY <1>1 DEF Establish, Challenge, Decide, Report, HangUp, Linked, Pending, Open
<1>3. drone[c] # "none"
  BY <1>1 DEF Establish, Challenge, Decide, Report, HangUp, Linked, Pending
<1>4. CASE HangUp(c)
  <2>1. /\ ended' \in [Conns -> {"no", "eof", "reset"}] /\ UNCHANGED <<drone, inbox>>
        /\ \A d \in Conns : ended[d] = "reset" => ended'[d] = "reset"
    BY <1>0, <1>4 DEF HangUp, Linked, TypeOK
  <2>2. TypeOK'
    BY <1>0, <1>2, <2>1 DEF TypeOK
  <2>3. HandshakeInv' /\ AcceptanceInv' /\ ReachInv' /\ NothingBeforeAccept'
    BY <1>0, <1>2, <2>1, SockMade
       DEF HandshakeInv, AcceptanceInv, ReachInv, NothingBeforeAccept
  <2> QED BY <2>2, <2>3 DEF IInv
<1>5. CASE Challenge(c) \/ Decide(c) \/ Report(c)
  <2>1. PICK frame \in Said, state \in {"asked", "accepted", "refused"} :
          /\ Says(c, frame) /\ drone' = [drone EXCEPT ![c] = state] /\ UNCHANGED ended
          /\ frame \in {"ack", "telemetry"} => state = "accepted"
          /\ drone[c] = "accepted" => state = "accepted"
          /\ drone[c] = "new" => state = "asked"
          /\ drone[c] \in {"new", "answered", "accepted"}
    <3>1. CASE Challenge(c)
      BY <1>0, <3>1 DEF Challenge, Said
    <3>2. CASE Decide(c)
      BY <1>0, <3>2 DEF Decide, Said
    <3>3. CASE Report(c)
      <4>1. drone = [drone EXCEPT ![c] = "accepted"]
        BY <1>0, <3>3 DEF Report, TypeOK
      <4> QED BY <3>3, <4>1 DEF Report, Said
    <3> QED BY <1>5, <3>1, <3>2, <3>3
  <2>2. /\ inbox' \in [Conns -> Seq(Said)]
        /\ \A d \in Conns : d # c => inbox'[d] = inbox[d]
        /\ Len(inbox[c]) \in Nat /\ Len(inbox'[c]) = Len(inbox[c]) + 1
        /\ inbox'[c][Len(inbox[c]) + 1] = frame
        /\ \A i \in 1 .. Len(inbox[c]) : inbox'[c][i] = inbox[c][i]
    BY <1>0, <2>1, SaysTyped
  <2>3. /\ drone' \in [Conns -> {"none", "pending", "new", "asked", "answered", "accepted",
                                 "refused"}]
        /\ drone'[c] = state /\ \A d \in Conns : d # c => drone'[d] = drone[d]
    BY <1>0, <2>1 DEF TypeOK
  <2>4. TypeOK'
    BY <1>0, <1>2, <2>1, <2>2, <2>3 DEF TypeOK
  <2>5. HandshakeInv'
    BY <1>0, <1>2, <1>3, <2>1, <2>3 DEF HandshakeInv, TypeOK, Conns
  <2>6. AcceptanceInv'
    <3> SUFFICES ASSUME NEW d \in Conns, NEW i \in 1 .. Len(inbox'[d]),
                        inbox'[d][i] \in {"ack", "telemetry"}
                 PROVE  drone'[d] = "accepted"
      BY DEF AcceptanceInv
    <3>1. CASE d # c
      BY <1>0, <2>2, <2>3, <3>1 DEF AcceptanceInv
    <3>2. CASE d = c /\ i = Len(inbox[c]) + 1
      BY <2>1, <2>2, <2>3, <3>2
    <3>3. CASE d = c /\ i \in 1 .. Len(inbox[c])
      BY <1>0, <2>1, <2>2, <2>3, <3>3 DEF AcceptanceInv
    <3> QED BY <2>2, <3>1, <3>2, <3>3
  <2>7. ReachInv'
    BY <1>0, <1>2, <1>3, <2>1, <2>3 DEF ReachInv, TypeOK, Conns
  <2> QED BY <1>0, <1>2, <2>4, <2>5, <2>6, <2>7 DEF IInv, NothingBeforeAccept
<1>6. CASE Establish(c)
  <2>1. PICK state \in {"new", "none"} : drone' = [drone EXCEPT ![c] = state]
    BY <1>6 DEF Establish
  <2>2. drone[c] = "pending" /\ UNCHANGED <<ended, inbox>>
    BY <1>6 DEF Establish, Pending
  <2>3. /\ drone' \in [Conns -> {"none", "pending", "new", "asked", "answered", "accepted",
                                 "refused"}]
        /\ drone'[c] = state /\ \A d \in Conns : d # c => drone'[d] = drone[d]
    BY <1>0, <2>1 DEF TypeOK
  <2>4. TypeOK'
    BY <1>0, <1>2, <2>2, <2>3 DEF TypeOK
  <2>5. HandshakeInv'
    <3>1. c \in 1 .. made /\ made \in Nat /\ (sock = 0 \/ sock \in Conns)
      BY <1>0, <1>2, SockMade DEF TypeOK
    <3>2. at = "dial" \/ at \in {"challenge", "answer"} => sock # c
      BY <1>0, <2>2 DEF HandshakeInv
    <3>3. \A d \in Conns : d > made => drone'[d] = "none"
      BY <1>0, <2>3, <3>1 DEF HandshakeInv, Conns
    <3> QED BY <1>0, <1>2, <2>3, <3>1, <3>2, <3>3 DEF HandshakeInv
  <2>6. ReachInv' /\ NothingBeforeAccept'
    BY <1>0, <1>2, <2>2, <2>3, SockMade DEF ReachInv, NothingBeforeAccept
  <2>7. AcceptanceInv'
    BY <1>0, <2>2, <2>3 DEF AcceptanceInv
  <2> QED BY <2>4, <2>5, <2>6, <2>7 DEF IInv
<1> QED BY <1>1, <1>4, <1>5, <1>6

\* A frame that was read is dropped; what is left is as acceptable as before.
LEMMA ReadsAcceptance ==
  ASSUME TypeOK, AcceptanceInv, NEW c \in Conns, NEW first, Reads(c, first), UNCHANGED drone
  PROVE  /\ inbox' \in [Conns -> Seq(Said)]
         /\ AcceptanceInv'
         /\ first \in {"ack", "telemetry"} => drone[c] = "accepted"
<1>1. /\ inbox' \in [Conns -> Seq(Said)]
      /\ 1 \in 1 .. Len(inbox[c]) /\ inbox[c][1] = first
      /\ \A d \in Conns : d # c => inbox'[d] = inbox[d]
      /\ \A i \in 1 .. Len(inbox'[c]) : \E j \in 1 .. Len(inbox[c]) : inbox'[c][i] = inbox[c][j]
  BY ReadsTyped
<1>2. AcceptanceInv'
  <2> SUFFICES ASSUME NEW d \in Conns, NEW i \in 1 .. Len(inbox'[d]),
                      inbox'[d][i] \in {"ack", "telemetry"}
               PROVE  drone[d] = "accepted"
    BY DEF AcceptanceInv
  <2>1. \E j \in 1 .. Len(inbox[d]) : inbox'[d][i] = inbox[d][j]
    BY <1>1
  <2> QED BY <2>1 DEF AcceptanceInv
<1> QED BY <1>1, <1>2 DEF AcceptanceInv

\* connect makes a socket the drone does not know yet, and dials: whatever way that
\* fails but by its timeout, the connection is none.
LEMMA DialStep ==
  ASSUME IInv, Connect \/ Dial \/ DialEnds
  PROVE  IInv'
<1>0. TypeOK /\ HandshakeInv /\ AcceptanceInv /\ ReachInv /\ NothingBeforeAccept
  BY DEF IInv
<1> USE DEF cliVars, rxVars, droneVars, history
<1>1. CASE Connect
  <2>1. made + 1 \in 0 .. MaxConns /\ made + 1 \in Conns /\ made + 1 > made /\ made \in Nat
    BY <1>0, <1>1, BoundAssumption DEF Connect, TypeOK, Conns, BoundAssumption
  <2>2. /\ made' = made + 1 /\ sock' = made + 1 /\ at' = "dial"
        /\ UNCHANGED <<closed, running, rx, on, drone, ended, inbox, overdue, stray>>
    BY <1>1 DEF Connect
  <2>3. TypeOK'
    BY <1>0, <2>1, <2>2 DEF TypeOK
  <2>4. HandshakeInv' /\ AcceptanceInv' /\ ReachInv' /\ NothingBeforeAccept'
    BY <1>0, <2>1, <2>2 DEF HandshakeInv, AcceptanceInv, ReachInv, NothingBeforeAccept, Conns
  <2> QED BY <2>3, <2>4 DEF IInv
<1>2. CASE Dial
  <2>1. sock \in Conns /\ drone[sock] = "none" /\ sock <= made /\ at = "dial"
    BY <1>0, <1>2, SockMade DEF Dial, HandshakeInv
  <2>2. UNCHANGED <<sock, made, closed, running, rx, on, ended, inbox, overdue, stray>>
    BY <1>2 DEF Dial
  <2>3. CASE at' = "syn" /\ drone' = [drone EXCEPT ![sock] = "pending"]
    <3>1. /\ drone' \in [Conns -> {"none", "pending", "new", "asked", "answered", "accepted",
                                   "refused"}]
          /\ drone'[sock] = "pending" /\ \A d \in Conns : d # sock => drone'[d] = drone[d]
      BY <1>0, <2>1, <2>3 DEF TypeOK
    <3>2. TypeOK'
      BY <1>0, <2>2, <2>3, <3>1 DEF TypeOK
    <3>3. HandshakeInv' /\ ReachInv' /\ NothingBeforeAccept'
      BY <1>0, <2>1, <2>2, <2>3, <3>1 DEF HandshakeInv, ReachInv, NothingBeforeAccept, TypeOK, Conns
    <3>4. AcceptanceInv'
      BY <1>0, <2>1, <2>2, <3>1 DEF AcceptanceInv
    <3> QED BY <3>2, <3>3, <3>4 DEF IInv
  <2>4. CASE at' = "cli" /\ UNCHANGED drone
    <3>1. TypeOK'
      BY <1>0, <2>2, <2>4 DEF TypeOK
    <3>2. HandshakeInv' /\ AcceptanceInv' /\ ReachInv' /\ NothingBeforeAccept'
      BY <1>0, <2>1, <2>2, <2>4
         DEF HandshakeInv, AcceptanceInv, ReachInv, NothingBeforeAccept
    <3> QED BY <3>1, <3>2 DEF IInv
  <2> QED BY <1>2, <2>3, <2>4 DEF Dial
<1>3. CASE DialEnds
  <2>1. sock \in Conns /\ sock <= made /\ at = "syn"
    BY <1>0, <1>3, SockMade DEF DialEnds, HandshakeInv
  <2>2. drone[sock] \in {"none", "pending", "new", "asked"}
    BY <1>0, <2>1 DEF HandshakeInv
  <2>3. UNCHANGED <<sock, made, closed, running, rx, on, drone, ended, inbox, stray>>
    BY <1>3 DEF DialEnds
  <2>4. \/ drone[sock] \in {"new", "asked"} /\ at' = "challenge" /\ UNCHANGED overdue
        \/ (drone[sock] = "none" \/ ended[sock] = "reset") /\ at' = "cli" /\ UNCHANGED overdue
        \/ at' = "cli" /\ overdue' = overdue \cup {sock}
    BY <1>3, <2>2 DEF DialEnds
  <2>5. TypeOK'
    <3>1. overdue' \subseteq Conns
      BY <1>0, <2>1, <2>4 DEF TypeOK
    <3> QED BY <1>0, <2>3, <2>4, <3>1 DEF TypeOK
  <2>6. HandshakeInv' /\ AcceptanceInv' /\ ReachInv' /\ NothingBeforeAccept'
    BY <1>0, <2>1, <2>3, <2>4
       DEF HandshakeInv, AcceptanceInv, ReachInv, NothingBeforeAccept
  <2> QED BY <2>5, <2>6 DEF IInv
<1> QED BY <1>1, <1>2, <1>3

\* A wait of the handshake: whatever way it fails, self.sock is closed or the
\* program over, and it only succeeds with a frame the drone sends to whom it accepts.
LEMMA AwaitStep ==
  ASSUME IInv, AwaitChallenge \/ AwaitAck
  PROVE  IInv'
<1>0. TypeOK /\ HandshakeInv /\ AcceptanceInv /\ ReachInv /\ NothingBeforeAccept
  BY DEF IInv
<1>1. at \in {"challenge", "ack"} /\ sock \in Conns
  BY <1>0, SockMade DEF AwaitChallenge, AwaitAck, HandshakeInv
<1>2. UNCHANGED <<sock, made, on, drone, ended, overdue, stray>>
  BY DEF AwaitChallenge, AwaitAck, rxVars, history
<1>3. inbox' \in [Conns -> Seq(Said)] /\ AcceptanceInv'
  <2>1. CASE UNCHANGED inbox
    BY <1>0, <1>2, <2>1 DEF TypeOK, AcceptanceInv
  <2>2. ASSUME NEW first \in Said, Reads(sock, first)
        PROVE  inbox' \in [Conns -> Seq(Said)] /\ AcceptanceInv'
    BY <1>0, <1>1, <1>2, <2>2, ReadsAcceptance
  <2> QED BY <2>1, <2>2 DEF AwaitChallenge, AwaitAck, Said
<1>4. /\ rx' \in [Conns -> {"none", "test", "recv", "done"}] /\ running' \in BOOLEAN
      /\ closed' \subseteq Conns
  <2>1. closed' \subseteq Conns
    BY <1>0, <1>1 DEF AwaitChallenge, AwaitAck, GiveUp, Fails, TypeOK
  <2>2. UNCHANGED <<rx, running>> \/ (rx' = [rx EXCEPT ![sock] = "test"] /\ running' = TRUE)
    BY DEF AwaitChallenge, AwaitAck, rxVars
  <2> QED BY <1>0, <1>1, <2>1, <2>2 DEF TypeOK
<1>5. \/ at' = "gone"
      \/ at' = "cli" /\ sock \in closed'
      \/ at = "challenge" /\ at' = "answer"
      \/ at' = "setup" /\ drone[sock] = "accepted"
  <2>1. CASE AwaitChallenge
    BY <2>1 DEF AwaitChallenge, GiveUp, Fails
  <2>2. CASE AwaitAck
    <3>1. ASSUME NEW first \in {"ack", "telemetry"}, Reads(sock, first)
          PROVE  drone[sock] = "accepted"
      BY <1>0, <1>1, <1>2, <3>1, ReadsAcceptance
    <3> QED BY <2>2, <3>1 DEF AwaitAck, GiveUp, Fails
  <2> QED BY <2>1, <2>2
<1>6. TypeOK'
  BY <1>0, <1>2, <1>3, <1>4, <1>5 DEF TypeOK
<1>7. HandshakeInv' /\ ReachInv' /\ NothingBeforeAccept'
  BY <1>0, <1>1, <1>2, <1>5 DEF HandshakeInv, ReachInv, NothingBeforeAccept
<1> QED BY <1>3, <1>6, <1>7 DEF IInv

\* The answer of the challenge.
LEMMA AnswerStep ==
  ASSUME IInv, Answer
  PROVE  IInv'
<1>0. TypeOK /\ HandshakeInv /\ AcceptanceInv /\ ReachInv /\ NothingBeforeAccept
  BY DEF IInv
<1>1. at = "answer" /\ sock \in Conns /\ drone[sock] \in {"new", "asked"}
  BY <1>0, SockMade DEF Answer, HandshakeInv
<1>2. UNCHANGED <<sock, made, running, rx, on, ended, inbox, overdue, stray>>
  BY DEF Answer, rxVars, history
<1>3. CASE at' = "ack" /\ drone' = [drone EXCEPT ![sock] = "answered"] /\ UNCHANGED closed
  <2>1. /\ drone' \in [Conns -> {"none", "pending", "new", "asked", "answered", "accepted",
                                 "refused"}]
        /\ drone'[sock] = "answered" /\ \A d \in Conns : d # sock => drone'[d] = drone[d]
    BY <1>0, <1>1, <1>3 DEF TypeOK
  <2>2. TypeOK'
    BY <1>0, <1>2, <1>3, <2>1 DEF TypeOK
  <2>3. HandshakeInv' /\ ReachInv' /\ NothingBeforeAccept'
    BY <1>0, <1>1, <1>2, <1>3, <2>1 DEF HandshakeInv, ReachInv, NothingBeforeAccept
  <2>4. AcceptanceInv'
    BY <1>0, <1>1, <1>2, <2>1 DEF AcceptanceInv
  <2> QED BY <2>2, <2>3, <2>4 DEF IInv
<1>4. CASE at' = "cli" /\ closed' = closed \cup {sock} /\ UNCHANGED drone
  <2>1. TypeOK'
    BY <1>0, <1>1, <1>2, <1>4 DEF TypeOK
  <2>2. HandshakeInv' /\ AcceptanceInv' /\ ReachInv' /\ NothingBeforeAccept'
    BY <1>0, <1>1, <1>2, <1>4 DEF HandshakeInv, AcceptanceInv, ReachInv, NothingBeforeAccept
  <2> QED BY <2>1, <2>2 DEF IInv
<1> QED BY <1>3, <1>4 DEF Answer, GiveUp

\* What is sent on self.sock does not come to a drone that has not accepted it, unless
\* connect timed out there.
LEMMA SendStep ==
  ASSUME IInv, Setup \/ Command \/ Disconnect
  PROVE  IInv'
<1>0. TypeOK /\ HandshakeInv /\ AcceptanceInv /\ ReachInv /\ NothingBeforeAccept
  BY DEF IInv
<1> USE DEF rxVars, droneVars, cliVars, history
<1>1. CASE Setup \/ Command
  <2>1. UNCHANGED <<sock, made, closed, running, rx, on, drone, ended, inbox>> /\ at' = "cli"
    BY <1>1 DEF Setup, Command
  <2>2. sock # 0 => ~Linked(sock) \/ drone[sock] = "accepted" \/ sock \in overdue
    BY <1>0, <1>1 DEF Setup, Command, ReachInv, Linked, Open
  <2>3. stray' \subseteq overdue /\ overdue' = overdue
    BY <1>0, <1>1, <2>2 DEF Setup, Command, Sends, NothingBeforeAccept, Conns
  <2>4. TypeOK'
    BY <1>0, <2>1, <2>3 DEF TypeOK
  <2>5. HandshakeInv' /\ AcceptanceInv' /\ ReachInv' /\ NothingBeforeAccept'
    BY <1>0, <1>1, <2>1, <2>3
       DEF Setup, Command, HandshakeInv, AcceptanceInv, ReachInv, NothingBeforeAccept
  <2> QED BY <2>4, <2>5 DEF IInv
<1>2. CASE Disconnect
  <2>1. /\ at' \in {"cli", "gone"} /\ running' = FALSE /\ sock' = 0
        /\ closed' = closed \cup ({sock} \ {0})
        /\ UNCHANGED <<made, rx, on, drone, ended, inbox, overdue, stray>>
    BY <1>2 DEF Disconnect
  <2>2. closed' \subseteq Conns /\ sock' \in 0 .. made
    <3>1. closed \subseteq Conns
      BY <1>0 DEF TypeOK
    <3> QED BY <1>0, <2>1, <3>1, SockMade
  <2>3. TypeOK'
    BY <1>0, <2>1, <2>2 DEF TypeOK
  <2>4. HandshakeInv' /\ AcceptanceInv' /\ ReachInv' /\ NothingBeforeAccept'
    BY <1>0, <2>1 DEF HandshakeInv, AcceptanceInv, ReachInv, NothingBeforeAccept
  <2> QED BY <2>3, <2>4 DEF IInv
<1> QED BY <1>1, <1>2

\* The receive threads only take frames away.
LEMMA ReceiveStep ==
  ASSUME IInv, NEW t \in Conns, Test(t) \/ Recv(t)
  PROVE  IInv'
<1>0. TypeOK /\ HandshakeInv /\ AcceptanceInv /\ ReachInv /\ NothingBeforeAccept
  BY DEF IInv
<1> USE DEF cliVars, droneVars, history
<1>1. UNCHANGED <<at, sock, made, closed, running, drone, ended, overdue, stray>>
  BY DEF Test, Recv
<1>2. /\ rx' \in [Conns -> {"none", "test", "recv", "done"}]
      /\ on' \in [Conns -> 0 .. MaxConns]
  <2>1. sock \in 0 .. MaxConns /\ 0 \in 0 .. MaxConns
    BY <1>0, BoundAssumption DEF TypeOK, BoundAssumption
  <2>2. UNCHANGED on \/ \E s \in 0 .. MaxConns : on' = [on EXCEPT ![t] = s]
    BY <2>1 DEF Test, Recv
  <2>3. \E p \in {"test", "recv", "done"} : rx' = [rx EXCEPT ![t] = p]
    BY DEF Test, Recv
  <2> QED BY <1>0, <2>2, <2>3 DEF TypeOK
<1>3. inbox' \in [Conns -> Seq(Said)] /\ AcceptanceInv'
  <2>1. CASE UNCHANGED inbox
    BY <1>0, <1>1, <2>1 DEF TypeOK, AcceptanceInv
  <2>2. ASSUME NEW first \in Said, Reads(on[t], first)
        PROVE  inbox' \in [Conns -> Seq(Said)] /\ AcceptanceInv'
    <3>1. CASE on[t] \in Conns
      BY <1>0, <1>1, <2>2, <3>1, ReadsAcceptance
    <3>2. CASE on[t] \notin Conns
      <4>1. inbox' = inbox
        BY <1>0, <2>2, <3>2 DEF Reads, TypeOK
      <4> QED BY <2>1, <4>1
    <3> QED BY <3>1, <3>2
  <2> QED BY <2>1, <2>2 DEF Test, Recv
<1>4. TypeOK'
  BY <1>0, <1>1, <1>2, <1>3 DEF TypeOK
<1>5. HandshakeInv' /\ ReachInv' /\ NothingBeforeAccept'
  BY <1>0, <1>1 DEF HandshakeInv, ReachInv, NothingBeforeAccept
<1> QED BY <1>3, <1>4, <1>5 DEF IInv

-----------------------------------------------------------------------------
(* The theorems *)

LEMMA Inductive == Spec => []IInv
<1>1. IInv /\ UNCHANGED vars => IInv'
  BY DEF IInv, vars, cliVars, rxVars, droneVars, history, TypeOK, HandshakeInv, AcceptanceInv, ReachInv,
         NothingBeforeAccept
<1>2. IInv /\ [Next]_vars => IInv'
  BY <1>1, DroneStep, DialStep, AwaitStep, AnswerStep, SendStep, ReceiveStep
     DEF Next, ConnectAndAuth
<1> QED BY InitIInv, <1>2, PTL DEF Spec

\* The variables keep their types.
THEOREM TypeInvariance == Spec => []TypeOK
<1>1. IInv => TypeOK
  BY DEF IInv
<1> QED BY Inductive, <1>1, PTL

\* However often connect is given, and whatever an earlier receive thread takes of a
\* handshake, nothing but the answer reaches a drone that has not accepted it, save on
\* a socket whose connect timed out.
THEOREM NothingStrays == Spec => []NothingBeforeAccept
<1>1. IInv => NothingBeforeAccept
  BY DEF IInv
<1> QED BY Inductive, <1>1, PTL
===============================================================================

---------------------------- MODULE VideoRegistry ----------------------------
(***************************************************************************)
(* Who gets the drone's video: the table _video_clients of the relay       *)
(* (_video_relay_loop of relay/relay.py) and the clients that have to      *)
(* renew their entry (start and _recv_loop of client/video.py).  Datagrams *)
(* may be lost, the relay may be started anew.                             *)
(*                                                                         *)
(* Time passes in ticks.  Receivers wait in recvfrom, at most Poll, and in *)
(* on_packet, for as long as it takes: the dashboard's sends to its pages, *)
(* and nothing limits how long a page may hold it up.  The rest takes no   *)
(* time: Tick waits for it.                                                *)
(***************************************************************************)
EXTENDS Integers

CONSTANTS Clients,  \* sockets of video receivers
          Timeout,  \* VIDEO_CLIENT_TIMEOUT, 30 seconds
          Period,   \* a client renews its entry when it is older, 10 seconds
          Poll,     \* the timeout of recvfrom, 2 seconds
          MaxHeld,  \* bounds the ticks counted while on_packet is held up
          ABSENT    \* no entry

ASSUME TimeAssumption == {Timeout, Period, Poll, MaxHeld} \subseteq Nat \ {0}
ASSUME AbsentAssumption == ABSENT \notin Nat

Longest == Period + Poll

\* An entry outlives one renewal that is lost, if on_packet delays this and the next
\* by h ticks: in the code by three seconds.
Quick(h) == 2 * (Longest + h) <= Timeout

\* The code's values fit, if nothing is held up, and time is counted for long enough.
ASSUME OneLossAssumption == Quick(0)
ASSUME HeldAssumption == MaxHeld > Period /\ ~Quick(MaxHeld)

VARIABLES age,   \* the relay's table: the ticks since each client was seen
          listens, \* client_reg_loop, the relay's thread for registrations, runs
          cpc,   \* a client is "off", in "recv", in the "call" of on_packet or
                 \* about to "check" its entry
          since, \* the ticks since it last sent a registration
          wait,  \* the ticks it has spent in recvfrom
          held,  \* the ticks it has spent in on_packet, in this round
          lost,  \* history: how many registrations in a row did not get into the
                 \* table, or 2 when the relay forgot the client by starting anew
          slow   \* history: those held up, since one got there, for too long

clientVars == <<cpc, since, wait, held>>
vars == <<age, listens, clientVars, lost, slow>>

TypeOK == /\ age \in [Clients -> Nat \cup {ABSENT}]
          /\ listens \in BOOLEAN
          /\ cpc \in [Clients -> {"off", "recv", "call", "check"}]
          /\ since \in [Clients -> Nat]
          /\ wait \in [Clients -> 0 .. Poll]
          /\ held \in [Clients -> 0 .. MaxHeld]
          /\ lost \in [Clients -> 0 .. 2]
          /\ slow \subseteq Clients

Init == /\ age = [c \in Clients |-> ABSENT]
        /\ listens = TRUE
        /\ cpc = [c \in Clients |-> "off"]
        /\ since = [c \in Clients |-> 0]
        /\ wait = [c \in Clients |-> 0]
        /\ held = [c \in Clients |-> 0]
        /\ lost = [c \in Clients |-> 0]
        /\ slow = {}

-----------------------------------------------------------------------------
(* The receivers *)

\* A registration packet: client_reg_loop enters its sender, or nobody takes it.
Register(c, misses) ==
    /\ since' = [since EXCEPT ![c] = 0]
    /\ \/ /\ listens
          /\ age' = [age EXCEPT ![c] = 0]
          /\ lost' = [lost EXCEPT ![c] = 0]
          /\ slow' = slow \ {c}
       \/ /\ lost' = [lost EXCEPT ![c] = misses]
          /\ UNCHANGED <<age, slow>>

Enter(c, place) == /\ cpc' = [cpc EXCEPT ![c] = place]
                   /\ wait' = [wait EXCEPT ![c] = 0]
                   /\ held' = [held EXCEPT ![c] = 0]

\* VideoReceiver.start
Start(c) == /\ cpc[c] = "off" /\ age[c] = ABSENT
            /\ Register(c, 2)
            /\ Enter(c, "recv")
            /\ UNCHANGED listens

\* recvfrom has waited for Poll ticks.
RecvTimeout(c) == /\ cpc[c] = "recv" /\ wait[c] = Poll
                  /\ cpc' = [cpc EXCEPT ![c] = "check"]
                  /\ UNCHANGED <<age, listens, since, wait, held, lost, slow>>

\* recvfrom has a packet.  The relay had the client in its table when it sent it:
\* it may have waited in the socket since.
RecvPacket(c) == /\ cpc[c] = "recv"
                 /\ cpc' = [cpc EXCEPT ![c] = "call"]
                 /\ UNCHANGED <<age, listens, since, wait, held, lost, slow>>

\* on_packet returns.
Return(c) == /\ cpc[c] = "call"
             /\ cpc' = [cpc EXCEPT ![c] = "check"]
             /\ UNCHANGED <<age, listens, since, wait, held, lost, slow>>

\* A bug: the registration is renewed after a timeout of recvfrom alone.
CheckIdle(c) == /\ cpc[c] = "check"
                /\ IF since[c] > Period /\ wait[c] = Poll
                     THEN Register(c, IF lost[c] = 0 THEN 1 ELSE 2)
                     ELSE UNCHANGED <<age, since, lost, slow>>
                /\ Enter(c, "recv")
                /\ UNCHANGED listens

\* A bug: the clock of the registrations is set, but none is sent.
CheckForgets(c) == /\ cpc[c] = "check"
                   /\ since' = [since EXCEPT ![c] = IF @ > Period THEN 0 ELSE @]
                   /\ Enter(c, "recv")
                   /\ UNCHANGED <<age, listens, lost, slow>>

\* The end of a round of VideoReceiver._recv_loop.
Check(c) == /\ cpc[c] = "check"
            /\ IF since[c] > Period
                 THEN Register(c, IF lost[c] = 0 THEN 1 ELSE 2)
                 ELSE UNCHANGED <<age, since, lost, slow>>
            /\ Enter(c, "recv")
            /\ UNCHANGED listens

\* VideoReceiver.stop, or an exception of on_packet or recvfrom, which ends the
\* loop: the relay is not told.
Stop(c) == /\ cpc[c] # "off"
           /\ Enter(c, "off")
           /\ UNCHANGED <<age, listens, since, lost, slow>>

-----------------------------------------------------------------------------
(* The relay *)

Expired(c) == age[c] # ABSENT /\ age[c] > Timeout

\* A bug: no entry is too old.
PacketKeeps == UNCHANGED vars

\* A packet of the drone: the relay drops the entries that are too old and sends
\* the packet to the others.
Packet == /\ age' = [c \in Clients |-> IF Expired(c) THEN ABSENT ELSE age[c]]
          /\ UNCHANGED <<listens, clientVars, lost, slow>>

\* recvfrom raises something other than a timeout in client_reg_loop, which ends.
RegLoopEnds == /\ listens
               /\ listens' = FALSE
               /\ UNCHANGED <<age, clientVars, lost, slow>>

\* The relay is started anew, with an empty table.
Restart == /\ age' = [c \in Clients |-> ABSENT]
           /\ listens' = TRUE
           /\ lost' = [c \in Clients |-> 2]
           /\ UNCHANGED <<clientVars, slow>>

-----------------------------------------------------------------------------
(* Time *)

\* A tick.  Ages and times that no comparison tells apart are not counted further.
Older(c) == IF age[c] = ABSENT \/ Expired(c) THEN age[c] ELSE age[c] + 1
Counts(c) == cpc[c] = "recv" \/ (cpc[c] = "call" /\ held[c] < MaxHeld)

Tick == /\ \A c \in Clients : cpc[c] # "check" /\ (cpc[c] = "recv" => wait[c] < Poll)
        /\ age' = [c \in Clients |-> Older(c)]
        /\ since' = [c \in Clients |-> IF Counts(c) THEN since[c] + 1 ELSE since[c]]
        /\ wait' = [c \in Clients |-> IF cpc[c] = "recv" THEN wait[c] + 1 ELSE wait[c]]
        /\ held' = [c \in Clients |-> IF cpc[c] = "call" /\ Counts(c) THEN held[c] + 1 ELSE held[c]]
        /\ slow' = slow \cup {c \in Clients : cpc[c] = "call" /\ ~Quick(held'[c])}
        /\ UNCHANGED <<listens, cpc, lost>>

Receiver(c) == Start(c) \/ RecvTimeout(c) \/ RecvPacket(c) \/ Return(c) \/ Check(c) \/ Stop(c)

Next == Tick \/ Packet \/ RegLoopEnds \/ Restart \/ \E c \in Clients : Receiver(c)

Spec == Init /\ [][Next]_vars

\* Time passes, the drone sends video, threads run; but on_packet need not return.
FairSpec == /\ Spec /\ SF_vars(Tick) /\ SF_vars(Packet)
            /\ \A c \in Clients : WF_vars(RecvTimeout(c) \/ Check(c))

-----------------------------------------------------------------------------
(* Properties *)

\* "Re-register every 10 seconds to stay in relay's client list" (video.py:75): a
\* receiver that runs has an entry, even if one registration in a row was lost, as
\* long as no call of on_packet (video.py:91) holds its renewal up by more than the
\* time the code's values leave.
StaysRegistered == \A c \in Clients :
    (cpc[c] # "off" /\ lost[c] < 2 /\ c \notin slow) => age[c] # ABSENT /\ ~Expired(c)

\* A receiver that runs never lets its registration grow older than its period, one
\* wait and the call it is in, with video or without: that long it is without video
\* at most after the relay was started anew.  Earlier calls do not add up.
RenewsInTime == \A c \in Clients : cpc[c] # "off" => since[c] <= Longest + held[c]

\* A receiver that stopped is forgotten as long as video comes, and not before it
\* is started again.
StoppedForgotten == \A c \in Clients : (cpc[c] = "off") ~> (age[c] = ABSENT \/ cpc[c] # "off")
=============================================================================

---------------------------- MODULE ClientProgram ----------------------------
(***************************************************************************)
(* The operator's program: main.py with the connection to the relay        *)
(* (client/connection.py), the video receiver (client/video.py) and the    *)
(* callbacks of the dashboard (client/dashboard).  Four threads share the  *)
(* fields of these objects without a lock: the main thread, which waits    *)
(* for Enter and stops everything, connect_background, which starts        *)
(* everything, and the two receive threads.                                *)
(*                                                                         *)
(* A frame is a status, which is numbered as the relay sends them, or one  *)
(* with telemetry; how frames are found in the stream is GolStream's       *)
(* matter, what is in the packets that of Packets and NalSplitter.  The    *)
(* process may end when the main thread is over.  It need not: a page that *)
(* is still open holds a thread of the websockets library.                 *)
(***************************************************************************)
EXTENDS Integers, Sequences

CONSTANTS MaxStatus,  \* how many statuses the relay sends
          MaxWire     \* how many frames are on their way at most

ASSUME BoundAssumption == MaxStatus \in Nat /\ MaxWire \in Nat \ {0}

TELEMETRY == 0
UNKNOWN   == 0
Frames    == 0 .. MaxStatus

VARIABLES main,         \* where the main thread is
          bg,           \* where connect_background is
          rx, rxBuf,    \* where Connection._recv_loop is, its frames not yet handled
          vrx,          \* where VideoReceiver._recv_loop is
          raised,       \* the dashboard has raised at a video packet
          bgBuf,        \* the frames connect has read
          running,      \* Connection._running
          sock,         \* Connection._sock: "none" (or closed), "open"
          vrunning,     \* VideoReceiver._running
          vsock,        \* VideoReceiver._sock
          hooked,       \* the dashboard's callbacks are set
          relay_state,  \* Connection.relay_state
          latest,       \* Dashboard._latest_relay
          link,         \* the TCP connection: "none", "up", "closed", "reset"
          wire, sent,   \* the frames on their way, the last status sent
          cut,          \* the statuses connect has read a part of
          late          \* the sockets made after stop has looked for them

mainVars == <<main, hooked>>
bgVars   == <<bg, bgBuf>>
rxVars   == <<rx, rxBuf>>
connVars == <<running, sock>>
vidVars  == <<vrunning, vsock, vrx, raised>>
seenVars == <<relay_state, latest>>
netVars  == <<link, wire, sent, cut>>
vars     == <<mainVars, bgVars, rxVars, connVars, vidVars, seenVars, netVars, late>>

Init == /\ main = "serve" /\ hooked = TRUE
        /\ bg = "socket" /\ bgBuf = << >>
        /\ rx = "none" /\ rxBuf = << >> /\ vrx = "none" /\ raised = FALSE
        /\ running = FALSE /\ sock = "none" /\ vrunning = FALSE /\ vsock = "none"
        /\ relay_state = UNKNOWN /\ latest = UNKNOWN
        /\ link = "none" /\ wire = << >> /\ sent = 0 /\ cut = {}
        /\ late = {}

-----------------------------------------------------------------------------
(* The relay and the network *)

Send == /\ link = "up" /\ Len(wire) < MaxWire
        /\ \/ sent < MaxStatus /\ sent' = sent + 1 /\ wire' = Append(wire, sent + 1)
           \/ wire' = Append(wire, TELEMETRY) /\ UNCHANGED sent
        /\ UNCHANGED <<mainVars, bgVars, rxVars, connVars, vidVars, seenVars, link, cut, late>>

HangUp == /\ link = "up"
          /\ link' \in {"closed", "reset"}
          /\ UNCHANGED <<mainVars, bgVars, rxVars, connVars, vidVars, seenVars,
                         wire, sent, cut, late>>

\* How a recv of the connection can end.  A thread that waits in it when the socket
\* is closed runs into its timeout or an error.
HasData  == sock = "open" /\ wire # << >>
TimesOut == sock = "none" \/ (link = "up" /\ wire = << >>)
HasEnd   == sock = "open" /\ link = "closed" /\ wire = << >>
Fails    == sock = "none" \/ link = "reset"

\* _handle_relay_status, in which an exception is swallowed.
HandleStatus(n) == relay_state' = n /\ latest' = IF hooked THEN n ELSE latest

-----------------------------------------------------------------------------
(* connect_background: Connection.connect, then VideoReceiver.start.  An exception  *)
(* in them ends it.                                                                 *)

BgSocket == /\ bg = "socket"
            /\ bg' = "dial" /\ sock' = "open"
            /\ late' = IF main = "over" THEN late \cup {"conn"} ELSE late
            /\ UNCHANGED <<mainVars, bgBuf, rxVars, running, vidVars, seenVars, netVars>>

BgDial == /\ bg = "dial"
          /\ \/ sock = "open" /\ link' = "up" /\ bg' = "greet"
             \/ bg' = "done" /\ UNCHANGED link
          /\ UNCHANGED <<mainVars, bgBuf, rxVars, connVars, vidVars, seenVars,
                         wire, sent, cut, late>>

\* A bug: the receive thread is started as soon as there is something to read.
BgReadEarlyThread ==
    /\ bg = "greet" /\ HasData
    /\ \E k \in 0 .. Len(wire), c \in 0 .. 1 :
         /\ k + c \in 1 .. Len(wire)
         /\ bgBuf' = SubSeq(wire, 1, k)
         /\ wire' = SubSeq(wire, k + c + 1, Len(wire))
         /\ cut' = cut \cup {wire[i] : i \in k + 1 .. k + c}
    /\ bg' = "handle" /\ rx' = "test" /\ running' = TRUE
    /\ UNCHANGED <<mainVars, rxBuf, sock, vidVars, seenVars, link, sent, late>>

\* The one read of connect: k frames, and perhaps a part of one more, whose rest
\* the receive thread will skip.
BgRead == /\ bg = "greet" /\ HasData
          /\ \E k \in 0 .. Len(wire), c \in 0 .. 1 :
               /\ k + c \in 1 .. Len(wire)
               /\ bgBuf' = SubSeq(wire, 1, k)
               /\ wire' = SubSeq(wire, k + c + 1, Len(wire))
               /\ cut' = cut \cup {wire[i] : i \in k + 1 .. k + c}
          /\ bg' = "handle"
          /\ UNCHANGED <<mainVars, rxVars, connVars, vidVars, seenVars, link, sent, late>>

\* A bug: without a greeting, connect gives up.
BgNoGreetingRaises ==
    /\ bg = "greet"
    /\ bg' = "done" /\ (TimesOut \/ HasEnd \/ Fails)
    /\ UNCHANGED <<mainVars, bgBuf, rxVars, connVars, vidVars, seenVars, netVars, late>>

\* A timeout is caught, and the end of the connection looks like no frames.
BgNoGreeting == /\ bg = "greet"
                /\ \/ (TimesOut \/ HasEnd) /\ bg' = "run"
                   \/ Fails /\ bg' = "done"
                /\ UNCHANGED <<mainVars, bgBuf, rxVars, connVars, vidVars, seenVars, netVars, late>>

BgHandle == /\ bg = "handle"
            /\ \/ bgBuf = << >> /\ bg' = "run" /\ UNCHANGED <<bgBuf, seenVars>>
               \/ /\ bgBuf # << >>
                  /\ bgBuf' = Tail(bgBuf)
                  /\ IF Head(bgBuf) = TELEMETRY THEN UNCHANGED seenVars
                                                ELSE HandleStatus(Head(bgBuf))
                  /\ UNCHANGED bg
            /\ UNCHANGED <<mainVars, rxVars, connVars, vidVars, netVars, late>>

BgRun == /\ bg = "run"
         /\ bg' = "start" /\ running' = TRUE
         /\ UNCHANGED <<mainVars, bgBuf, rxVars, sock, vidVars, seenVars, netVars, late>>

\* settimeout raises when the socket is gone.
BgStart == /\ bg = "start"
           /\ IF sock = "open" THEN bg' = "vsocket" /\ rx' = "test"
                               ELSE bg' = "done" /\ UNCHANGED rx
           /\ UNCHANGED <<mainVars, bgBuf, rxBuf, connVars, vidVars, seenVars, netVars, late>>

BgVideoSocket == /\ bg = "vsocket"
                 /\ bg' = "vregister" /\ vsock' = "open"
                 /\ late' = IF main \in {"stop", "close", "over"} THEN late \cup {"video"} ELSE late
                 /\ UNCHANGED <<mainVars, bgBuf, rxVars, connVars, vrunning, vrx, raised,
                                seenVars, netVars>>

\* setsockopt raises when the socket is gone, sendto also when the name is unknown.
BgVideoRegister == /\ bg = "vregister"
                   /\ \/ vsock = "open" /\ bg' = "vrun"
                      \/ bg' = "done"
                   /\ UNCHANGED <<mainVars, bgBuf, rxVars, connVars, vidVars, seenVars, netVars, late>>

BgVideoRun == /\ bg = "vrun"
              /\ bg' = "done" /\ vrunning' = TRUE /\ vrx' = "test"
              /\ UNCHANGED <<mainVars, bgBuf, rxVars, connVars, vsock, raised, seenVars, netVars, late>>

Background == \/ BgSocket \/ BgDial \/ BgRead \/ BgNoGreeting \/ BgHandle \/ BgRun \/ BgStart
              \/ BgVideoSocket \/ BgVideoRegister \/ BgVideoRun

-----------------------------------------------------------------------------
(* Connection._recv_loop *)

RxTest == /\ rx = "test"
          /\ rx' = IF running /\ sock = "open" THEN "recv" ELSE "done"
          /\ UNCHANGED <<mainVars, bgVars, rxBuf, connVars, vidVars, seenVars, netVars, late>>

\* A bug: a timeout is taken for the end.
RxRecvTimeoutEnds ==
    /\ rx = "recv"
    /\ \/ /\ HasData
          /\ \E k \in 1 .. Len(wire) : /\ rxBuf' = SubSeq(wire, 1, k)
                                       /\ wire' = SubSeq(wire, k + 1, Len(wire))
          /\ rx' = "handle"
       \/ (TimesOut \/ HasEnd \/ Fails) /\ rx' = "done" /\ UNCHANGED <<rxBuf, wire>>
    /\ UNCHANGED <<mainVars, bgVars, connVars, vidVars, seenVars, link, sent, cut, late>>

RxRecv ==
    /\ rx = "recv"
    /\ \/ /\ HasData
          /\ \E k \in 1 .. Len(wire) : /\ rxBuf' = SubSeq(wire, 1, k)
                                       /\ wire' = SubSeq(wire, k + 1, Len(wire))
          /\ rx' = "handle"
       \/ TimesOut /\ rx' = "test" /\ UNCHANGED <<rxBuf, wire>>
       \/ (HasEnd \/ Fails) /\ rx' = "done" /\ UNCHANGED <<rxBuf, wire>>
    /\ UNCHANGED <<mainVars, bgVars, connVars, vidVars, seenVars, link, sent, cut, late>>

\* _process_buffer: all frames of the buffer, without a look at _running.  With
\* telemetry the callback is read once to see that there is one ...
RxHandle ==
    /\ rx = "handle"
    /\ IF rxBuf = << >> THEN rx' = "test" /\ UNCHANGED <<rxBuf, seenVars>>
       ELSE /\ rxBuf' = Tail(rxBuf)
            /\ IF Head(rxBuf) = TELEMETRY
                 THEN rx' = (IF hooked THEN "call" ELSE "handle") /\ UNCHANGED seenVars
                 ELSE HandleStatus(Head(rxBuf)) /\ UNCHANGED rx
    /\ UNCHANGED <<mainVars, bgVars, connVars, vidVars, netVars, late>>

\* ... and once more to call it.  None raises, which ends the thread.
RxCall == /\ rx = "call"
          /\ rx' = IF hooked THEN "handle" ELSE "done"
          /\ UNCHANGED <<mainVars, bgVars, rxBuf, connVars, vidVars, seenVars, netVars, late>>

Receive == RxTest \/ RxRecv \/ RxHandle \/ RxCall

-----------------------------------------------------------------------------
(* VideoReceiver._recv_loop.  Its datagrams are unlimited and not counted.  An  *)
(* exception but a timeout leaves the loop, whoever raises it.                  *)

VideoTest == /\ vrx = "test"
             /\ vrx' = IF vrunning /\ vsock = "open" THEN "recv" ELSE "done"
             /\ UNCHANGED <<mainVars, bgVars, rxVars, connVars, vrunning, vsock, raised,
                            seenVars, netVars, late>>

\* A packet, a timeout, or an error as the socket is closed.
VideoRecv == /\ vrx = "recv"
             /\ \/ vsock = "open" /\ hooked /\ vrx' = "call"
                \/ vrx' = "test"
                \/ vsock = "none" /\ vrx' = "done"
             /\ UNCHANGED <<mainVars, bgVars, rxVars, connVars, vrunning, vsock, raised,
                            seenVars, netVars, late>>

\* How on_packet ends: it returns, or it raises, at a parameter set that has lost a
\* part (dashboard/__init__.py:264 and 322, NalSplitter's matter).
PacketDone == \/ vrx' = "test" /\ UNCHANGED raised
              \/ vrx' = "done" /\ raised' = TRUE

\* The callback raises when it is None by now.  Else it ends, or is held in the
\* ws.send of _push_video by a page that does not read.
VideoCall == /\ vrx = "call"
             /\ \/ ~hooked /\ vrx' = "done" /\ UNCHANGED raised
                \/ hooked /\ PacketDone
                \/ hooked /\ vrx' = "held" /\ UNCHANGED raised
             /\ UNCHANGED <<mainVars, bgVars, rxVars, connVars, vrunning, vsock, seenVars, netVars, late>>

\* That page reads again, or its connection is gone.
PageReads == /\ vrx = "held" /\ PacketDone
             /\ UNCHANGED <<mainVars, bgVars, rxVars, connVars, vrunning, vsock, seenVars, netVars, late>>

ReceiveVideo == VideoTest \/ VideoRecv \/ VideoCall

-----------------------------------------------------------------------------
(* The main thread: Enter, then Dashboard.stop, VideoReceiver.stop and          *)
(* Connection.disconnect                                                        *)

MainGoes(from, to) == main = from /\ main' = to
                        /\ UNCHANGED <<bgVars, rxVars, vrx, raised, seenVars, netVars, late>>

Enter       == MainGoes("serve", "unhook") /\ UNCHANGED <<hooked, connVars, vrunning, vsock>>
Unhook      == MainGoes("unhook", "vstop") /\ hooked' = FALSE /\ UNCHANGED <<connVars, vrunning, vsock>>
VideoStop   == MainGoes("vstop", "vclose") /\ vrunning' = FALSE /\ UNCHANGED <<hooked, connVars, vsock>>
VideoClose  == MainGoes("vclose", "stop") /\ vsock' = "none" /\ UNCHANGED <<hooked, connVars, vrunning>>
Disconnect  == MainGoes("stop", "close") /\ running' = FALSE /\ UNCHANGED <<hooked, sock, vrunning, vsock>>

\* A bug: disconnect leaves it to the receive thread to close the socket.
DisconnectCloseNot == MainGoes("close", "over") /\ UNCHANGED <<hooked, connVars, vrunning, vsock>>

DisconnectClose == MainGoes("close", "over") /\ sock' = "none"
                   /\ UNCHANGED <<hooked, running, vrunning, vsock>>

Stop == Unhook \/ VideoStop \/ VideoClose \/ Disconnect \/ DisconnectClose

Next == Send \/ HangUp \/ Background \/ Receive \/ ReceiveVideo \/ PageReads \/ Enter \/ Stop

\* Threads run: every recv has its timeout, and a callback ends, but for the ws.send
\* in the video thread's, which waits for the page without one.  A page need not
\* read, the relay need not send or hang up, and nobody need press Enter.
Fairness == WF_vars(Background) /\ WF_vars(Receive) /\ WF_vars(ReceiveVideo) /\ WF_vars(Stop)

Spec == Init /\ [][Next]_vars /\ Fairness

-----------------------------------------------------------------------------
(* Properties *)

\* Each variable keeps its type, and the program counters their places.
TypeOK ==
    /\ main \in {"serve", "unhook", "vstop", "vclose", "stop", "close", "over"}
    /\ bg \in {"socket", "dial", "greet", "handle", "run", "start",
               "vsocket", "vregister", "vrun", "done"}
    /\ rx \in {"none", "test", "recv", "handle", "call", "done"}
    /\ vrx \in {"none", "test", "recv", "call", "held", "done"} /\ raised \in BOOLEAN
    /\ running \in BOOLEAN /\ vrunning \in BOOLEAN /\ hooked \in BOOLEAN
    /\ sock \in {"none", "open"} /\ vsock \in {"none", "open"}
    /\ link \in {"none", "up", "closed", "reset"}
    /\ wire \in Seq(Frames) /\ bgBuf \in Seq(Frames) /\ rxBuf \in Seq(Frames)
    /\ relay_state \in Frames /\ latest \in Frames /\ sent \in Frames
    /\ cut \subseteq Frames /\ late \subseteq {"conn", "video"}

\* The statuses are handled by two threads, connect and the receive loop; still
\* neither wait_ready nor the page ever goes back to an older one.
StatusNeverGoesBack == [][relay_state' >= relay_state /\ latest' >= latest]_seenVars

\* Whatever the order in which connect sets _running, the socket and the thread:
\* until Enter the receive threads run, the one for as long as the connection, the
\* other until the dashboard raises at a packet.  No timeout ends them, and no field
\* they find not set yet or taken back.
ReceiverStays == main = "serve" => /\ rx = "done" => link \in {"closed", "reset"}
                                   /\ vrx = "done" => raised

\* The last status of the relay reaches the page, in connect's read or later, unless
\* connect has read a part of it, the connection is reset or the program is stopped.
StatusArrives ==
    \A n \in 1 .. MaxStatus :
        sent = n ~> latest >= n \/ n \in cut \/ link = "reset" \/ main # "serve"

\* Enter at any time, in the middle of connect too: when the main thread is over,
\* both sockets end up closed and both receive threads end, but for those of a
\* socket made after stop had looked for it, and for the video thread as long as a
\* page that does not read holds it, whose connection Dashboard.stop leaves open.
StopEnds ==
    /\ main = "over" ~> [](\/ sock = "none" /\ rx \in {"none", "done"}
                          \/ "conn" \in late)
    /\ main = "over" ~> [](\/ vsock = "none" /\ vrx \in {"none", "done", "held"}
                          \/ "video" \in late)
=============================================================================

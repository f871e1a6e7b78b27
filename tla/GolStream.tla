------------------------------ MODULE GolStream ------------------------------
(***************************************************************************)
(* How the drone's frames travel through the relay (_do_ready and          *)
(* _broadcast_raw of relay/relay.py) to a client (connect, _recv_loop and  *)
(* _process_buffer of client/connection.py).  TCP may cut the stream       *)
(* anywhere; both ends collect bytes until gol_unwrap finds a frame and    *)
(* then cut their buffer behind the last footer it contains.               *)
(*                                                                         *)
(* A frame is its 16 bytes of header, a payload and its footer.  A token   *)
(* stands for a header, for a footer or for a piece of payload.  Payloads  *)
(* may contain what looks like a footer or, with any length in it, like a  *)
(* header: gol_unwrap cannot tell them apart.  A header or a footer of     *)
(* which only a part has come is one that has not come.                    *)
(***************************************************************************)
EXTENDS Integers, Sequences, SequencesExt

CONSTANTS Payloads,  \* the payloads the drone sends, sequences of tokens
          Lengths,   \* the lengths told by what looks like a header in a payload
          Count,     \* how many frames it sends
          MaxChunk,  \* how many tokens one recv returns at most
          MaxBuf,    \* the 16384 of either side: a buffer without a frame that
          KeepBuf    \* is longer is cut down to its last KeepBuf tokens (4096)

Data        == <<"data">>
Foot        == <<"foot">>
Start(i, n) == <<"head", i, n>>  \* of frame i, with a payload of length n

Frames == 1 .. Count
STATUS == 0          \* the number of the greeting, the relay's own status frame
FAKE   == Count + 1  \* the number in a header that is a piece of a payload

ASSUME StreamAssumption == /\ Lengths \subseteq Nat
                           /\ Payloads \subseteq Seq({Data, Foot} \cup {Start(FAKE, n) : n \in Lengths})
                           /\ {Count, MaxChunk, MaxBuf, KeepBuf} \subseteq Nat
                           /\ KeepBuf + MaxChunk <= MaxBuf

VARIABLES payload,    \* the payload of each frame
          input,      \* what the drone sent and the relay has not received
          buf,        \* the buffer of _do_ready
          pipe,       \* what the relay sent and the client has not received
          phase,      \* the client is "away", in "connect" or in the "loop"
          cbuf,       \* the buffer of _recv_loop
          greeted,    \* the relay has sent it the status frame
          delivered,  \* what _process_buffer has taken for frames, the greeting among them
          skipped     \* the frames whose header went by while it was away, or
                      \* was read by connect

golVars == <<payload, input, buf, pipe, phase, greeted, cbuf, delivered,
             skipped>>

-----------------------------------------------------------------------------
(* gol_wrap and gol_unwrap *)

IsHead(t) == t[1] = "head"

Wrap(i, data) == << Start(i, Len(data)) >> \o data \o << Foot >>

\* The numbers of the frames gol_unwrap finds.  It goes from header to header;
\* where a header promises more than there is it gives up, and where there is no
\* footer in the promised place it goes on behind that place.
Unwrap(s) ==
    LET from[p \in 1 .. Len(s) + 1] ==
          IF p = Len(s) + 1 THEN << >>
          ELSE IF ~IsHead(s[p]) THEN from[p + 1]
          ELSE LET foot == p + s[p][3] + 1
               IN  IF foot > Len(s) THEN << >>
                   ELSE IF s[foot] = Foot THEN << s[p][2] >> \o from[foot + 1]
                   ELSE from[foot + 1]
    IN  from[1]

\* buf.rfind(footer), zero if there is none.
LastFoot(s) == SelectLastInSubSeq(s, 1, Len(s), LAMBDA t : t = Foot)

KeepLast(s, n) == SubSeq(s, Len(s) - n + 1, Len(s))

\* A bug: everything is dropped with the frames.
RestNothing(s) == IF Unwrap(s) # << >> THEN << >>
                  ELSE IF Len(s) > MaxBuf THEN KeepLast(s, KeepBuf) ELSE s

\* A bug: what is not yet a frame is kept without a bound.
RestUnbounded(s) == IF Unwrap(s) # << >> THEN SubSeq(s, LastFoot(s) + 1, Len(s)) ELSE s

\* What is left in a buffer once its frames are taken: both sides do the same.
Rest(s) == IF Unwrap(s) # << >> THEN SubSeq(s, LastFoot(s) + 1, Len(s))
           ELSE IF Len(s) > MaxBuf THEN KeepLast(s, KeepBuf) ELSE s

-----------------------------------------------------------------------------
GolInit == /\ payload \in [Frames -> Payloads]
           /\ input = FlattenSeq([i \in Frames |-> Wrap(i, payload[i])])
           /\ buf = << >>
           /\ pipe = << >>
           /\ phase = "away"
           /\ greeted = FALSE
           /\ cbuf = << >>
           /\ delivered = << >>
           /\ skipped = {}

\* The frames that begin in a piece of the stream.
HeadsIn(s) == {i \in Frames \cup {STATUS} : \E p \in 1 .. Len(s) : IsHead(s[p]) /\ s[p][2] = i}

\* A bug: the buffer is sent and kept.
RelayRecvKeeps ==
    \E n \in 1 .. MaxChunk :
      /\ n <= Len(input)
      /\ LET data == buf \o SubSeq(input, 1, n)
             raw  == IF Unwrap(data) # << >> THEN SubSeq(data, 1, LastFoot(data)) ELSE << >>
         IN  /\ buf' = data
             /\ IF phase = "away"
                  THEN skipped' = skipped \cup HeadsIn(raw) /\ UNCHANGED pipe
                  ELSE pipe' = pipe \o raw /\ UNCHANGED skipped
      /\ input' = SubSeq(input, n + 1, Len(input))
      /\ UNCHANGED <<payload, phase, greeted, cbuf, delivered>>

\* One round of _do_ready: if there is a frame in the buffer, everything up to
\* the last footer goes to every client in the list.
RelayRecv ==
    \E n \in 1 .. MaxChunk :
      /\ n <= Len(input)
      /\ LET data == buf \o SubSeq(input, 1, n)
             raw  == IF Unwrap(data) # << >> THEN SubSeq(data, 1, LastFoot(data)) ELSE << >>
         IN  /\ buf' = Rest(data)
             /\ IF phase = "away"
                  THEN skipped' = skipped \cup HeadsIn(raw) /\ UNCHANGED pipe
                  ELSE pipe' = pipe \o raw /\ UNCHANGED skipped
      /\ input' = SubSeq(input, n + 1, Len(input))
      /\ UNCHANGED <<payload, phase, greeted, cbuf, delivered>>

\* The relay accepts the client and puts it into the list.
Join == /\ phase = "away"
        /\ phase' = "connect"
        /\ UNCHANGED <<payload, input, buf, pipe, greeted, cbuf, delivered, skipped>>

\* Then it greets it: frames of the drone may have gone before.
Greet == /\ phase # "away" /\ ~greeted
         /\ greeted' = TRUE
         /\ pipe' = pipe \o Wrap(STATUS, << Data >>)
         /\ UNCHANGED <<payload, input, buf, phase, cbuf, delivered, skipped>>

\* The single recv of connect: it looks for the status frame and throws the rest
\* of what it got away.  Without anything to read it times out.
ConnectRecv ==
    /\ phase = "connect"
    /\ \E n \in 0 .. MaxChunk :
         /\ n <= Len(pipe)
         /\ n = 0 => pipe = << >>
         /\ skipped' = skipped \cup HeadsIn(SubSeq(pipe, 1, n))
         /\ pipe' = SubSeq(pipe, n + 1, Len(pipe))
    /\ phase' = "loop"
    /\ UNCHANGED <<payload, input, buf, greeted, cbuf, delivered>>

\* One round of _recv_loop with _process_buffer.
LoopRecv ==
    /\ phase = "loop"
    /\ \E n \in 1 .. MaxChunk :
         /\ n <= Len(pipe)
         /\ LET data == cbuf \o SubSeq(pipe, 1, n)
            IN  /\ delivered' = delivered \o Unwrap(data)
                /\ cbuf' = Rest(data)
         /\ pipe' = SubSeq(pipe, n + 1, Len(pipe))
    /\ UNCHANGED <<payload, input, buf, phase, greeted, skipped>>

GolNext == RelayRecv \/ Join \/ Greet \/ ConnectRecv \/ LoopRecv

GolSpec == GolInit /\ [][GolNext]_golVars

-----------------------------------------------------------------------------
(* Properties *)

\* Whatever the drone sends, the buffers of the relay and of the client stay within
\* the bound the code gives them.
BuffersBounded == Len(buf) <= MaxBuf /\ Len(cbuf) <= MaxBuf

\* A frame of the drone is handled once and in its order, however the stream is cut
\* (_do_ready and _recv_loop neither repeat nor reorder what they collect).
InOrder == \A i, j \in 1 .. Len(delivered) :
             i < j /\ {delivered[i], delivered[j]} \subseteq Frames => delivered[i] < delivered[j]

\* A frame that survives when a buffer is cut down while only a part of it has
\* come.
Fits(i) == Len(payload[i]) + 2 <= KeepBuf

\* Its payload contains what gol_unwrap takes for a header, should it come to it.
HeadInside(i) == \E q \in 1 .. Len(payload[i]) : IsHead(payload[i][q])

\* What lets gol_unwrap stay with the frames.  A footer in a payload is taken for the
\* end of the frame when only a part of it has come: what was received is cut in
\* two.  And a header in a payload is read as one, with whatever length it tells,
\* once the header of its own frame is lost: to the recv of connect, or to the cut
\* of a full buffer.  Then it can hold back and swallow the frames behind it.
Clear == /\ \A i \in Frames : Foot \notin ToSet(payload[i])
         /\ \A i \in Frames : HeadInside(i) => Fits(i) /\ i \notin skipped

\* "All GOL frames from the drone, verbatim" (relay.py:13): in the end the client
\* has handled every frame that was forwarded once it was through connect, but
\* for frames too long for the buffers, and nothing that is not a frame, wherever
\* TCP cut the stream on its two ways and whatever long frame came before.  Two
\* kinds of payload are excepted, which defeat the code: those with a footer, and
\* those with a header that have lost their own.
EveryFrameDelivered ==
    (Clear /\ phase = "loop" /\ greeted /\ input = << >> /\ pipe = << >>) =>
        /\ \A i \in Frames \ skipped : Fits(i) => \E j \in 1 .. Len(delivered) : delivered[j] = i
        /\ \A j \in 1 .. Len(delivered) : delivered[j] # FAKE
=============================================================================

----------------------------- MODULE NalSplitter -----------------------------
(***************************************************************************)
(* How the dashboard finds the NAL units in the drone's H.264 stream       *)
(* (_on_packet and _process_h264 of client/dashboard): the stream comes in *)
(* UDP packets cut anywhere, of which some are lost; a unit is what stands *)
(* between two start codes.  What becomes of a unit is DashboardVideo's.   *)
(***************************************************************************)
EXTENDS Integers, Sequences, SequencesExt, FiniteSetsExt

CONSTANTS Units,      \* the NAL units of the drone, sequences of bytes
          MaxUnits,   \* how many it sends
          MaxPacket,  \* how many bytes a packet carries at most
          MaxLost,    \* how many packets are lost
          MaxSet      \* the 65535 bytes a length of two bytes can tell

START_CODE == << 0, 0, 0, 1 >>
SPS        == 7
PPS        == 8
Type(nal)  == nal[1] % 32

\* An empty unit has no type: _handle_nal returns at once.
Is(nal, type) == nal # << >> /\ Type(nal) = type

\* Whether the code stands in s at position p.
CodeAt(s, p) == p + 3 <= Len(s) /\ SubSeq(s, p, p + 3) = START_CODE

\* H.264 does not let a start code appear in a unit or across its end, and a
\* parameter set is longer than the three bytes the codec string is made of.
ASSUME UnitAssumption ==
    /\ Units \subseteq Seq(0 .. 255)
    /\ \A u \in Units : /\ u # << >> /\ Last(u) # 0
                        /\ Type(u) = SPS => Len(u) \in 4 .. MaxSet
                        /\ Type(u) = PPS => Len(u) <= MaxSet
                        /\ \A p \in 1 .. Len(u) : ~CodeAt(u, p)
    /\ MaxPacket \in Nat \ {0} /\ {MaxUnits, MaxLost, MaxSet} \subseteq Nat

VARIABLES units,    \* what the drone sends ...
          sent,     \* ... and how many bytes of it are sent
          lost,     \* the positions of the bytes in lost packets
          losses,   \* the number of lost packets
          nalBuf,   \* _nal_buf
          handled,  \* what was given to _handle_nal
          alive     \* the video thread runs

nalVars == <<units, sent, lost, losses, nalBuf, handled, alive>>

Stream == FlattenSeq([i \in 1 .. Len(units) |-> START_CODE \o units[i]])

NalInit == /\ units \in [1 .. MaxUnits -> Units]
           /\ sent = 0 /\ lost = {} /\ losses = 0
           /\ nalBuf = << >> /\ handled = << >>
           /\ alive = TRUE

\* _process_h264 looks for a start code, and for the next behind its four bytes.
Positions(s) ==
    LET from[p \in 1 .. Len(s) + 1] ==
            IF p = Len(s) + 1 THEN << >>
            ELSE IF CodeAt(s, p) THEN << p >> \o from[p + 4]
            ELSE from[p + 1]
    IN  from[1]

Between(s, positions) ==
    [j \in 1 .. Len(positions) - 1 |-> SubSeq(s, positions[j] + 4, positions[j + 1] - 1)]

\* A bug: the buffer is searched anew from the byte after the last code found,
\* and the unfinished unit is dropped.
SplitDropsRest(s) ==
    LET positions == Positions(s)
    IN  [nals |-> Between(s, positions),
         rest |-> IF Len(positions) < 2 THEN s ELSE SubSeq(s, Last(positions) + 4, Len(s))]

\* A bug: each packet is searched by itself, as if a start code were never cut.
SplitEager(s) ==
    LET positions == Positions(s)
    IN  [nals |-> Between(s, positions \o << Len(s) + 1 >>),
         rest |-> IF positions = << >> THEN s ELSE << >>]

\* The units in a buffer and what is kept of it, the last start code onward.
Split(s) ==
    LET positions == Positions(s)
    IN  [nals |-> Between(s, positions),
         rest |-> IF Len(positions) < 2 THEN s ELSE SubSeq(s, Last(positions), Len(s))]

\* _handle_nal builds the codec string from the bytes 1 to 3 of an SPS, and with a
\* PPS _build_avcc packs the lengths of it and of the last SPS into two bytes.  Where
\* that raises, the exception ends VideoReceiver's thread.
Raises(nal, before) ==
    \/ Is(nal, SPS) /\ Len(nal) < 4
    \/ /\ Is(nal, PPS)
       /\ \E i \in DOMAIN before :
            /\ Is(before[i], SPS) /\ \A j \in i + 1 .. Len(before) : ~Is(before[j], SPS)
            /\ Len(nal) > MaxSet \/ Len(before[i]) > MaxSet

\* A packet comes: its units are handled one by one, up to one that raises.  The
\* buffer is only replaced behind the last.
Packet ==
    /\ alive
    /\ \E n \in 1 .. MaxPacket :
         LET data   == nalBuf \o SubSeq(Stream, sent + 1, sent + n)
             split  == Split(data)
             upTo(j) == handled \o SubSeq(split.nals, 1, j)
             bad    == {j \in DOMAIN split.nals : Raises(split.nals[j], upTo(j - 1))}
         IN  /\ sent + n <= Len(Stream)
             /\ sent' = sent + n
             /\ alive' = (bad = {})
             /\ nalBuf' = IF bad = {} THEN split.rest ELSE data
             /\ handled' = IF bad = {} THEN upTo(Len(split.nals)) ELSE upTo(Min(bad) - 1)
    /\ UNCHANGED <<units, lost, losses>>

\* A packet is lost, or is not one for _on_packet: too short, or without the header
\* and the footer in their places.
Lose ==
    /\ losses < MaxLost
    /\ \E n \in 1 .. MaxPacket :
         /\ sent + n <= Len(Stream)
         /\ sent' = sent + n
         /\ lost' = lost \cup (sent + 1 .. sent + n)
    /\ losses' = losses + 1
    /\ UNCHANGED <<units, nalBuf, handled, alive>>

NalNext == Packet \/ Lose

NalSpec == NalInit /\ [][NalNext]_nalVars

-----------------------------------------------------------------------------
(* Properties *)

\* The bytes of unit i with the start code before and the one behind it.
Extent(i) ==
    LET before == Len(FlattenSeq([j \in 1 .. i - 1 |-> START_CODE \o units[j]]))
    IN  before + 1 .. before + 4 + Len(units[i]) + 4

Ends(i) == Max(Extent(i))

\* However the stream is cut, in the middle of a start code too: as long as nothing
\* is lost, exactly the units whose end has come are handled, once, in order and
\* unchanged, and nothing ends the thread.
CutsDontMatter ==
    lost = {} => /\ alive
                 /\ \E k \in 0 .. Len(units) :
                      /\ handled = SubSeq(units, 1, k)
                      /\ \A i \in 1 .. Len(units) : i <= k <=> Ends(i) <= sent

\* A lost packet only harms the units it carries a part of, or whose start code or
\* whose successor's it carries: the others are handled, unchanged and in order.
WholeHandled ==
    LET whole == {i \in 1 .. Len(units) : Ends(i) <= sent /\ Extent(i) \cap lost = {}}
    IN  \E place \in [whole -> 1 .. Len(handled)] :
          /\ \A i, j \in whole : i < j => place[i] < place[j]
          /\ \A i \in whole : handled[place[i]] = units[i]

\* That holds as long as the thread runs.  It only ends of a unit with a byte of a
\* parameter set's type in it, of which, or of a code at its ends, a part was lost: what
\* is left of it is taken for a parameter set, and is too short or run together with
\* what follows.
LossIsLocal ==
    IF alive THEN WholeHandled
    ELSE \E i \in 1 .. Len(units) : /\ Extent(i) \cap lost # {}
                                    /\ \E k \in DOMAIN units[i] : units[i][k] % 32 \in {SPS, PPS}
=============================================================================

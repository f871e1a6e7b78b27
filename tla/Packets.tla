------------------------------- MODULE Packets -------------------------------
(***************************************************************************)
(* The 0xAA packets inside of the drone's frames: how client/protocol.py   *)
(* builds and validates them and how client/telemetry.py reads them.       *)
(* research/drone_control.py has a copy of most of it.                     *)
(*                                                                         *)
(* A packet is a sequence of bytes.  The code counts them from zero, and   *)
(* so do the offsets here.  Values are in the unit of the packet: degrees  *)
(* in 1e-7 (what int() cuts off is lost before), voltage and speed in      *)
(* tenths.                                                                 *)
(***************************************************************************)
EXTENDS Integers, Sequences, Functions

CONSTANTS Sticks,       \* positions of the four sticks, in 256ths of their way
          CtrlFlags,    \* the flags sent with them
          Commands,     \* of build_set_cmd
          Coordinates,  \* the longitudes and latitudes the client tells the drone
          Bodies        \* what is in a report of the drone behind its header

START_BYTE  == 170  \* 0xAA
Byte        == 0 .. 255
Signed32    == {n \in Int : -2147483647 - 1 <= n /\ n <= 2147483647}

\* struct.pack and bytes() raise for other coordinates and commands.
ASSUME PacketAssumption == /\ Sticks \subseteq [1 .. 4 -> Int]
                           /\ CtrlFlags \subseteq Int
                           /\ Commands \subseteq Byte
                           /\ Coordinates \subseteq Signed32
                           /\ Bodies \subseteq [1 .. 27 -> Byte]

RAISES      == -10000  \* an index or struct error instead of a value

MsgId == [GPSInFo |-> 1, SetFence |-> 2, SetRadius |-> 3, CtrlCmd |-> 28,
          SetCmd |-> 29, PTZInFo |-> 32, ControlInfo |-> 48]

At(data, i) == IF i < Len(data) THEN data[i + 1] ELSE RAISES

-----------------------------------------------------------------------------
(* Building *)

\* A bug: the sum begins with the payload.
CalcChecksumPayload(packet) == SumFunctionOnSet(packet, DOMAIN packet \ (1 .. 4)) % 256

\* The sum of all bytes but the first and the one it is put in.
CalcChecksum(packet) == SumFunctionOnSet(packet, DOMAIN packet \ {1, 4}) % 256

BuildPacket(id, payload) ==
    LET length == 4 + Len(payload)
        packet == << START_BYTE, id, length % 256, 0 >> \o payload
    IN  [packet EXCEPT ![4] = CalcChecksum(packet)]

ValidatePacket(data) == /\ Len(data) >= 4
                        /\ At(data, 0) = START_BYTE
                        /\ At(data, 2) = Len(data)
                        /\ At(data, 3) = CalcChecksum(data)

\* round(256 * (f + 1) / 2) for f = n / 256: halves go to the even neighbour.
StickRound(n) == LET v == (256 + n) \div 2
                 IN  IF n % 2 = 1 /\ v % 2 = 1 THEN v + 1 ELSE v
StickVal(n) == LET v == StickRound(n)
               IN  IF v < 3 THEN 3 ELSE IF v > 253 THEN 253 ELSE v

BuildCtrlCmd(sticks, flags) ==
    BuildPacket(MsgId.CtrlCmd, [i \in 1 .. 4 |-> StickVal(sticks[i])] \o << flags % 256, 0, 0 >>)

BuildSetCmd(cmd) == BuildPacket(MsgId.SetCmd, << cmd >>)

\* struct.pack of a signed number, two's complement and the low byte first.
Pack(n) == << n % 256, (n \div 256) % 256, (n \div 65536) % 256, (n \div 16777216) % 256 >>

\* A bug: latitude first, as coordinates are usually written.
BuildGpsInfoLatFirst(lon, lat, flag) ==
    BuildPacket(MsgId.GPSInFo, Pack(lat) \o Pack(lon) \o << 0, 0, 0, flag % 256 >>)

BuildGpsInfo(lon, lat, flag) ==
    BuildPacket(MsgId.GPSInFo, Pack(lon) \o Pack(lat) \o << 0, 0, 0, flag % 256 >>)

BuildStatusQuery == BuildPacket(MsgId.SetRadius, << >>)
BuildSetFence    == BuildPacket(MsgId.SetFence, << 1 >>)

-----------------------------------------------------------------------------
(* Reading *)

\* A field is read if the packet has need bytes: a signed number of size bytes at
\* an offset, or width bits of the byte there from bit lo on.
SignedAt(need, at, size)     == [need |-> need, at |-> at, size |-> size, lo |-> 0, width |-> 8]
BitsOf(need, at, lo, width)  == [need |-> need, at |-> at, size |-> 1, lo |-> lo, width |-> width]

\* A bug: a byte is looked for before it has come.
WholeShort(at) == BitsOf(at, at, 0, 8)

Whole(at) == BitsOf(at + 1, at, 0, 8)

\* The fields of FlightState ...
Telemetry ==
    [lon |-> SignedAt(8, 4, 4), lat |-> SignedAt(12, 8, 4), altitude |-> SignedAt(14, 12, 2),
     distance |-> SignedAt(16, 14, 2), return_alt |-> Whole(16), fence_alt |-> Whole(17),
     fence_dist |-> SignedAt(20, 18, 2), circle_radius |-> Whole(20), mode |-> Whole(21),
     voltage |-> Whole(22), satellites |-> BitsOf(24, 23, 0, 5), return_point |-> BitsOf(24, 23, 6, 1),
     status1 |-> Whole(24), signal |-> Whole(25), speed |-> Whole(26), status2 |-> Whole(27),
     yaw |-> SignedAt(30, 28, 2)]

\* ... and the properties it derives from status1, signal and status2.
Flags ==
    [low_battery |-> BitsOf(25, 24, 0, 1), critical_battery |-> BitsOf(25, 24, 1, 1),
     initialized |-> BitsOf(25, 24, 3, 1), gyro_error |-> BitsOf(25, 24, 4, 1),
     baro_error |-> BitsOf(25, 24, 5, 1), compass_error |-> BitsOf(25, 24, 6, 1),
     gps_error |-> BitsOf(25, 24, 7, 1), app_control |-> BitsOf(26, 25, 3, 1),
     signal_strength |-> BitsOf(26, 25, 4, 3), headless |-> BitsOf(28, 27, 5, 1),
     recording |-> BitsOf(28, 27, 6, 1)]

\* ControlState: the five speeds come together.
Control ==
    [speed1 |-> BitsOf(9, 4, 0, 8), speed2 |-> BitsOf(9, 5, 0, 8), speed3 |-> BitsOf(9, 6, 0, 8),
     speed4 |-> BitsOf(9, 7, 0, 8), speed5 |-> BitsOf(9, 8, 0, 8),
     lock |-> BitsOf(10, 9, 7, 1), unlock |-> BitsOf(10, 9, 6, 1), up |-> BitsOf(10, 9, 5, 1),
     back |-> BitsOf(10, 9, 4, 1), photo |-> BitsOf(10, 9, 3, 1), rec |-> BitsOf(10, 9, 2, 1),
     state |-> BitsOf(10, 9, 0, 2),
     headless |-> BitsOf(11, 10, 7, 1), light |-> BitsOf(11, 10, 6, 1), wifi |-> BitsOf(11, 10, 5, 1),
     throttle |-> BitsOf(11, 10, 4, 1), gps |-> BitsOf(11, 10, 3, 1), match |-> BitsOf(11, 10, 2, 1),
     state2 |-> BitsOf(11, 10, 0, 2),
     rf_signal |-> BitsOf(12, 11, 4, 4), battery |-> BitsOf(12, 11, 0, 4),
     wifi_state |-> Whole(12), version |-> Whole(13)]

\* PTZState; its gyro_checking and gyro_error are two values of gyro.
Ptz == [gyro |-> BitsOf(5, 4, 0, 2), calibrating |-> BitsOf(6, 5, 7, 1), ptz_error |-> BitsOf(6, 5, 6, 1)]

\* The little endian number in size bytes; its top byte carries the sign.
SignedNumber(data, at, size) ==
    LET top == At(data, at + size - 1)
        signed == IF top >= 128 THEN top - 256 ELSE top
    IN  IF top = RAISES THEN RAISES
        ELSE IF size = 2 THEN At(data, at) + 256 * signed
        ELSE At(data, at) + 256 * At(data, at + 1) + 65536 * At(data, at + 2) + 16777216 * signed

\* A bug: the mask is a bit too wide.
FieldOfWide(data, f) == IF Len(data) < f.need THEN 0
                      ELSE IF f.size > 1 THEN SignedNumber(data, f.at, f.size)
                      ELSE IF At(data, f.at) = RAISES THEN RAISES
                      ELSE (At(data, f.at) \div 2 ^ f.lo) % 2 ^ (f.width + 1)

FieldOf(data, f) == IF Len(data) < f.need THEN 0
                  ELSE IF f.size > 1 THEN SignedNumber(data, f.at, f.size)
                  ELSE IF At(data, f.at) = RAISES THEN RAISES
                  ELSE (At(data, f.at) \div 2 ^ f.lo) % 2 ^ f.width

\* The parsers: << >> is None, otherwise every field has a value.
Parse(data, id, layout) ==
    IF Len(data) < 4 \/ At(data, 0) # START_BYTE \/ At(data, 1) # id THEN << >>
    ELSE [name \in DOMAIN layout |-> FieldOf(data, layout[name])]

ParseTelemetry(data) == Parse(data, MsgId.GPSInFo, Telemetry)

\* What _handle_aa_packet makes of a packet, by the layout its id selects.
Layouts == { << MsgId.GPSInFo, Telemetry >>, << MsgId.GPSInFo, Flags >>,
             << MsgId.ControlInfo, Control >>, << MsgId.PTZInFo, Ptz >> }

-----------------------------------------------------------------------------
(* A packet on its way *)

\* What the client and the scripts build.
Built == {BuildCtrlCmd(s, f) : s \in Sticks, f \in CtrlFlags}
         \cup {BuildSetCmd(c) : c \in Commands}
         \cup {BuildGpsInfo(lon, lat, 1) : lon, lat \in Coordinates}
         \cup {BuildStatusQuery, BuildSetFence}

\* What the drone reports.
Report(id, body) == << START_BYTE, id, 31, 0 >> \o body

Reports == {Report(id, body) : id \in {MsgId.GPSInFo, MsgId.ControlInfo, MsgId.PTZInFo}, body \in Bodies}

VARIABLES sender,  \* the "client" or the "drone"
          packet,  \* as it was sent
          got,     \* as it arrives
          fault    \* what happened to it: << >>, <<"byte", i>>, <<"bit", at, bit>>, <<"cut">>

packetVars == <<sender, packet, got, fault>>

PacketInit == /\ \/ sender = "client" /\ packet \in Built
                 \/ sender = "drone" /\ packet \in Reports
              /\ got = packet
              /\ fault = << >>

Damage == /\ fault = << >> /\ sender = "client"
          /\ \E i \in 1 .. Len(packet), v \in Byte : /\ v # packet[i]
                                                    /\ got' = [packet EXCEPT ![i] = v]
                                                    /\ fault' = <<"byte", i>>
          /\ UNCHANGED <<sender, packet>>

Flipped(byte, bit) == IF (byte \div 2 ^ bit) % 2 = 0 THEN byte + 2 ^ bit ELSE byte - 2 ^ bit

Flip == /\ fault = << >> /\ sender = "drone"
        /\ \E at \in 4 .. 30, bit \in 0 .. 7 :
             /\ got' = [packet EXCEPT ![at + 1] = Flipped(packet[at + 1], bit)]
             /\ fault' = <<"bit", at, bit>>
        /\ UNCHANGED <<sender, packet>>

Cut == /\ fault = << >>
       /\ \E n \in 0 .. Len(packet) - 1 : got' = SubSeq(packet, 1, n)
       /\ fault' = <<"cut">>
       /\ UNCHANGED <<sender, packet>>

PacketNext == Damage \/ Flip \/ Cut

PacketSpec == PacketInit /\ [][PacketNext]_packetVars

-----------------------------------------------------------------------------
(* Properties *)

\* Whatever the sticks and coordinates, each byte of a packet that is built is one
\* (bytes() would raise) and the packet is valid; it is not when any one of its
\* bytes has changed, the header's included, or its end is missing.
CorruptionDetected ==
    sender = "client" => /\ \A i \in 1 .. Len(packet) : packet[i] \in Byte
                         /\ ValidatePacket(got) <=> fault = << >>

\* A packet that ends early is read as far as it goes: no parser reaches behind its
\* end (an exception would end the receive thread), none takes a part of a number
\* for the number, and every number that has come is there.
TruncationSafe ==
    \A l \in Layouts :
        LET full == Parse(packet, l[1], l[2])
            part == Parse(got, l[1], l[2])
        IN  fault = <<"cut">> /\ part # << >> => \A name \in DOMAIN l[2] :
              IF Len(got) >= l[2][name].at + l[2][name].size /\ l[2][name].size > 1
                THEN part[name] = full[name]
                ELSE part[name] \in {0, full[name]} \ {RAISES}

\* The bits no field of FlightState is made of, beside the satellites.
Spare == { <<23, 5>>, <<23, 7>> }

\* Offsets and masks fit together: a bit that changes in a packet changes at most
\* one field (and one derived flag), and every bit of the telemetry and of the
\* remote control's state that is not spare changes one.
OneFieldEach ==
    fault # << >> /\ fault[1] = "bit" =>
      LET at == fault[2]
      IN  \A l \in Layouts :
            LET was     == Parse(packet, l[1], l[2])
                is      == Parse(got, l[1], l[2])
                changed == {name \in DOMAIN was : was[name] # is[name]}
            IN  /\ \A a, b \in changed : a = b
                /\ was # << >> /\ l[2] = Telemetry /\ at < 30
                     => (changed = {} <=> << at, fault[3] >> \in Spare)
                /\ was # << >> /\ l[2] = Control /\ at < 14 => changed # {}

\* Where a sender says it is, a receiver reads: both ends agree on the order of the
\* coordinates, the bytes and the sign, up to the date line.
GpsRoundTrip ==
    fault = << >> => \A lon, lat \in Coordinates :
        got = BuildGpsInfo(lon, lat, 1) =>
            ParseTelemetry(got).lon = lon /\ ParseTelemetry(got).lat = lat
=============================================================================

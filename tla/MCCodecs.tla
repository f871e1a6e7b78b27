------------------------------- MODULE MCCodecs -------------------------------
(***************************************************************************)
(* AuthKey, Packets, NalSplitter and GolStream for TLC: the algorithms on  *)
(* bytes, of the relay's main thread and of the client's two receive       *)
(* threads.  They share nothing, so that each behaviour has one of them at *)
(* work.                                                                   *)
(*                                                                         *)
(* The words are one with no bit, one with about half of the bits in an    *)
(* uneven pattern and the upper half; the table has 512 words that differ. *)
(* Sticks are in range and out of it, coordinates reach the date line, and *)
(* all bytes of a report are alike.                                        *)
(* The units are an SPS, a PPS of one byte, and two slices, one with a     *)
(* part of a start code in it.                                             *)
(* Three frames travel, with payloads shorter and longer than the buffers, *)
(* or that contain a footer or a header, and are cut everywhere.           *)
(***************************************************************************)
EXTENDS AuthKey, Packets, NalSplitter, GolStream

SomeWords == { {}, {i \in Bits(32) : (i * i + i \div 3) % 5 < 2}, 16 .. 31 }
SomeUsers == { 0 .. 29, {i \in Bits(30) : i % 3 = 0} }
SomeTable == [index \in SUBSET Bits(9) |-> {i \in Bits(32) : i % 9 \in index} \cup {31}]

SomeSticks      == {<<a, a, b, b>> : a \in {-1000, -256, -1}, b \in {0, 3, 256, 1000}}
SomeCoordinates == {-1800000000, -65537, -1, 128, 1800000000}
SomeBodies      == {[i \in 1 .. 27 |-> byte] : byte \in {0, 1, 128, 255}}

SomeUnits == { <<7, 0, 0, 1>>, <<8>>, <<5, 0, 0, 1>>, <<1, 2, 2, 2, 2>> }

SomePayloads == { << >>, << Data >>, << Data, Data, Data, Data, Data, Data >>,
                  << Data, Foot, Data >>, << Start(FAKE, 1) >>, << Start(FAKE, 0), Data >> }

AuthIdle   == /\ pc = "idle" /\ ck = Zero /\ user = {} /\ fresh = {} /\ verdict = NoVerdict
              /\ drone = [user |-> {}, app |-> {}, dev |-> {}]
PacketIdle == sender = "none" /\ packet = << >> /\ got = << >> /\ fault = <<"idle">>
NalIdle    == /\ units = << >> /\ sent = 0 /\ lost = {} /\ losses = 0
              /\ nalBuf = << >> /\ handled = << >> /\ alive = TRUE
GolIdle    == /\ payload = [i \in Frames |-> << >>] /\ phase = "idle"
              /\ input = << >> /\ buf = << >> /\ pipe = << >> /\ greeted = FALSE
              /\ cbuf = << >> /\ delivered = << >> /\ skipped = {}

Init == \/ AuthInit /\ PacketIdle /\ NalIdle /\ GolIdle
        \/ AuthIdle /\ PacketInit /\ NalIdle /\ GolIdle
        \/ AuthIdle /\ PacketIdle /\ NalInit /\ GolIdle
        \/ AuthIdle /\ PacketIdle /\ NalIdle /\ GolInit

Next == \/ AuthNext /\ UNCHANGED <<packetVars, nalVars, golVars>>
        \/ PacketNext /\ UNCHANGED <<authVars, nalVars, golVars>>
        \/ NalNext /\ UNCHANGED <<authVars, packetVars, golVars>>
        \/ /\ phase # "idle"
           /\ GolNext
           /\ UNCHANGED <<authVars, packetVars, nalVars>>

Spec == Init /\ [][Next]_<<authVars, packetVars, nalVars, golVars>>
===============================================================================

------------------------- MODULE ClientProgramProofs -------------------------
(***************************************************************************)
(* Theorems about ClientProgram, for any number of statuses and frames.    *)
(***************************************************************************)
EXTENDS ClientProgram, SequenceTheorems, TLAPS

\* Who has been started by whom: each receive thread only once the fields it looks
\* at are set, and before Enter nobody takes them back.
StartInv ==
    /\ rx # "none" => bg \in {"vsocket", "vregister", "vrun", "done"}
    /\ vrx # "none" => bg = "done"
    /\ main = "serve" =>
         /\ hooked
         /\ bg # "socket" => sock = "open"
         /\ rx # "none" \/ bg = "start" => running
         /\ bg \in {"vregister", "vrun"} \/ vrx # "none" => vsock = "open"
         /\ vrx # "none" => vrunning

\* The statuses in a row of frames come in the order of their numbers ...
Rising(s) == \A i, j \in 1 .. Len(s) : i < j /\ s[j] # TELEMETRY => s[i] <= s[j]

\* ... none is older than one that was handled or newer than the last one sent ...
Between(s, low, high) ==
    \A i \in 1 .. Len(s) : s[i] # TELEMETRY => low <= s[i] /\ s[i] <= high

\* ... and none of t is older than one of s.
Precedes(s, t) == \A i \in 1 .. Len(s), j \in 1 .. Len(t) : t[j] # TELEMETRY => s[i] <= t[j]

\* Where the frames not yet handled are: with one of the two threads, and the rest
\* behind them on the wire.
OrderInv ==
    /\ bg # "handle" => bgBuf = << >>
    /\ rx = "none" => rxBuf = << >>
    /\ Rising(bgBuf) /\ Rising(rxBuf) /\ Rising(wire)
    /\ Precedes(bgBuf, wire) /\ Precedes(rxBuf, wire)
    /\ Between(bgBuf, relay_state, sent) /\ Between(bgBuf, latest, sent)
    /\ Between(rxBuf, relay_state, sent) /\ Between(rxBuf, latest, sent)
    /\ Between(wire, relay_state, sent) /\ Between(wire, latest, sent)
    /\ relay_state <= sent /\ latest <= sent

\* The inductive invariant.
IInv == TypeOK /\ StartInv /\ ReceiverStays /\ OrderInv

-----------------------------------------------------------------------------
(* Frames in a row *)

\* A part of the row.
LEMMA PartOrdered ==
  ASSUME NEW s \in Seq(Frames), NEW a \in Nat \ {0}, NEW b \in 0 .. Len(s), Rising(s),
         NEW low \in Nat, NEW high \in Nat, Between(s, low, high)
  PROVE  /\ SubSeq(s, a, b) \in Seq(Frames)
         /\ Rising(SubSeq(s, a, b))
         /\ Between(SubSeq(s, a, b), low, high)
<1> DEFINE t == SubSeq(s, a, b)
<1>0. BoundAssumption
  BY BoundAssumption
<1>1. /\ Len(t) = IF a <= b THEN b - a + 1 ELSE 0
      /\ \A i \in 1 .. Len(t) : t[i] = s[a + i - 1] /\ a + i - 1 \in 1 .. Len(s)
      /\ t \in Seq(Frames)
  BY <1>0 DEF Frames, BoundAssumption
<1>2. Len(t) \in Nat
  BY <1>1
<1> HIDE DEF t
<1>3. Rising(t)
  <2> SUFFICES ASSUME NEW i \in 1 .. Len(t), NEW j \in 1 .. Len(t), i < j, t[j] # TELEMETRY
               PROVE  t[i] <= t[j]
    BY DEF Rising
  <2>1. /\ t[i] = s[a + i - 1] /\ a + i - 1 \in 1 .. Len(s)
        /\ t[j] = s[a + j - 1] /\ a + j - 1 \in 1 .. Len(s)
    BY <1>1
  <2>2. a + i - 1 < a + j - 1
    BY <1>2
  <2> QED BY <2>1, <2>2 DEF Rising
<1>4. Between(t, low, high)
  BY <1>1, <1>2 DEF Between
<1> QED BY <1>1, <1>3, <1>4 DEF t

\* The front of the row and what is behind it.
LEMMA FrontPrecedes ==
  ASSUME NEW s \in Seq(Frames), NEW k \in 0 .. Len(s), NEW m \in k + 1 .. Len(s) + 1, Rising(s)
  PROVE  Precedes(SubSeq(s, 1, k), SubSeq(s, m, Len(s)))
<1> DEFINE t == SubSeq(s, 1, k)
           u == SubSeq(s, m, Len(s))
<1>1. Len(t) = k /\ \A i \in 1 .. k : t[i] = s[i] /\ i \in 1 .. Len(s)
  BY DEF Frames
<1>2. /\ Len(u) = Len(s) - m + 1
      /\ \A j \in 1 .. Len(u) : u[j] = s[m + j - 1] /\ m + j - 1 \in 1 .. Len(s)
  BY DEF Frames
<1> HIDE DEF t, u
<1>3. Precedes(t, u)
  <2> SUFFICES ASSUME NEW i \in 1 .. Len(t), NEW j \in 1 .. Len(u), u[j] # TELEMETRY
               PROVE  t[i] <= u[j]
    BY DEF Precedes
  <2>1. /\ t[i] = s[i] /\ i \in 1 .. Len(s) /\ i <= k
        /\ u[j] = s[m + j - 1] /\ m + j - 1 \in 1 .. Len(s)
    BY <1>1, <1>2
  <2>2. i < m + j - 1
    BY <2>1, <1>2
  <2> QED BY <2>1, <2>2 DEF Rising
<1> QED BY <1>3 DEF t, u

\* The row without its first frame, which is not newer than any other.
LEMMA TailOrdered ==
  ASSUME NEW s \in Seq(Frames), s # << >>, Rising(s),
         NEW low \in Nat, NEW high \in Nat, Between(s, low, high)
  PROVE  /\ Tail(s) \in Seq(Frames) /\ Head(s) \in Frames
         /\ Rising(Tail(s))
         /\ Between(Tail(s), low, high)
         /\ Between(Tail(s), Head(s), high)
         /\ Head(s) # TELEMETRY => low <= Head(s) /\ Head(s) <= high
<1> DEFINE t == Tail(s)
<1>1. /\ t \in Seq(Frames) /\ Len(t) = Len(s) - 1 /\ Len(s) \in Nat \ {0}
      /\ Head(s) = s[1] /\ Head(s) \in Frames
      /\ \A i \in 1 .. Len(t) : t[i] = s[i + 1] /\ i + 1 \in 1 .. Len(s)
  <2>1. /\ t \in Seq(Frames) /\ Len(t) = Len(s) - 1 /\ Head(s) \in Frames
        /\ \A i \in 1 .. Len(t) : t[i] = s[i + 1]
    BY HeadTailProperties DEF Frames
  <2>2. Len(s) \in Nat \ {0}
    BY EmptySeq DEF Frames
  <2>3. Head(s) = s[1]
    BY DEF Frames
  <2> HIDE DEF t
  <2> QED BY <2>1, <2>2, <2>3
<1> HIDE DEF t
<1>2. Rising(t)
  <2> SUFFICES ASSUME NEW i \in 1 .. Len(t), NEW j \in 1 .. Len(t), i < j, t[j] # TELEMETRY
               PROVE  t[i] <= t[j]
    BY DEF Rising
  <2>1. t[i] = s[i + 1] /\ t[j] = s[j + 1] /\ i + 1 \in 1 .. Len(s) /\ j + 1 \in 1 .. Len(s)
    BY <1>1
  <2>2. i + 1 < j + 1
    BY <1>1
  <2> QED BY <2>1, <2>2 DEF Rising
<1>5. Between(t, low, high)
  BY <1>1 DEF Between
<1>3. Between(t, Head(s), high)
  <2> SUFFICES ASSUME NEW i \in 1 .. Len(t), t[i] # TELEMETRY
               PROVE  Head(s) <= t[i] /\ t[i] <= high
    BY DEF Between
  <2>1. t[i] = s[i + 1] /\ i + 1 \in 1 .. Len(s) /\ 1 < i + 1 /\ 1 \in 1 .. Len(s)
    BY <1>1
  <2> QED BY <1>1, <2>1 DEF Rising, Between
<1>4. Head(s) # TELEMETRY => low <= Head(s) /\ Head(s) <= high
  BY <1>1 DEF Between
<1> QED BY <1>1, <1>2, <1>3, <1>4, <1>5 DEF t

\* What follows the whole row also follows the rest of it and its first frame.
LEMMA TailPrecedes ==
  ASSUME NEW s \in Seq(Frames), s # << >>, NEW t \in Seq(Frames), Precedes(s, t),
         NEW high \in Nat, NEW low \in Nat, Between(t, low, high)
  PROVE  Precedes(Tail(s), t) /\ Between(t, Head(s), high)
<1>1. /\ Len(Tail(s)) = Len(s) - 1 /\ Len(s) \in Nat \ {0} /\ Head(s) = s[1]
      /\ \A i \in 1 .. Len(Tail(s)) : Tail(s)[i] = s[i + 1] /\ i + 1 \in 1 .. Len(s)
  BY HeadTailProperties, LenProperties, EmptySeq DEF Frames
<1> QED BY <1>1 DEF Precedes, Between

\* A frame more at the end.
LEMMA AppendOrdered ==
  ASSUME NEW s \in Seq(Frames), Rising(s), NEW low \in Nat, NEW high \in Nat, Between(s, low, high),
         NEW x \in Frames, x = TELEMETRY \/ (x = high + 1 /\ low <= high),
         NEW high2 \in Nat, high2 = IF x = TELEMETRY THEN high ELSE x
  PROVE  /\ Append(s, x) \in Seq(Frames)
         /\ Rising(Append(s, x))
         /\ Between(Append(s, x), low, high2)
<1> DEFINE t == Append(s, x)
<1>1. /\ t \in Seq(Frames) /\ Len(t) = Len(s) + 1 /\ Len(s) \in Nat
      /\ t[Len(s) + 1] = x /\ \A i \in 1 .. Len(s) : t[i] = s[i] /\ s[i] \in Nat
  BY AppendProperties, LenProperties, ElementOfSeq, BoundAssumption DEF Frames, BoundAssumption
<1> HIDE DEF t
<1>2. Between(t, low, high2)
  BY <1>1 DEF Between, TELEMETRY
<1>3. Rising(t)
  <2> SUFFICES ASSUME NEW i \in 1 .. Len(t), NEW j \in 1 .. Len(t), i < j, t[j] # TELEMETRY
               PROVE  t[i] <= t[j]
    BY DEF Rising
  <2>1. i \in 1 .. Len(s) /\ t[i] = s[i]
    BY <1>1
  <2>2. CASE j \in 1 .. Len(s)
    BY <1>1, <2>1, <2>2 DEF Rising
  <2>3. CASE j = Len(s) + 1
    <3>1. t[j] = high + 1
      BY <1>1, <2>3
    <3>2. s[i] = 0 \/ s[i] <= high
      BY <2>1 DEF Between, TELEMETRY
    <3> QED BY <1>1, <2>1, <3>1, <3>2
  <2> QED BY <1>1, <2>2, <2>3
<1> QED BY <1>1, <1>2, <1>3 DEF t

-----------------------------------------------------------------------------
(* The types *)

\* The program starts with nothing connected (main.py:20).
LEMMA InitIInv == Init => IInv
<1> SUFFICES ASSUME Init PROVE IInv
  OBVIOUS
<1>1. TypeOK
  <2>1. 0 \in Frames /\ << >> \in Seq(Frames)
    BY BoundAssumption DEF BoundAssumption, Frames
  <2>2. /\ wire \in Seq(Frames) /\ bgBuf \in Seq(Frames) /\ rxBuf \in Seq(Frames)
        /\ relay_state \in Frames /\ latest \in Frames /\ sent \in Frames
        /\ cut \subseteq Frames /\ late \subseteq {"conn", "video"}
    BY <2>1 DEF Init, UNKNOWN
  <2>3. running \in BOOLEAN /\ vrunning \in BOOLEAN /\ hooked \in BOOLEAN
    BY DEF Init
  <2> QED BY <2>2, <2>3 DEF Init, TypeOK
<1>2. StartInv /\ ReceiverStays
  BY DEF Init, StartInv, ReceiverStays
<1>3. OrderInv
  BY DEF Init, OrderInv, Rising, Between, Precedes, UNKNOWN
<1> QED BY <1>1, <1>2, <1>3 DEF IInv

\* The relay's and the network's steps.
LEMMA RelayTypeOK ==
  ASSUME TypeOK, Send \/ HangUp
  PROVE  TypeOK'
<1> USE BoundAssumption DEF BoundAssumption, mainVars, bgVars, rxVars, connVars, vidVars, seenVars
<1>1. CASE Send
  <2>1. wire \in Seq(Frames) /\ sent \in Frames
    BY DEF TypeOK
  <2>2. wire' \in Seq(Frames) /\ sent' \in Frames
    <3>1. \A x \in Frames : Append(wire, x) \in Seq(Frames)
      BY <2>1, AppendProperties
    <3>2. TELEMETRY \in Frames /\ (sent < MaxStatus => sent + 1 \in Frames)
      BY <2>1 DEF TELEMETRY, Frames
    <3> QED BY <1>1, <2>1, <3>1, <3>2 DEF Send
  <2> QED BY <1>1, <2>2 DEF Send, TypeOK
<1>2. CASE HangUp
  BY <1>2 DEF HangUp, TypeOK
<1> QED BY <1>1, <1>2

\* The row that is read is split into rows.
LEMMA PartTyped ==
  ASSUME NEW s \in Seq(Frames), NEW a \in Nat \ {0}, NEW b \in 0 .. Len(s)
  PROVE  SubSeq(s, a, b) \in Seq(Frames)
<1>1. Len(s) \in Nat /\ b \in Int /\ \A i \in a .. b : s[i] \in Frames
  BY LenProperties, ElementOfSeq
<1> QED BY <1>1, SubSeqProperties

\* connect_background keeps the types.
LEMMA BackgroundTypeOK ==
  ASSUME TypeOK, Background
  PROVE  TypeOK'
<1> USE DEF mainVars, rxVars, connVars, vidVars, seenVars, netVars
<1>0. /\ bgBuf \in Seq(Frames) /\ wire \in Seq(Frames)
      /\ cut \subseteq Frames
      /\ relay_state \in Frames /\ latest \in Frames
  BY DEF TypeOK
<1>1. CASE BgSocket \/ BgDial \/ BgNoGreeting
  <2>1. CASE BgSocket
    BY <2>1 DEF BgSocket, TypeOK
  <2>2. CASE BgDial
    BY <2>2 DEF BgDial, TypeOK
  <2>3. CASE BgNoGreeting
    BY <2>3 DEF BgNoGreeting, TypeOK
  <2> QED BY <1>1, <2>1, <2>2, <2>3
<1>2. CASE BgRead
  <2>1. PICK k \in 0 .. Len(wire), c \in 0 .. 1 :
          /\ k + c \in 1 .. Len(wire)
          /\ bgBuf' = SubSeq(wire, 1, k)
          /\ wire' = SubSeq(wire, k + c + 1, Len(wire))
          /\ cut' = cut \cup {wire[i] : i \in k + 1 .. k + c}
    BY <1>2 DEF BgRead
  <2>2. Len(wire) \in Nat
    BY <1>0
  <2>3. bgBuf' \in Seq(Frames) /\ wire' \in Seq(Frames)
    BY <1>0, <2>1, <2>2, PartTyped
  <2>4. cut' \subseteq Frames
    BY <1>0, <2>1, <2>2, ElementOfSeq
  <2> QED BY <1>2, <2>3, <2>4 DEF BgRead, TypeOK
<1>3. CASE BgHandle
  <2>1. bgBuf' \in Seq(Frames)
    BY <1>0, <1>3 DEF BgHandle
  <2>2. relay_state' \in Frames /\ latest' \in Frames
    <3>1. bgBuf # << >> => Head(bgBuf) \in Frames
      BY <1>0
    <3> QED BY <1>0, <1>3, <3>1 DEF BgHandle, HandleStatus
  <2> QED BY <1>3, <2>1, <2>2 DEF BgHandle, TypeOK
<1>4. CASE BgRun
  BY <1>4 DEF BgRun, TypeOK
<1>8. CASE BgStart
  BY <1>8 DEF BgStart, TypeOK
<1>5. CASE BgVideoSocket
  <2>1. bg' = "vregister" /\ vsock' = "open" /\ late' \subseteq {"conn", "video"}
    BY <1>5 DEF BgVideoSocket, TypeOK
  <2> QED BY <1>5, <2>1 DEF BgVideoSocket, TypeOK
<1>6. CASE BgVideoRegister
  BY <1>6 DEF BgVideoRegister, TypeOK
<1>7. CASE BgVideoRun
  BY <1>7 DEF BgVideoRun, TypeOK
<1> QED BY <1>1, <1>2, <1>3, <1>4, <1>5, <1>6, <1>7, <1>8 DEF Background

\* So do the receive threads.
LEMMA ReceiveTypeOK ==
  ASSUME TypeOK, Receive \/ ReceiveVideo \/ PageReads
  PROVE  TypeOK'
<1> USE DEF mainVars, bgVars, connVars, vidVars, seenVars, netVars
<1>0. /\ rxBuf \in Seq(Frames) /\ wire \in Seq(Frames)
      /\ relay_state \in Frames /\ latest \in Frames
  BY DEF TypeOK
<1>1. CASE RxTest \/ RxCall
  <2>1. rx' \in {"test", "recv", "handle", "call", "done"}
    BY <1>1 DEF RxTest, RxCall
  <2>2. UNCHANGED <<mainVars, bgVars, rxBuf, connVars, vidVars, seenVars, netVars, late>>
    BY <1>1 DEF RxTest, RxCall
  <2> QED BY <2>1, <2>2 DEF TypeOK
<1>4. CASE ReceiveVideo \/ PageReads
  <2>1. vrx' \in {"test", "recv", "call", "held", "done"} /\ raised' \in {raised, TRUE}
    BY <1>4 DEF ReceiveVideo, VideoTest, VideoRecv, VideoCall, PacketDone, PageReads
  <2>2. UNCHANGED <<mainVars, bgVars, rxVars, connVars, vrunning, vsock, seenVars, netVars, late>>
    BY <1>4 DEF ReceiveVideo, VideoTest, VideoRecv, VideoCall, PacketDone, PageReads
  <2>3. raised' \in BOOLEAN
    BY <2>1 DEF TypeOK
  <2> QED BY <2>1, <2>2, <2>3 DEF rxVars, TypeOK
<1>2. CASE RxRecv
  <2>1. rxBuf' \in Seq(Frames) /\ wire' \in Seq(Frames)
    <3>1. CASE UNCHANGED <<rxBuf, wire>>
      BY <1>0, <3>1
    <3>2. ASSUME NEW k \in 1 .. Len(wire), rxBuf' = SubSeq(wire, 1, k),
                 wire' = SubSeq(wire, k + 1, Len(wire))
          PROVE  rxBuf' \in Seq(Frames) /\ wire' \in Seq(Frames)
      <4>1. Len(wire) \in Nat
        BY <1>0
      <4> QED BY <1>0, <3>2, <4>1, PartTyped
    <3> QED BY <1>2, <3>1, <3>2 DEF RxRecv
  <2> QED BY <1>2, <2>1 DEF RxRecv, TypeOK
<1>3. CASE RxHandle
  <2>1. rxBuf' \in Seq(Frames)
    <3>1. rxBuf # << >> => Tail(rxBuf) \in Seq(Frames)
      BY <1>0, HeadTailProperties
    <3> QED BY <1>0, <1>3, <3>1 DEF RxHandle
  <2>2. relay_state' \in Frames /\ latest' \in Frames
    <3>1. rxBuf # << >> => Head(rxBuf) \in Frames
      BY <1>0
    <3> QED BY <1>0, <1>3, <3>1 DEF RxHandle, HandleStatus
  <2> QED BY <1>3, <2>1, <2>2 DEF RxHandle, TypeOK
<1> QED BY <1>1, <1>2, <1>3, <1>4 DEF Receive

\* Every step of every thread keeps the types.
LEMMA NextTypeOK ==
  ASSUME TypeOK, [Next]_vars
  PROVE  TypeOK'
<1>1. CASE Enter \/ Stop
  <2>1. /\ main' \in {"unhook", "vstop", "vclose", "stop", "close", "over"}
        /\ UNCHANGED <<bg, bgBuf, rx, rxBuf, vrx, raised, relay_state, latest, link, wire, sent, cut,
                       late>>
    BY <1>1 DEF Enter, Stop, Unhook, VideoStop, VideoClose, Disconnect, DisconnectClose, MainGoes,
                bgVars, rxVars, seenVars, netVars
  <2>2. /\ hooked' \in {hooked, FALSE} /\ running' \in {running, FALSE} /\ sock' \in {sock, "none"}
        /\ vrunning' \in {vrunning, FALSE} /\ vsock' \in {vsock, "none"}
    BY <1>1 DEF Enter, Stop, Unhook, VideoStop, VideoClose, Disconnect, DisconnectClose, connVars
  <2>3. /\ hooked' \in BOOLEAN /\ running' \in BOOLEAN /\ sock' \in {"none", "open"}
        /\ vrunning' \in BOOLEAN /\ vsock' \in {"none", "open"}
    BY <2>2 DEF TypeOK
  <2>4. /\ UNCHANGED <<bg, bgBuf, rx, rxBuf, vrx, raised, relay_state, latest, link, wire, sent, cut,
                       late>>
        /\ main' \in {"serve", "unhook", "vstop", "vclose", "stop", "close", "over"}
    BY <2>1
  <2> HIDE <2>2
  <2> QED BY <2>3, <2>4 DEF TypeOK
<1>2. CASE UNCHANGED vars
  BY <1>2 DEF vars, mainVars, bgVars, rxVars, connVars, vidVars, seenVars, netVars, TypeOK
<1> QED BY <1>1, <1>2, RelayTypeOK, BackgroundTypeOK, ReceiveTypeOK DEF Next

-----------------------------------------------------------------------------
(* Who runs *)

\* No step before Enter takes a field away from a thread that runs, and what ends
\* the receive threads is only the end of the connection, or a packet at which the
\* dashboard raises.
LEMMA NextStart ==
  ASSUME TypeOK, StartInv, ReceiverStays, [Next]_vars
  PROVE  StartInv' /\ ReceiverStays'
<1> USE DEF StartInv, ReceiverStays, mainVars, bgVars, rxVars, connVars, vidVars, seenVars, netVars
<1>1. CASE Send \/ HangUp
  BY <1>1 DEF Send, HangUp
<1>2. CASE Background
  <2>1. CASE BgSocket \/ BgDial \/ BgRead \/ BgNoGreeting
    BY <2>1 DEF BgSocket, BgDial, BgRead, BgNoGreeting
  <2>2. CASE BgHandle \/ BgRun \/ BgStart
    BY <2>2 DEF BgHandle, BgRun, BgStart
  <2>3. CASE BgVideoSocket \/ BgVideoRegister \/ BgVideoRun
    BY <2>3 DEF BgVideoSocket, BgVideoRegister, BgVideoRun
  <2> QED BY <1>2, <2>1, <2>2, <2>3 DEF Background
<1>3. CASE Receive
  BY <1>3 DEF Receive, RxTest, RxRecv, RxHandle, RxCall, TimesOut, HasData, HasEnd, Fails
<1>4. CASE ReceiveVideo \/ PageReads
  BY <1>4 DEF ReceiveVideo, VideoTest, VideoRecv, VideoCall, PacketDone, PageReads
<1>5. CASE Enter \/ Stop
  BY <1>5 DEF Enter, Stop, Unhook, VideoStop, VideoClose, Disconnect, DisconnectClose, MainGoes
<1>6. CASE UNCHANGED vars
  BY <1>6 DEF vars
<1> QED BY <1>1, <1>2, <1>3, <1>4, <1>5, <1>6 DEF Next

-----------------------------------------------------------------------------
(* In which order statuses are handled *)

\* Steps that touch neither the frames nor what was seen of them.
LEMMA StutterOrder ==
  ASSUME OrderInv, UNCHANGED <<bgBuf, rxBuf, wire, sent, seenVars>>,
         bg' # "handle" => bg # "handle" \/ bgBuf = << >>,
         rx' = "none" => rx = "none"
  PROVE  OrderInv'
BY DEF OrderInv, seenVars, Rising, Between, Precedes

\* The relay sends a status with the next number, or telemetry.
LEMMA SendOrder ==
  ASSUME TypeOK, OrderInv, Send
  PROVE  OrderInv'
<1>1. /\ wire \in Seq(Frames) /\ bgBuf \in Seq(Frames) /\ rxBuf \in Seq(Frames)
      /\ relay_state \in Nat /\ latest \in Nat /\ sent \in Nat
  BY BoundAssumption DEF TypeOK, Frames, BoundAssumption
<1>2. PICK x \in Frames : /\ wire' = Append(wire, x)
                          /\ \/ x = TELEMETRY /\ sent' = sent
                             \/ x = sent + 1 /\ sent' = x
  BY <1>1, BoundAssumption DEF Send, TELEMETRY, Frames, BoundAssumption
<1>3. sent' \in Nat /\ sent <= sent' /\ sent' = IF x = TELEMETRY THEN sent ELSE x
  BY <1>1, <1>2 DEF TELEMETRY
<1>4. UNCHANGED <<bg, bgBuf, rx, rxBuf, relay_state, latest>>
  BY DEF Send, bgVars, rxVars, seenVars
<1>5. Rising(wire')
  BY <1>1, <1>2, <1>3, AppendOrdered DEF OrderInv
<1>6. Between(wire', relay_state, sent') /\ Between(wire', latest, sent')
  BY <1>1, <1>2, <1>3, AppendOrdered DEF OrderInv
<1>7. ASSUME NEW s \in Seq(Frames), NEW low \in Nat, Between(s, low, sent), Precedes(s, wire)
      PROVE  Between(s, low, sent') /\ Precedes(s, wire')
  <2>1. \A i \in 1 .. Len(s) : s[i] \in Nat
    BY ElementOfSeq, BoundAssumption DEF Frames, BoundAssumption
  <2>2. Between(s, low, sent')
    BY <1>1, <1>3, <1>7, <2>1 DEF Between
  <2>3. /\ Len(wire) \in Nat /\ Len(wire') = Len(wire) + 1 /\ wire'[Len(wire) + 1] = x
        /\ \A j \in 1 .. Len(wire) : wire'[j] = wire[j]
    BY <1>1, <1>2, AppendProperties, LenProperties
  <2>4. ASSUME NEW i \in 1 .. Len(s), NEW j \in 1 .. Len(wire'), wire'[j] # TELEMETRY
        PROVE  s[i] <= wire'[j]
    <3>1. CASE j \in 1 .. Len(wire)
      BY <1>7, <2>3, <2>4, <3>1 DEF Precedes
    <3>2. CASE j = Len(wire) + 1
      BY <1>1, <1>2, <1>7, <2>1, <2>3, <2>4, <3>2 DEF Between, TELEMETRY
    <3> QED BY <2>3, <3>1, <3>2
  <2> QED BY <2>2, <2>4 DEF Precedes
<1>8. relay_state <= sent' /\ latest <= sent'
  BY <1>1, <1>3 DEF OrderInv
<1> QED BY <1>1, <1>4, <1>5, <1>6, <1>7, <1>8 DEF OrderInv

\* A thread takes a row of frames off the wire, of which perhaps one is lost.
LEMMA ReadSplits ==
  ASSUME TypeOK, OrderInv, NEW k \in 0 .. Len(wire), NEW m \in k + 1 .. Len(wire) + 1
  PROVE  LET front == SubSeq(wire, 1, k)
             rest  == SubSeq(wire, m, Len(wire))
         IN  /\ Rising(front) /\ Rising(rest) /\ Precedes(front, rest)
             /\ Between(front, relay_state, sent) /\ Between(front, latest, sent)
             /\ Between(rest, relay_state, sent) /\ Between(rest, latest, sent)
<1>1. /\ wire \in Seq(Frames) /\ Len(wire) \in Nat
      /\ relay_state \in Nat /\ latest \in Nat /\ sent \in Nat
  BY BoundAssumption DEF TypeOK, Frames, BoundAssumption
<1>2. 1 \in Nat \ {0} /\ m \in Nat \ {0} /\ Len(wire) \in 0 .. Len(wire)
  BY <1>1
<1>3. Rising(wire) /\ Between(wire, relay_state, sent) /\ Between(wire, latest, sent)
  BY DEF OrderInv
<1> QED BY <1>1, <1>2, <1>3, PartOrdered, FrontPrecedes

\* connect's read.
LEMMA BgReadOrder ==
  ASSUME TypeOK, StartInv, OrderInv, BgRead
  PROVE  OrderInv'
<1>1. PICK k \in 0 .. Len(wire), c \in 0 .. 1 :
        /\ k + c \in 1 .. Len(wire)
        /\ bgBuf' = SubSeq(wire, 1, k)
        /\ wire' = SubSeq(wire, k + c + 1, Len(wire))
  BY DEF BgRead
<1>2. Len(wire) \in Nat /\ k + c + 1 \in k + 1 .. Len(wire) + 1
  BY <1>1 DEF TypeOK
<1>3. /\ Rising(bgBuf') /\ Rising(wire') /\ Precedes(bgBuf', wire')
      /\ Between(bgBuf', relay_state, sent) /\ Between(bgBuf', latest, sent)
      /\ Between(wire', relay_state, sent) /\ Between(wire', latest, sent)
  BY <1>1, <1>2, ReadSplits
<1>4. UNCHANGED <<rx, rxBuf, sent, relay_state, latest>> /\ rx = "none" /\ bg' = "handle"
  BY DEF BgRead, rxVars, seenVars, StartInv
<1>5. rxBuf = << >>
  BY <1>4 DEF OrderInv
<1>6. Precedes(rxBuf, wire')
  BY <1>5 DEF Precedes
<1> QED BY <1>3, <1>4, <1>6 DEF OrderInv

\* The receive thread's.
LEMMA RxRecvOrder ==
  ASSUME TypeOK, StartInv, OrderInv, RxRecv
  PROVE  OrderInv'
<1>1. UNCHANGED <<bg, bgBuf, sent, seenVars>> /\ rx' # "none" /\ rx # "none"
  BY DEF RxRecv, bgVars
<1>2. CASE UNCHANGED <<rxBuf, wire>>
  BY <1>1, <1>2, StutterOrder
<1>3. ASSUME NEW k \in 1 .. Len(wire), rxBuf' = SubSeq(wire, 1, k),
             wire' = SubSeq(wire, k + 1, Len(wire))
      PROVE  OrderInv'
  <2>1. Len(wire) \in Nat /\ k \in 0 .. Len(wire) /\ k + 1 \in k + 1 .. Len(wire) + 1
    BY DEF TypeOK
  <2>2. /\ Rising(rxBuf') /\ Rising(wire') /\ Precedes(rxBuf', wire')
        /\ Between(rxBuf', relay_state, sent) /\ Between(rxBuf', latest, sent)
        /\ Between(wire', relay_state, sent) /\ Between(wire', latest, sent)
    BY <1>3, <2>1, ReadSplits
  <2>3. bgBuf = << >>
    BY <1>1 DEF StartInv, OrderInv
  <2>4. Precedes(bgBuf, wire')
    BY <2>3 DEF Precedes
  <2> QED BY <1>1, <2>2, <2>4 DEF OrderInv, seenVars
<1> QED BY <1>2, <1>3 DEF RxRecv

\* A thread handles the first frame of its row: what is left is not older, nor what
\* is behind it on the wire.
LEMMA HandledFirst ==
  ASSUME TypeOK, NEW s \in Seq(Frames), s # << >>,
         Rising(s), Precedes(s, wire), Rising(wire),
         Between(s, relay_state, sent), Between(s, latest, sent),
         Between(wire, relay_state, sent), Between(wire, latest, sent),
         relay_state <= sent, latest <= sent,
         IF Head(s) = TELEMETRY THEN UNCHANGED seenVars ELSE HandleStatus(Head(s))
  PROVE  /\ Rising(Tail(s)) /\ Precedes(Tail(s), wire)
         /\ Between(Tail(s), relay_state', sent) /\ Between(Tail(s), latest', sent)
         /\ Between(wire, relay_state', sent) /\ Between(wire, latest', sent)
         /\ relay_state' <= sent /\ latest' <= sent
         /\ relay_state <= relay_state' /\ latest <= latest'
<1>1. /\ wire \in Seq(Frames) /\ relay_state \in Nat /\ latest \in Nat /\ sent \in Nat
  BY BoundAssumption DEF TypeOK, Frames, BoundAssumption
<1>2. /\ Rising(Tail(s)) /\ Head(s) \in Frames
      /\ Between(Tail(s), relay_state, sent) /\ Between(Tail(s), latest, sent)
      /\ Between(Tail(s), Head(s), sent)
      /\ Head(s) # TELEMETRY => relay_state <= Head(s) /\ latest <= Head(s) /\ Head(s) <= sent
  BY <1>1, TailOrdered
<1>3. Precedes(Tail(s), wire) /\ Between(wire, Head(s), sent)
  BY <1>1, TailPrecedes
<1>4. CASE Head(s) = TELEMETRY
  BY <1>1, <1>2, <1>3, <1>4 DEF seenVars
<1>5. CASE Head(s) # TELEMETRY
  <2>1. relay_state' = Head(s) /\ (latest' = Head(s) \/ latest' = latest)
    BY <1>5 DEF HandleStatus
  <2> QED BY <1>1, <1>2, <1>3, <1>5, <2>1
<1> QED BY <1>4, <1>5

\* connect handles what it has read.
LEMMA BgHandleOrder ==
  ASSUME TypeOK, StartInv, OrderInv, BgHandle
  PROVE  OrderInv' /\ relay_state' >= relay_state /\ latest' >= latest
<1>0. relay_state \in Nat /\ latest \in Nat /\ bgBuf \in Seq(Frames)
  BY BoundAssumption DEF TypeOK, Frames, BoundAssumption
<1>1. UNCHANGED <<rx, rxBuf, wire, sent>> /\ bg = "handle"
  BY DEF BgHandle, rxVars, netVars
<1>2. CASE bgBuf = << >>
  <2>1. UNCHANGED <<bgBuf, seenVars>>
    BY <1>2 DEF BgHandle
  <2> QED BY <1>0, <1>1, <1>2, <2>1, StutterOrder DEF seenVars
<1>3. CASE bgBuf # << >>
  <2>1. /\ bgBuf' = Tail(bgBuf) /\ bg' = "handle"
        /\ IF Head(bgBuf) = TELEMETRY THEN UNCHANGED seenVars ELSE HandleStatus(Head(bgBuf))
    BY <1>1, <1>3 DEF BgHandle
  <2>2. rxBuf = << >>
    BY <1>1 DEF StartInv, OrderInv
  <2>3. /\ Rising(bgBuf') /\ Precedes(bgBuf', wire)
        /\ Between(bgBuf', relay_state', sent) /\ Between(bgBuf', latest', sent)
        /\ Between(wire, relay_state', sent) /\ Between(wire, latest', sent)
        /\ relay_state' <= sent /\ latest' <= sent
        /\ relay_state <= relay_state' /\ latest <= latest'
    BY <1>0, <1>3, <2>1, HandledFirst DEF OrderInv
  <2>4. Between(rxBuf, relay_state', sent) /\ Between(rxBuf, latest', sent)
    BY <2>2 DEF Between
  <2>5. relay_state' >= relay_state /\ latest' >= latest
    BY <2>3
  <2> QED BY <1>1, <2>1, <2>3, <2>4, <2>5 DEF OrderInv
<1> QED BY <1>2, <1>3

\* So does the receive thread.
LEMMA RxHandleOrder ==
  ASSUME TypeOK, StartInv, OrderInv, RxHandle
  PROVE  OrderInv' /\ relay_state' >= relay_state /\ latest' >= latest
<1>0. relay_state \in Nat /\ latest \in Nat /\ rxBuf \in Seq(Frames)
  BY BoundAssumption DEF TypeOK, Frames, BoundAssumption
<1>1. UNCHANGED <<bg, bgBuf, wire, sent>> /\ rx = "handle" /\ rx' # "none"
  BY DEF RxHandle, bgVars, netVars
<1>2. CASE rxBuf = << >>
  <2>1. UNCHANGED <<rxBuf, seenVars>>
    BY <1>2 DEF RxHandle
  <2> QED BY <1>0, <1>1, <1>2, <2>1, StutterOrder DEF seenVars
<1>3. CASE rxBuf # << >>
  <2>1. /\ rxBuf' = Tail(rxBuf)
        /\ IF Head(rxBuf) = TELEMETRY THEN UNCHANGED seenVars ELSE HandleStatus(Head(rxBuf))
    BY <1>3 DEF RxHandle
  <2>2. bgBuf = << >>
    BY <1>1 DEF StartInv, OrderInv
  <2>3. /\ Rising(rxBuf') /\ Precedes(rxBuf', wire)
        /\ Between(rxBuf', relay_state', sent) /\ Between(rxBuf', latest', sent)
        /\ Between(wire, relay_state', sent) /\ Between(wire, latest', sent)
        /\ relay_state' <= sent /\ latest' <= sent
        /\ relay_state <= relay_state' /\ latest <= latest'
    BY <1>0, <1>3, <2>1, HandledFirst DEF OrderInv
  <2>4. Between(bgBuf, relay_state', sent) /\ Between(bgBuf, latest', sent)
    BY <2>2 DEF Between
  <2>5. relay_state' >= relay_state /\ latest' >= latest
    BY <2>3
  <2> QED BY <1>1, <2>1, <2>3, <2>4, <2>5 DEF OrderInv
<1> QED BY <1>2, <1>3

\* The order is kept by every step, and what was seen only becomes newer.
LEMMA NextOrder ==
  ASSUME TypeOK, StartInv, OrderInv, [Next]_vars
  PROVE  OrderInv' /\ (relay_state' >= relay_state /\ latest' >= latest)
<1>0. relay_state \in Nat /\ latest \in Nat
  BY BoundAssumption DEF TypeOK, Frames, BoundAssumption
<1> USE DEF mainVars, bgVars, rxVars, connVars, vidVars, seenVars, netVars
<1>1. CASE UNCHANGED seenVars
  <2>1. relay_state' >= relay_state /\ latest' >= latest
    BY <1>0, <1>1
  <2>2. CASE Send
    BY <2>1, <2>2, SendOrder
  <2>3. CASE BgRead
    BY <2>1, <2>3, BgReadOrder
  <2>4. CASE RxRecv
    BY <2>1, <2>4, RxRecvOrder
  <2>5. CASE BgHandle
    BY <2>5, BgHandleOrder
  <2>6. CASE RxHandle
    BY <2>6, RxHandleOrder
  <2>7. CASE UNCHANGED <<bgBuf, rxBuf, wire, sent>> /\ ~BgRead /\ ~BgHandle /\ ~RxRecv /\ ~RxHandle
    <3>1. bg' # "handle" => bg # "handle" \/ bgBuf = << >>
      BY <2>7 DEF Next, HangUp, Send, Background, BgSocket, BgDial, BgNoGreeting, BgRun, BgStart,
                  BgVideoSocket, BgVideoRegister, BgVideoRun, Receive, RxTest, RxCall,
                  ReceiveVideo, VideoTest, VideoRecv, VideoCall, PacketDone, PageReads,
                  Enter, Stop, Unhook, VideoStop, VideoClose, Disconnect, DisconnectClose,
                  MainGoes, vars
    <3>2. rx' = "none" => rx = "none"
      BY <2>7 DEF Next, HangUp, Send, Background, BgSocket, BgDial, BgNoGreeting, BgRun, BgStart,
                  BgVideoSocket, BgVideoRegister, BgVideoRun, Receive, RxTest, RxCall,
                  ReceiveVideo, VideoTest, VideoRecv, VideoCall, PacketDone, PageReads,
                  Enter, Stop, Unhook, VideoStop, VideoClose, Disconnect, DisconnectClose,
                  MainGoes, vars
    <3> QED BY <1>1, <2>1, <2>7, <3>1, <3>2, StutterOrder
  <2> QED
    BY <2>2, <2>3, <2>4, <2>5, <2>6, <2>7
       DEF Next, HangUp, Background, BgSocket, BgDial, BgNoGreeting, BgRun, BgStart,
           BgVideoSocket, BgVideoRegister, BgVideoRun, Receive, RxTest, RxCall,
           ReceiveVideo, VideoTest, VideoRecv, VideoCall, PacketDone, PageReads,
           Enter, Stop, Unhook, VideoStop, VideoClose, Disconnect, DisconnectClose, MainGoes, vars
<1>2. CASE BgHandle
  BY <1>2, BgHandleOrder
<1>3. CASE RxHandle
  BY <1>3, RxHandleOrder
<1> QED
  BY <1>1, <1>2, <1>3
     DEF Next, HangUp, Send, Background, BgSocket, BgDial, BgRead, BgNoGreeting, BgRun, BgStart,
         BgVideoSocket, BgVideoRegister, BgVideoRun, Receive, RxTest, RxRecv, RxCall,
         ReceiveVideo, VideoTest, VideoRecv, VideoCall, PacketDone, PageReads,
         Enter, Stop, Unhook, VideoStop, VideoClose, Disconnect, DisconnectClose, MainGoes, vars

-----------------------------------------------------------------------------
(* The theorems *)

LEMMA Inductive == Spec => []IInv
<1>1. IInv /\ [Next]_vars => IInv'
  BY NextTypeOK, NextStart, NextOrder DEF IInv
<1> QED BY InitIInv, <1>1, PTL DEF Spec

\* The variables keep their types.
THEOREM TypeInvariance == Spec => []TypeOK
<1>1. IInv => TypeOK
  BY DEF IInv
<1> QED BY Inductive, <1>1, PTL

\* Until Enter the receive threads of connection.py:94 and video.py:60 run, however
\* the threads interleave: but for the end of the connection and for a packet at
\* which the dashboard's callback raises.
THEOREM ReceiversStay == Spec => []ReceiverStays
<1>1. IInv => ReceiverStays
  BY DEF IInv
<1> QED BY Inductive, <1>1, PTL

\* Neither wait_ready's relay_state nor the page's goes back to an older status,
\* although two threads handle them (connection.py:126, dashboard/__init__.py:202).
THEOREM StatusOrder == Spec => StatusNeverGoesBack
<1>1. IInv /\ [Next]_vars => [relay_state' >= relay_state /\ latest' >= latest]_seenVars
  BY NextOrder DEF IInv
<1> QED BY Inductive, <1>1, PTL DEF Spec, StatusNeverGoesBack
=============================================================================

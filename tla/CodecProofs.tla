----------------------------- MODULE CodecProofs -----------------------------
(***************************************************************************)
(* Theorems about the algorithms on bytes: GolStream, for any payloads and *)
(* bounds, NalSplitter, for any units, packets and losses, Packets, for    *)
(* any sticks, coordinates and reports, and AuthKey, for any words, user   *)
(* ids and table.                                                          *)
(***************************************************************************)
EXTENDS AuthKey, Packets, NalSplitter, GolStream,
        FiniteSetTheorems, SequenceTheorems, WellFoundedInduction, TLAPS

-----------------------------------------------------------------------------
(* Induction *)

\* A set of numbers that is not empty has a least one.
LEMMA Least ==
  ASSUME NEW T \in SUBSET Nat, T # {}
  PROVE  \E m \in T : \A k \in T : m <= k
<1>1. PICK m \in T : \A k \in T : ~ (<<k, m>> \in OpToRel(<, Nat))
  BY NatLessThanWellFounded, WFMin, Zenon
<1>2. \A k \in T : ~ (k < m)
  BY <1>1 DEF OpToRel
<1> QED BY <1>2

\* Induction upward from 1 to n.
LEMMA Ascent ==
  ASSUME NEW n \in Nat, NEW A,
         \A p \in 1 .. n : (p = 1 \/ p - 1 \in A) => p \in A
  PROVE  \A p \in 1 .. n : p \in A
<1> DEFINE T == {p \in 1 .. n : p \notin A}
<1> SUFFICES ASSUME T # {} PROVE FALSE
  OBVIOUS
<1>0. T \in SUBSET Nat
  OBVIOUS
<1> HIDE DEF T
<1>1. PICK p \in T : \A k \in T : p <= k
  BY <1>0, Least
<1> USE DEF T
<1>2. p # 1
  BY <1>1
<1>3. p - 1 \in 1 .. n
  BY <1>1, <1>2
<1>4. p - 1 \in A
  BY <1>1, <1>3
<1> QED BY <1>1, <1>4

\* Induction downward from n to 1, from all that lies behind.
LEMMA Descent ==
  ASSUME NEW n \in Nat, NEW A,
         \A p \in 1 .. n : (\A q \in p + 1 .. n : q \in A) => p \in A
  PROVE  \A p \in 1 .. n : p \in A
<1> DEFINE T == {k \in 0 .. n - 1 : n - k \notin A}
<1> SUFFICES ASSUME NEW p \in 1 .. n, p \notin A PROVE FALSE
  OBVIOUS
<1>1. n - p \in T
  <2>1. n - (n - p) = p
    OBVIOUS
  <2> QED BY <2>1
<1>a. T \in SUBSET Nat
  OBVIOUS
<1> HIDE DEF T
<1>2. PICK m \in T : \A k \in T : m <= k
  BY <1>1, <1>a, Least
<1> USE DEF T
<1>3. \A q \in (n - m) + 1 .. n : q \in A
  <2> SUFFICES ASSUME NEW q \in (n - m) + 1 .. n, q \notin A PROVE FALSE
    OBVIOUS
  <2>1. n - q \in T
    <3>1. n - (n - q) = q
      OBVIOUS
    <3> QED BY <3>1
  <2> QED BY <1>2, <2>1
<1> QED BY <1>2, <1>3

\* The greatest of some positions, as SelectLastInSubSeq finds it.
LEMMA Greatest ==
  ASSUME NEW n \in Nat, NEW T \in SUBSET (1 .. n), T # {}
  PROVE  Max(T) \in T /\ \A k \in T : k <= Max(T)
<1> DEFINE U == {k \in 0 .. n : n - k \in T}
<1>1. PICK t \in T : TRUE
  OBVIOUS
<1>2. n - t \in U
  <2>1. n - (n - t) = t
    OBVIOUS
  <2> QED BY <2>1
<1>a. U \in SUBSET Nat
  OBVIOUS
<1> HIDE DEF U
<1>3. PICK m \in U : \A k \in U : m <= k
  BY <1>2, <1>a, Least
<1> USE DEF U
<1>4. \A k \in T : k <= n - m
  <2> SUFFICES ASSUME NEW k \in T PROVE k <= n - m
    OBVIOUS
  <2>1. n - (n - k) = k /\ n - k \in 0 .. n /\ k \in Int
    OBVIOUS
  <2>2. n - k \in U
    BY <2>1
  <2>3. m \in Int
    BY <1>3
  <2> HIDE DEF U
  <2>4. m <= n - k
    BY <1>3, <2>2
  <2> QED BY <2>1, <2>3, <2>4
<1>5. \E x \in T : \A y \in T : x >= y
  BY <1>3, <1>4
<1>6. Max(T) \in T /\ \A y \in T : Max(T) >= y
  BY <1>5 DEF Max
<1> QED BY <1>6

-----------------------------------------------------------------------------
(* The stream *)

\* What travels.
Token == {Data, Foot} \cup {Start(i, n) : i \in Frames \cup {STATUS, FAKE}, n \in Nat}

\* The header of a frame, and of a frame of the drone; a token between the header of
\* a frame and its footer.
Real(t)  == IsHead(t) /\ t[2] \in Frames \cup {STATUS}
Sent(t)  == IsHead(t) /\ t[2] \in Frames
Inner(t) == t # Foot /\ ~Real(t)

\* The drone's frames in a piece of the stream are in the order of their numbers.
Rising(s) == \A p, q \in 1 .. Len(s) : p < q /\ Sent(s[p]) /\ Sent(s[q]) => s[p][2] < s[q][2]

\* All that is on its way, from the client back to the drone.
Way == (cbuf \o pipe) \o (buf \o input)

\* What is on its way is in order, and comes behind what the client has handled.
OrderInv == /\ Rising(Way)
            /\ InOrder
            /\ \A k \in 1 .. Len(delivered) : \A a \in HeadsIn(Way) :
                 delivered[k] \in Frames /\ a # STATUS => delivered[k] < a

\* A buffer between two calls: behind a footer that was found some of the last piece
\* may be left, otherwise it was cut down.
Small(s) == Len(s) <= MaxBuf /\ (Unwrap(s) = << >> \/ Len(s) <= KeepBuf)
BufInv == Small(buf) /\ Small(cbuf)

\* Where the footer of the frame with its header at p belongs.
End(s, p) == p + s[p][3] + 1

\* The frames in a piece of the stream hold their payload up to the footer, as far
\* as they are there; each is there as a whole; none is.
Sound(s) == \A p \in 1 .. Len(s) : Real(s[p]) =>
              \A q \in p + 1 .. Len(s) : /\ q < End(s, p) => Inner(s[q])
                                         /\ q = End(s, p) => s[q] = Foot
Filled(s) == Sound(s) /\ \A p \in 1 .. Len(s) : Real(s[p]) => End(s, p) <= Len(s)
Unfinished(s) == \A p \in 1 .. Len(s) : Real(s[p]) => End(s, p) > Len(s)

\* The headers tell the lengths of the payloads.
Sized(pay, s) == \A p \in 1 .. Len(s) : Sent(s[p]) => s[p][3] = Len(pay[s[p][2]])

\* A header that is a piece of a payload is in the frame it belongs to.
HeadIn(data) == \E q \in 1 .. Len(data) : IsHead(data[q])
Covers(pay, s, p, q) == Sent(s[p]) /\ HeadIn(pay[s[p][2]]) /\ q < End(s, p)
Covered(pay, s) == \A q \in 1 .. Len(s) : IsHead(s[q]) /\ ~Real(s[q]) =>
                     \E p \in 1 .. Len(s) : p < q /\ Covers(pay, s, p, q)

\* What a token can be.
LEMMA TokenKinds ==
  /\ Data \in Token /\ Foot \in Token
  /\ ~IsHead(Data) /\ ~IsHead(Foot) /\ Data # Foot
  /\ \A t \in Token : t = Data \/ t = Foot \/ IsHead(t)
  /\ \A t \in Token : IsHead(t) => t[2] \in Nat /\ t[3] \in Nat
  /\ \A i \in Frames \cup {STATUS, FAKE}, n \in Nat :
       Start(i, n) \in Token /\ IsHead(Start(i, n)) /\ Start(i, n)[2] = i /\ Start(i, n)[3] = n
<1>1. Count \in Nat
  BY StreamAssumption
<1> QED BY <1>1 DEF Token, Data, Foot, Start, IsHead, Frames, STATUS, FAKE

\* What is a header of a frame and what is not.
LEMMA RealKinds ==
  /\ ~Real(Data) /\ ~Real(Foot) /\ Inner(Data) /\ ~Inner(Foot)
  /\ \A t : Real(t) => IsHead(t) /\ ~Inner(t) /\ t # Foot
  /\ \A t : Sent(t) => Real(t)
  /\ \A t \in Token : IsHead(t) /\ ~Real(t) => t[2] = FAKE
  /\ FAKE \notin Frames /\ FAKE # STATUS /\ STATUS \notin Frames
<1>1. Count \in Nat
  BY StreamAssumption
<1>2. FAKE \notin Frames /\ FAKE # STATUS /\ STATUS \notin Frames
  BY <1>1 DEF FAKE, Frames, STATUS
<1>3. \A t \in Token : IsHead(t) => t[2] \in Frames \cup {STATUS, FAKE}
  BY DEF Token, IsHead, Data, Foot, Start
<1> QED BY <1>2, <1>3, TokenKinds DEF Real, Sent, Inner

-----------------------------------------------------------------------------
(* gol_unwrap *)

\* What gol_unwrap finds from p on, if f tells that of what is behind p; f tells it of
\* each position of s.
Found(s, f, p) ==
          IF p = Len(s) + 1 THEN << >>
          ELSE IF ~IsHead(s[p]) THEN f[p + 1]
          ELSE LET foot == p + s[p][3] + 1
               IN  IF foot > Len(s) THEN << >>
                   ELSE IF s[foot] = Foot THEN << s[p][2] >> \o f[foot + 1]
                   ELSE f[foot + 1]
Scan(s, f) == f = [p \in 1 .. Len(s) + 1 |-> Found(s, f, p)]

\* Where the footer of a frame is looked for, if the header is at p.
LEMMA FootBehind ==
  ASSUME NEW s \in Seq(Token), NEW p \in 1 .. Len(s), IsHead(s[p])
  PROVE  s[p][2] \in Nat /\ s[p][3] \in Nat /\ End(s, p) \in Nat /\ End(s, p) > p
<1>1. s[p] \in Token
  BY ElementOfSeq
<1> QED BY <1>1, TokenKinds, LenProperties DEF End

\* The same of the header of a frame.
LEMMA RealBehind ==
  ASSUME NEW s \in Seq(Token), NEW p \in 1 .. Len(s), Real(s[p])
  PROVE  IsHead(s[p]) /\ s[p][2] \in Nat /\ s[p][3] \in Nat /\ End(s, p) \in Nat /\ End(s, p) > p
BY RealKinds, FootBehind

\* The steps of gol_unwrap.
LEMMA ScanSteps ==
  ASSUME NEW s \in Seq(Token), NEW f, Scan(s, f)
  PROVE  /\ f[Len(s) + 1] = << >>
         /\ \A p \in 1 .. Len(s) :
              /\ ~IsHead(s[p]) => f[p] = f[p + 1]
              /\ IsHead(s[p]) /\ End(s, p) > Len(s) => f[p] = << >>
              /\ IsHead(s[p]) /\ End(s, p) <= Len(s) /\ s[End(s, p)] = Foot
                   => f[p] = << s[p][2] >> \o f[End(s, p) + 1]
              /\ IsHead(s[p]) /\ End(s, p) <= Len(s) /\ s[End(s, p)] # Foot
                   => f[p] = f[End(s, p) + 1]
<1>1. Len(s) \in Nat
  BY LenProperties
<1>2. \A p \in 1 .. Len(s) + 1 : f[p] = Found(s, f, p)
  BY DEF Scan
<1>3. f[Len(s) + 1] = << >>
  <2>1. Len(s) + 1 \in 1 .. Len(s) + 1
    BY <1>1
  <2>2. f[Len(s) + 1] = Found(s, f, Len(s) + 1)
    BY <1>2, <2>1
  <2> QED BY <2>2 DEF Found
<1>4. ASSUME NEW p \in 1 .. Len(s)
      PROVE  f[p] = IF ~IsHead(s[p]) THEN f[p + 1]
                    ELSE IF End(s, p) > Len(s) THEN << >>
                    ELSE IF s[End(s, p)] = Foot THEN << s[p][2] >> \o f[End(s, p) + 1]
                    ELSE f[End(s, p) + 1]
  <2>1. p \in 1 .. Len(s) + 1 /\ p # Len(s) + 1
    BY <1>1
  <2> QED BY <1>2, <2>1 DEF Found, End
<1>5. ASSUME NEW p \in 1 .. Len(s)
      PROVE  /\ ~IsHead(s[p]) => f[p] = f[p + 1]
             /\ IsHead(s[p]) /\ End(s, p) > Len(s) => f[p] = << >>
             /\ IsHead(s[p]) /\ End(s, p) <= Len(s) /\ s[End(s, p)] = Foot
                  => f[p] = << s[p][2] >> \o f[End(s, p) + 1]
             /\ IsHead(s[p]) /\ End(s, p) <= Len(s) /\ s[End(s, p)] # Foot
                  => f[p] = f[End(s, p) + 1]
  <2>1. IsHead(s[p]) => End(s, p) \in Nat
    BY FootBehind
  <2>2. IsHead(s[p]) => ~(End(s, p) > Len(s) /\ End(s, p) <= Len(s))
    BY <1>1, <2>1
  <2> QED BY <1>4, <2>2, Zenon
<1> QED BY <1>3, <1>5

\* The end of the search ...
LEMMA ScanEnd ==
  ASSUME NEW s \in Seq(Token), NEW f, Scan(s, f)
  PROVE  f[Len(s) + 1] = << >>
BY ScanSteps

\* ... what is no header ...
LEMMA ScanPast ==
  ASSUME NEW s \in Seq(Token), NEW f, Scan(s, f), NEW p \in 1 .. Len(s), ~IsHead(s[p])
  PROVE  f[p] = f[p + 1]
BY ScanSteps

\* ... a header that promises more than there is ...
LEMMA ScanShort ==
  ASSUME NEW s \in Seq(Token), NEW f, Scan(s, f), NEW p \in 1 .. Len(s), IsHead(s[p]),
         End(s, p) > Len(s)
  PROVE  f[p] = << >>
BY ScanSteps

\* ... a frame ...
LEMMA ScanFrame ==
  ASSUME NEW s \in Seq(Token), NEW f, Scan(s, f), NEW p \in 1 .. Len(s), IsHead(s[p]),
         End(s, p) <= Len(s), s[End(s, p)] = Foot
  PROVE  f[p] = << s[p][2] >> \o f[End(s, p) + 1]
BY ScanSteps

\* ... and a header without a footer in its place.
LEMMA ScanWrong ==
  ASSUME NEW s \in Seq(Token), NEW f, Scan(s, f), NEW p \in 1 .. Len(s), IsHead(s[p]),
         End(s, p) <= Len(s), s[End(s, p)] # Foot
  PROVE  f[p] = f[End(s, p) + 1]
BY ScanSteps

\* There is such an f, and gol_unwrap begins at the first position.
LEMMA ScanExists ==
  ASSUME NEW s \in Seq(Token)
  PROVE  \E f : Scan(s, f) /\ Unwrap(s) = f[1]
<1> DEFINE N == Len(s) + 1
<1>1. N \in Nat /\ N >= 1 /\ Len(s) \in Nat
  BY LenProperties
<1> DEFINE A == {p \in 1 .. N : \E f : f = [q \in p .. N |-> Found(s, f, q)]}
<1>2. ASSUME NEW p \in 1 .. N, \A q \in p + 1 .. N : q \in A
      PROVE  p \in A
  <2>1. PICK f : f = [q \in p + 1 .. N |-> Found(s, f, q)]
    <3>1. CASE p = N
      <4>1. \A h : {} = p + 1 .. N
        BY <3>1, <1>1
      <4>2. [q \in {} |-> 0] = [q \in p + 1 .. N |-> Found(s, [x \in {} |-> 0], q)]
        BY <4>1
      <4> QED BY <4>2
    <3>2. CASE p # N
      BY <3>2, <1>2, <1>1
    <3> QED BY <3>1, <3>2
  <2> DEFINE g == [q \in p .. N |-> IF q = p THEN Found(s, f, p) ELSE f[q]]
  <2>2. ASSUME NEW q \in p .. N
        PROVE  Found(s, f, q) = Found(s, g, q)
    <3>1. \A r \in q + 1 .. N : g[r] = f[r]
      BY <1>1
    <3>2. CASE q = N
      BY <3>2 DEF Found
    <3>3. CASE q # N /\ ~IsHead(s[q])
      <4>1. q + 1 \in q + 1 .. N
        BY <3>3, <1>1
      <4> HIDE DEF g, N
      <4>2. f[q + 1] = g[q + 1]
        BY <3>1, <4>1
      <4> QED BY <3>3, <4>2 DEF Found, N
    <3>4. CASE q # N /\ IsHead(s[q])
      <4>1. q \in 1 .. Len(s)
        BY <3>4, <1>1
      <4>2. End(s, q) \in Nat /\ End(s, q) > q
        BY <4>1, <3>4, FootBehind
      <4>3. End(s, q) <= Len(s) => End(s, q) + 1 \in q + 1 .. N
        BY <4>1, <4>2
      <4> HIDE DEF g
      <4>4. End(s, q) <= Len(s) => f[End(s, q) + 1] = g[End(s, q) + 1]
        BY <3>1, <4>3
      <4> QED BY <3>4, <4>4, <4>2, <1>1 DEF Found, End
    <3> QED BY <3>2, <3>3, <3>4
  <2>3. ASSUME NEW q \in p .. N
        PROVE  g[q] = Found(s, g, q)
    <3>1. g[q] = IF q = p THEN Found(s, f, p) ELSE f[q]
      OBVIOUS
    <3>2. Found(s, f, q) = Found(s, g, q)
      BY <2>2
    <3>3. CASE q = p
      BY <3>1, <3>2, <3>3, Zenon
    <3>4. CASE q # p
      <4>1. q \in p + 1 .. N
        BY <3>4, <1>1
      <4>2. f[q] = Found(s, f, q)
        BY ONLY <2>1, <4>1
      <4> QED BY ONLY <3>1, <3>2, <3>4, <4>2
    <3> QED BY ONLY <3>3, <3>4
  <2>4. g = [q \in p .. N |-> Found(s, g, q)]
    BY <2>3
  <2> HIDE DEF g
  <2> QED BY <2>4
<1> HIDE DEF A
<1>3. 1 \in A
  <2>1. \A p \in 1 .. N : p \in A
    <3> HIDE DEF N
    <3> QED BY <1>1, <1>2, Descent
  <2> QED BY <2>1, <1>1
<1>4. \E f : Scan(s, f)
  BY <1>3 DEF A, Scan
<1> DEFINE F == CHOOSE f : f = [p \in 1 .. Len(s) + 1 |-> 
          IF p = Len(s) + 1 THEN << >>
          ELSE IF ~IsHead(s[p]) THEN f[p + 1]
          ELSE LET foot == p + s[p][3] + 1
               IN  IF foot > Len(s) THEN << >>
                   ELSE IF s[foot] = Foot THEN << s[p][2] >> \o f[foot + 1]
                   ELSE f[foot + 1]]
<1>5. Unwrap(s) = F[1]
  BY Zenon DEF Unwrap
<1>6. Scan(s, F)
  BY <1>4, Zenon DEF Scan, Found
<1> QED BY <1>5, <1>6


\* What is found are numbers of frames.
LEMMA ScanTyped ==
  ASSUME NEW s \in Seq(Token), NEW f, Scan(s, f)
  PROVE  \A p \in 1 .. Len(s) + 1 : f[p] \in Seq(Nat)
<1> DEFINE N == Len(s) + 1
           A == {p \in 1 .. N : f[p] \in Seq(Nat)}
<1>1. Len(s) \in Nat /\ N \in Nat
  BY LenProperties
<1>2. ASSUME NEW p \in 1 .. N, \A q \in p + 1 .. N : q \in A
      PROVE  p \in A
  <2>0. \A q \in p + 1 .. N : f[q] \in Seq(Nat)
    BY <1>2
  <2>1. CASE p = N
    BY <2>1, ScanEnd, EmptySeq
  <2>2. CASE p # N /\ ~IsHead(s[p])
    <3>1. p \in 1 .. Len(s) /\ p + 1 \in p + 1 .. N
      BY <2>2, <1>1
    <3>2. f[p] = f[p + 1]
      BY <3>1, <2>2, ScanPast
    <3> QED BY <3>1, <3>2, <2>0
  <2>3. CASE p # N /\ IsHead(s[p])
    <3>1. p \in 1 .. Len(s)
      BY <2>3, <1>1
    <3>2. s[p][2] \in Nat /\ End(s, p) \in Nat /\ End(s, p) > p
      BY <3>1, <2>3, FootBehind
    <3>3. End(s, p) <= Len(s) => f[End(s, p) + 1] \in Seq(Nat)
      BY <3>1, <3>2, <2>0
    <3>4. End(s, p) <= Len(s) => << s[p][2] >> \o f[End(s, p) + 1] \in Seq(Nat)
      BY <3>2, <3>3
    <3>5. CASE End(s, p) > Len(s)
      BY <3>1, <3>5, <2>3, ScanShort, EmptySeq
    <3>6. CASE End(s, p) <= Len(s) /\ s[End(s, p)] = Foot
      BY <3>1, <3>4, <3>6, <2>3, ScanFrame
    <3>7. CASE End(s, p) <= Len(s) /\ s[End(s, p)] # Foot
      BY <3>1, <3>3, <3>7, <2>3, ScanWrong
    <3> QED BY <3>2, <3>5, <3>6, <3>7, <1>1
  <2> QED BY <2>1, <2>2, <2>3
<1>3. \A p \in 1 .. N : p \in A
  <2> HIDE DEF A, N
  <2> QED BY <1>1, <1>2, Descent
<1> QED BY <1>3

\* A head at q, of frame i, and a footer behind it.
HeadAt(s, q, i) == /\ q \in 1 .. Len(s) /\ IsHead(s[q]) /\ s[q][2] = i
                   /\ \E g \in q + 1 .. Len(s) : s[g] = Foot

\* What is found from p on, in the order of its heads.
Listed(s, p, found) ==
  /\ \A k \in 1 .. Len(found) : \E q \in Nat : q >= p /\ HeadAt(s, q, found[k])
  /\ \A j, k \in 1 .. Len(found) : j < k =>
       \E q, r \in Nat : p <= q /\ q < r /\ HeadAt(s, q, found[j]) /\ HeadAt(s, r, found[k])

\* What was found from further behind was found from here on.
LEMMA ListedEarlier ==
  ASSUME NEW s, NEW p \in Nat, NEW r \in Nat, p <= r, NEW found, Listed(s, r, found)
  PROVE  Listed(s, p, found)
<1>1. ASSUME NEW k \in 1 .. Len(found)
      PROVE  \E q \in Nat : q >= p /\ HeadAt(s, q, found[k])
  <2>1. PICK q \in Nat : q >= r /\ HeadAt(s, q, found[k])
    BY DEF Listed
  <2>2. q >= p
    BY <2>1
  <2> QED BY <2>1, <2>2
<1>2. ASSUME NEW j \in 1 .. Len(found), NEW k \in 1 .. Len(found), j < k
      PROVE  \E q, t \in Nat : p <= q /\ q < t /\ HeadAt(s, q, found[j]) /\ HeadAt(s, t, found[k])
  <2>1. PICK q \in Nat, t \in Nat : r <= q /\ q < t /\ HeadAt(s, q, found[j]) /\ HeadAt(s, t, found[k])
    BY <1>2 DEF Listed
  <2>2. p <= q
    BY <2>1
  <2> QED BY <2>1, <2>2
<1> QED BY <1>1, <1>2 DEF Listed

\* A frame more, before the others.
LEMMA ListedMore ==
  ASSUME NEW s, NEW p \in Nat, NEW r \in Nat, p < r, NEW found \in Seq(Nat), Listed(s, r, found),
         NEW i \in Nat, HeadAt(s, p, i)
  PROVE  Listed(s, p, << i >> \o found)
<1> DEFINE more == << i >> \o found
<1>1. Len(found) \in Nat /\ Len(more) = Len(found) + 1 /\ more[1] = i
  BY LenProperties, ConcatProperties
<1>2. \A k \in 2 .. Len(more) : more[k] = found[k - 1] /\ k - 1 \in 1 .. Len(found)
  BY <1>1
<1> HIDE DEF more
<1>3. ASSUME NEW k \in 1 .. Len(more)
      PROVE  \E q \in Nat : q >= p /\ HeadAt(s, q, more[k])
  <2>1. CASE k = 1
    BY <2>1, <1>1
  <2>2. CASE k # 1
    <3>1. k \in 2 .. Len(more)
      BY <2>2
    <3>2. PICK q \in Nat : q >= r /\ HeadAt(s, q, found[k - 1])
      BY <3>1, <1>2 DEF Listed
    <3> QED BY <3>1, <3>2, <1>2
  <2> QED BY <2>1, <2>2
<1>4. ASSUME NEW j \in 1 .. Len(more), NEW k \in 1 .. Len(more), j < k
      PROVE  \E q, t \in Nat : p <= q /\ q < t /\ HeadAt(s, q, more[j]) /\ HeadAt(s, t, more[k])
  <2>1. k \in 2 .. Len(more)
    BY <1>4, <1>1
  <2>2. CASE j = 1
    <3>1. PICK t \in Nat : t >= r /\ HeadAt(s, t, found[k - 1])
      BY <2>1, <1>2 DEF Listed
    <3>2. p < t /\ HeadAt(s, t, more[k])
      BY <3>1, <2>1, <1>2
    <3> QED BY <3>2, <2>2, <1>1
  <2>3. CASE j # 1
    <3>1. j \in 2 .. Len(more)
      BY <2>3
    <3>2. j - 1 < k - 1 /\ j - 1 \in 1 .. Len(found) /\ k - 1 \in 1 .. Len(found)
      <4>1. j - 1 \in 1 .. Len(found) /\ k - 1 \in 1 .. Len(found)
        BY <2>1, <3>1, <1>2
      <4>2. j \in Nat /\ k \in Nat
        BY <2>1, <3>1, <1>1
      <4>3. j - 1 < k - 1
        BY <4>2, <1>4
      <4> QED BY <4>1, <4>3
    <3>3. PICK q \in Nat, t \in Nat : r <= q /\ q < t /\ HeadAt(s, q, found[j - 1]) /\ HeadAt(s, t, found[k - 1])
      BY <3>2 DEF Listed
    <3>4. p <= q /\ HeadAt(s, q, more[j]) /\ HeadAt(s, t, more[k])
      BY <3>1, <3>3, <2>1, <1>2
    <3> QED BY <3>3, <3>4
  <2> QED BY <2>2, <2>3
<1> QED BY <1>3, <1>4 DEF Listed, more

\* gol_unwrap finds frames whose header and footer there are, in their order.
LEMMA ScanListed ==
  ASSUME NEW s \in Seq(Token), NEW f, Scan(s, f)
  PROVE  \A p \in 1 .. Len(s) + 1 : Listed(s, p, f[p])
<1> DEFINE N == Len(s) + 1
           A == {p \in 1 .. N : Listed(s, p, f[p])}
<1>1. Len(s) \in Nat /\ N \in Nat
  BY LenProperties
<1>2. ASSUME NEW p \in 1 .. N, \A q \in p + 1 .. N : q \in A
      PROVE  p \in A
  <2>0. \A q \in p + 1 .. N : Listed(s, q, f[q])
    BY <1>2
  <2> SUFFICES Listed(s, p, f[p])
    OBVIOUS
  <2> HIDE DEF A
  <2>1. CASE f[p] = << >>
    BY <2>1 DEF Listed
  <2>2. CASE p \in 1 .. Len(s) /\ ~IsHead(s[p])
    <3>1. p + 1 \in p + 1 .. N /\ f[p] = f[p + 1]
      BY <2>2, <1>1, ScanPast
    <3>2. Listed(s, p + 1, f[p])
      BY <2>0, <3>1
    <3> QED BY <3>2, ListedEarlier
  <2>3. CASE p \in 1 .. Len(s) /\ IsHead(s[p])
    <3>1. s[p][2] \in Nat /\ End(s, p) \in Nat /\ End(s, p) > p
      BY <2>3, FootBehind
    <3>2. CASE End(s, p) > Len(s)
      BY <3>2, <2>1, <2>3, ScanSteps
    <3>3. CASE End(s, p) <= Len(s) /\ s[End(s, p)] # Foot
      <4>1. End(s, p) + 1 \in p + 1 .. N /\ f[p] = f[End(s, p) + 1]
        BY <2>3, <3>1, <3>3, ScanWrong
      <4>2. Listed(s, End(s, p) + 1, f[p]) /\ End(s, p) + 1 \in Nat /\ p <= End(s, p) + 1
        BY <2>0, <4>1, <3>1
      <4> QED BY <4>2, ListedEarlier
    <3>4. CASE End(s, p) <= Len(s) /\ s[End(s, p)] = Foot
      <4>1. End(s, p) + 1 \in p + 1 .. N /\ f[p] = << s[p][2] >> \o f[End(s, p) + 1]
        BY <2>3, <3>1, <3>4, ScanSteps
      <4>2. Listed(s, End(s, p) + 1, f[End(s, p) + 1]) /\ End(s, p) + 1 \in Nat /\ p < End(s, p) + 1
        BY <2>0, <4>1, <3>1
      <4>3. f[End(s, p) + 1] \in Seq(Nat)
        BY <4>1, ScanTyped
      <4>4. End(s, p) \in p + 1 .. Len(s)
        BY <3>1, <3>4, <1>1
      <4>5. HeadAt(s, p, s[p][2])
        BY <2>3, <3>4, <4>4 DEF HeadAt
      <4> QED BY <4>1, <4>2, <4>3, <4>5, <3>1, ListedMore
    <3> QED BY <3>1, <3>2, <3>3, <3>4, <1>1
  <2> QED BY <2>1, <2>2, <2>3, <1>1, ScanSteps
<1>3. \A p \in 1 .. N : p \in A
  <2> HIDE DEF A, N
  <2> QED BY <1>1, <1>2, Descent
<1> QED BY <1>3

\* If a piece of a stream has no frame, each frame found with more of the stream
\* ends there.
LEMMA ScanNews ==
  ASSUME NEW s \in Seq(Token), NEW t \in Seq(Token), NEW f, Scan(s, f), NEW g, Scan(s \o t, g)
  PROVE  \A p \in 1 .. Len(s) + 1 : f[p] = << >> /\ g[p] # << >> =>
           \E q \in Len(s) + 1 .. Len(s) + Len(t) : (s \o t)[q] = Foot
<1> DEFINE u == s \o t
           N == Len(s) + 1
           New == \E q \in Len(s) + 1 .. Len(s) + Len(t) : (s \o t)[q] = Foot
           A == {p \in 1 .. N : f[p] = << >> /\ g[p] # << >> => New}
<1>1. /\ Len(s) \in Nat /\ Len(t) \in Nat /\ N \in Nat /\ u \in Seq(Token)
      /\ Len(u) = Len(s) + Len(t) /\ \A i \in 1 .. Len(s) : u[i] = s[i]
  BY LenProperties, ConcatProperties
<1> HIDE DEF u
<1>2. ASSUME NEW p \in Len(s) + 1 .. Len(u) + 1, g[p] # << >>
      PROVE  New
  <2>1. p \in 1 .. Len(u) + 1 /\ Scan(u, g)
    BY <1>1 DEF u
  <2>2. Listed(u, p, g[p]) /\ g[p] \in Seq(Nat)
    BY <2>1, <1>1, ScanListed, ScanTyped
  <2>3. 1 \in 1 .. Len(g[p])
    BY <2>2, <1>2, EmptySeq
  <2>4. PICK q \in Nat : q >= p /\ HeadAt(u, q, g[p][1])
    BY <2>2, <2>3 DEF Listed
  <2>5. PICK r \in q + 1 .. Len(u) : u[r] = Foot
    BY <2>4 DEF HeadAt
  <2>6. r \in Len(s) + 1 .. Len(s) + Len(t)
    BY <2>4, <2>5, <1>1
  <2> QED BY <2>5, <2>6 DEF u
<1>3. ASSUME NEW p \in 1 .. N, \A q \in p + 1 .. N : q \in A
      PROVE  p \in A
  <2> SUFFICES ASSUME f[p] = << >>, g[p] # << >> PROVE New
    OBVIOUS
  <2>0. \A q \in p + 1 .. N : f[q] = << >> /\ g[q] # << >> => New
    BY <1>3
  <2> HIDE DEF A, New
  <2>1. CASE p = N
    BY <2>1, <1>1, <1>2
  <2>2. CASE p # N
    <3>1. p \in 1 .. Len(s) /\ p \in 1 .. Len(u) /\ u[p] = s[p] /\ End(u, p) = End(s, p)
      BY <2>2, <1>1 DEF End
    <3>a. Scan(u, g)
      BY DEF u
    <3>2. CASE ~IsHead(s[p])
      <4>1. f[p] = f[p + 1]
        BY <3>1, <3>2, ScanPast
      <4>3. g[p] = g[p + 1]
        <5>1. u \in Seq(Token) /\ p \in 1 .. Len(u) /\ ~IsHead(u[p]) /\ Scan(u, g)
          BY <3>1, <3>2, <3>a, <1>1
        <5> HIDE DEF u
        <5> QED BY <5>1, ScanPast
      <4>2. p + 1 \in p + 1 .. N
        BY <3>1, <1>1
      <4> QED BY <4>1, <4>2, <4>3, <2>0
    <3>3. CASE IsHead(s[p])
      <4>1. s[p][2] \in Nat /\ End(s, p) \in Nat /\ End(s, p) > p
        BY <3>1, <3>3, FootBehind
      <4>2. CASE End(s, p) <= Len(s)
        <5>1. u[End(s, p)] = s[End(s, p)] /\ End(s, p) <= Len(u) /\ End(s, p) + 1 \in p + 1 .. N
          BY <4>1, <4>2, <3>1, <1>1
        <5>2. CASE s[End(s, p)] = Foot
          <6>1. f[p] = << s[p][2] >> \o f[End(s, p) + 1] /\ f[End(s, p) + 1] \in Seq(Nat)
            <7>1. End(s, p) + 1 \in 1 .. Len(s) + 1
              BY <5>1, <3>1, <1>1
            <7>2. f[End(s, p) + 1] \in Seq(Nat)
              BY <7>1, ScanTyped
            <7> QED BY <7>2, <3>1, <3>3, <4>2, <5>2, ScanFrame
          <6>2. FALSE
            BY <6>1, <4>1, ConcatProperties, EmptySeq
          <6> QED BY <6>2
        <5>3. CASE s[End(s, p)] # Foot
          <6>1. f[p] = f[End(s, p) + 1] /\ g[p] = g[End(s, p) + 1]
            <7>1. u \in Seq(Token) /\ p \in 1 .. Len(u) /\ IsHead(u[p]) /\ Scan(u, g)
                  /\ End(u, p) <= Len(u) /\ u[End(u, p)] # Foot
              BY <3>1, <3>3, <3>a, <5>1, <5>3, <1>1
            <7>2. f[p] = f[End(s, p) + 1]
              BY <3>1, <3>3, <4>2, <5>3, ScanWrong
            <7> HIDE DEF u
            <7>3. g[p] = g[End(u, p) + 1]
              BY <7>1, ScanWrong
            <7> QED BY <7>2, <7>3, <3>1
          <6> QED BY <6>1, <5>1, <2>0
        <5> QED BY <5>2, <5>3
      <4>3. CASE End(s, p) > Len(u)
        <5>1. g[p] = << >>
          BY <4>3, <3>1, <3>3, <3>a, <1>1, ScanSteps
        <5> QED BY <5>1
      <4>4. CASE Len(s) < End(s, p) /\ End(s, p) <= Len(u)
        <5>1. CASE u[End(s, p)] = Foot
          <6>1. End(s, p) \in Len(s) + 1 .. Len(s) + Len(t)
            BY <4>1, <4>4, <1>1
          <6> QED BY <5>1, <6>1 DEF New, u
        <5>2. CASE u[End(s, p)] # Foot
          <6>1. g[p] = g[End(s, p) + 1]
            <7>1. u \in Seq(Token) /\ p \in 1 .. Len(u) /\ IsHead(u[p]) /\ Scan(u, g)
                  /\ End(u, p) <= Len(u) /\ u[End(u, p)] # Foot /\ End(u, p) = End(s, p)
              BY <3>1, <3>3, <3>a, <5>2, <4>4, <1>1
            <7> HIDE DEF u
            <7> QED BY <7>1, ScanWrong
          <6>2. End(s, p) + 1 \in Len(s) + 1 .. Len(u) + 1
            BY <4>1, <4>4, <1>1
          <6> QED BY <6>1, <6>2, <1>2
        <5> QED BY <5>1, <5>2
      <4> QED BY <4>1, <4>2, <4>3, <4>4, <1>1
    <3> QED BY <3>2, <3>3
  <2> QED BY <2>1, <2>2
<1>4. \A p \in 1 .. N : p \in A
  <2> HIDE DEF A, N
  <2> QED BY <1>1, <1>3, Descent
<1> QED BY <1>4

\* A position that is in none of the frames that begin before it.
Outside(s, p) == \A h \in 1 .. Len(s) : Real(s[h]) /\ h < p => End(s, h) < p

\* gol_unwrap begins outside and stays there: what looks like a header in a payload
\* it passes over.
LEMMA StaysOutside ==
  ASSUME NEW pay, NEW s \in Seq(Token), Sound(s), Covered(pay, s), NEW p \in 1 .. Len(s), Outside(s, p)
  PROVE  /\ IsHead(s[p]) => Real(s[p])
         /\ ~IsHead(s[p]) => Outside(s, p + 1)
         /\ IsHead(s[p]) => Outside(s, End(s, p) + 1)
<1>1. Len(s) \in Nat
  BY LenProperties
<1>2. ASSUME IsHead(s[p]), ~Real(s[p]) PROVE FALSE
  <2>1. PICK h \in 1 .. Len(s) : h < p /\ Sent(s[h]) /\ p < End(s, h)
    BY <1>2 DEF Covered, Covers
  <2>2. End(s, h) < p /\ End(s, h) \in Nat
    BY <2>1, RealKinds, RealBehind DEF Outside
  <2> QED BY <2>1, <2>2
<1>3. ASSUME ~IsHead(s[p]) PROVE Outside(s, p + 1)
  <2> SUFFICES ASSUME NEW h \in 1 .. Len(s), Real(s[h]), h < p + 1 PROVE End(s, h) < p + 1
    BY DEF Outside
  <2>1. h # p /\ End(s, h) \in Nat
    BY <1>3, RealKinds, RealBehind
  <2>2. h < p
    BY <2>1
  <2>3. End(s, h) < p
    BY <2>2 DEF Outside
  <2> QED BY <2>1, <2>3
<1>4. ASSUME Real(s[p]) PROVE Outside(s, End(s, p) + 1)
  <2> SUFFICES ASSUME NEW h \in 1 .. Len(s), Real(s[h]), h < End(s, p) + 1 PROVE End(s, h) < End(s, p) + 1
    BY DEF Outside
  <2>1. End(s, h) \in Nat /\ End(s, p) \in Nat /\ End(s, p) > p
    BY <1>4, RealBehind
  <2>2. CASE h < p
    <3>1. End(s, h) < p
      BY <2>2 DEF Outside
    <3> QED BY <2>1, <3>1
  <2>3. CASE h = p
    BY <2>1, <2>3
  <2>4. CASE h > p
    <3>1. h \in p + 1 .. Len(s) /\ h <= End(s, p)
      BY <2>1, <2>4
    <3>2. Inner(s[h]) \/ s[h] = Foot
      BY <3>1, <2>1, <1>4 DEF Sound
    <3> QED BY <3>2, RealKinds
  <2> QED BY <2>2, <2>3, <2>4
<1> QED BY <1>2, <1>3, <1>4

\* Of all that is in a piece of a stream it finds frames only ...
LEMMA ScanReal ==
  ASSUME NEW pay, NEW s \in Seq(Token), Sound(s), Covered(pay, s), NEW f, Scan(s, f)
  PROVE  \A p \in 1 .. Len(s) + 1 : Outside(s, p) => \A k \in 1 .. Len(f[p]) : f[p][k] # FAKE
<1> DEFINE N == Len(s) + 1
           A == {p \in 1 .. N : Outside(s, p) => \A k \in 1 .. Len(f[p]) : f[p][k] # FAKE}
<1>1. Len(s) \in Nat /\ N \in Nat
  BY LenProperties
<1>2. ASSUME NEW p \in 1 .. N, \A q \in p + 1 .. N : q \in A
      PROVE  p \in A
  <2>0. \A q \in p + 1 .. N : Outside(s, q) => \A k \in 1 .. Len(f[q]) : f[q][k] # FAKE
    BY <1>2
  <2> SUFFICES ASSUME Outside(s, p), NEW k \in 1 .. Len(f[p]) PROVE f[p][k] # FAKE
    OBVIOUS
  <2> HIDE DEF A
  <2>1. CASE f[p] = << >>
    BY <2>1
  <2>2. CASE p \in 1 .. Len(s) /\ ~IsHead(s[p])
    <3>1. f[p] = f[p + 1] /\ p + 1 \in p + 1 .. N /\ Outside(s, p + 1)
      BY <2>2, <1>1, ScanPast, StaysOutside
    <3> QED BY <3>1, <2>0
  <2>3. CASE p \in 1 .. Len(s) /\ IsHead(s[p])
    <3>1. Real(s[p]) /\ Outside(s, End(s, p) + 1) /\ End(s, p) \in Nat /\ End(s, p) > p /\ s[p][2] \in Nat
      BY <2>3, StaysOutside, FootBehind
    <3>2. CASE End(s, p) > Len(s)
      BY <3>2, <2>1, <2>3, ScanShort
    <3>3. CASE End(s, p) <= Len(s)
      <4>1. End(s, p) \in p + 1 .. Len(s) /\ End(s, p) + 1 \in p + 1 .. N
        BY <3>1, <3>3, <1>1
      <4>2. s[End(s, p)] = Foot
        BY <3>1, <4>1, <2>3 DEF Sound
      <4>3. f[p] = << s[p][2] >> \o f[End(s, p) + 1]
        BY <3>3, <4>2, <2>3, ScanFrame
      <4>4. f[End(s, p) + 1] \in Seq(Nat)
        BY <4>1, ScanTyped
      <4>5. \/ k = 1 /\ f[p][k] = s[p][2]
            \/ k - 1 \in 1 .. Len(f[End(s, p) + 1]) /\ f[p][k] = f[End(s, p) + 1][k - 1]
        BY <4>3, <4>4, <3>1, LenProperties, ConcatProperties
      <4>6. s[p][2] # FAKE
        BY <3>1, RealKinds DEF Real
      <4> QED BY <4>5, <4>6, <4>1, <3>1, <2>0
    <3> QED BY <3>1, <3>2, <3>3, <1>1
  <2> QED BY <2>1, <2>2, <2>3, <1>1, ScanEnd
<1>3. \A p \in 1 .. N : p \in A
  <2> HIDE DEF A, N
  <2> QED BY <1>1, <1>2, Descent
<1> QED BY <1>3

\* ... and every frame that is complete.
LEMMA ScanComplete ==
  ASSUME NEW pay, NEW s \in Seq(Token), Sound(s), Covered(pay, s), NEW f, Scan(s, f),
         NEW h \in 1 .. Len(s), Real(s[h]), End(s, h) <= Len(s)
  PROVE  \A p \in 1 .. h : Outside(s, p) => \E k \in 1 .. Len(f[p]) : f[p][k] = s[h][2]
<1> DEFINE A == {p \in 1 .. h : Outside(s, p) => \E k \in 1 .. Len(f[p]) : f[p][k] = s[h][2]}
<1>1. Len(s) \in Nat /\ h \in Nat
  BY LenProperties
<1>2. ASSUME NEW p \in 1 .. h, \A q \in p + 1 .. h : q \in A
      PROVE  p \in A
  <2> SUFFICES ASSUME Outside(s, p) PROVE \E k \in 1 .. Len(f[p]) : f[p][k] = s[h][2]
    OBVIOUS
  <2>0. \A q \in p + 1 .. h : Outside(s, q) => \E k \in 1 .. Len(f[q]) : f[q][k] = s[h][2]
    BY <1>2
  <2> HIDE DEF A
  <2>a. p \in 1 .. Len(s)
    BY <1>1
  <2>1. CASE ~IsHead(s[p])
    <3>1. p # h
      BY <2>1, RealKinds
    <3>2. f[p] = f[p + 1] /\ p + 1 \in p + 1 .. h /\ Outside(s, p + 1)
      BY <2>1, <2>a, <3>1, <1>1, ScanPast, StaysOutside
    <3> QED BY <3>2, <2>0
  <2>2. CASE IsHead(s[p])
    <3>1. /\ Real(s[p]) /\ Outside(s, End(s, p) + 1)
          /\ s[p][2] \in Nat /\ End(s, p) \in Nat /\ End(s, p) > p
      BY <2>2, <2>a, StaysOutside, FootBehind
    <3>2. CASE p = h
      <4>1. s[End(s, p)] = Foot
        BY <3>1, <3>2, <1>1 DEF Sound
      <4>2. f[p] = << s[p][2] >> \o f[End(s, p) + 1]
        BY <4>1, <3>2, <2>2, <2>a, ScanSteps
      <4>3. f[End(s, p) + 1] \in Seq(Nat)
        BY <3>1, <3>2, <1>1, ScanTyped
      <4>4. 1 \in 1 .. Len(f[p]) /\ f[p][1] = s[h][2]
        BY <4>2, <4>3, <3>1, <3>2, LenProperties
      <4> QED BY <4>4
    <3>3. CASE p # h
      <4>1. h \in p + 1 .. Len(s)
        BY <3>3, <1>1
      <4>2. ~(h < End(s, p)) /\ h # End(s, p)
        BY <4>1, <3>1, <2>a, <1>1, RealKinds DEF Sound
      <4>3. End(s, p) + 1 \in p + 1 .. h /\ End(s, p) <= Len(s)
        BY <4>1, <4>2, <3>1
      <4>4. PICK k \in 1 .. Len(f[End(s, p) + 1]) : f[End(s, p) + 1][k] = s[h][2]
        BY <4>3, <3>1, <2>0
      <4>5. s[End(s, p)] = Foot
        BY <4>3, <3>1, <2>a DEF Sound
      <4>6. f[p] = << s[p][2] >> \o f[End(s, p) + 1] /\ f[End(s, p) + 1] \in Seq(Nat)
        <5>1. p \in 1 .. Len(s) /\ IsHead(s[p]) /\ End(s, p) + 1 \in 1 .. Len(s) + 1
          BY <4>3, <2>a, <2>2, <1>1
        <5> QED BY <5>1, <4>3, <4>5, ScanFrame, ScanTyped
      <4>7. /\ Len(f[p]) = Len(f[End(s, p) + 1]) + 1
            /\ f[p][k + 1] = f[End(s, p) + 1][k]
        BY <4>4, <4>6, <3>1, LenProperties
      <4>8. k + 1 \in 1 .. Len(f[p])
        BY <4>4, <4>6, <4>7, LenProperties
      <4> QED BY <4>4, <4>7, <4>8
    <3> QED BY <3>2, <3>3
  <2> QED BY <2>1, <2>2
<1>3. \A p \in 1 .. h : p \in A
  <2> HIDE DEF A
  <2> QED BY <1>1, <1>2, Descent
<1> QED BY <1>3


-----------------------------------------------------------------------------
(* What both sides do with their buffers *)

\* The numbers of the constants.
LEMMA Bounds == /\ Count \in Nat /\ MaxChunk \in Nat /\ MaxBuf \in Nat /\ KeepBuf \in Nat
                /\ KeepBuf + MaxChunk <= MaxBuf
BY StreamAssumption

\* A sequence is its two pieces.
LEMMA Pieces ==
  ASSUME NEW S, NEW s \in Seq(S), NEW n \in 0 .. Len(s)
  PROVE  /\ SubSeq(s, 1, n) \in Seq(S) /\ SubSeq(s, n + 1, Len(s)) \in Seq(S)
         /\ s = SubSeq(s, 1, n) \o SubSeq(s, n + 1, Len(s))
         /\ Len(SubSeq(s, 1, n)) = n /\ Len(SubSeq(s, n + 1, Len(s))) = Len(s) - n
         /\ \A i \in 1 .. n : SubSeq(s, 1, n)[i] = s[i]
         /\ \A i \in 1 .. Len(s) - n : SubSeq(s, n + 1, Len(s))[i] = s[n + i]
<1>1. Len(s) \in Nat /\ \A i \in 1 .. Len(s) : s[i] \in S
  BY LenProperties, ElementOfSeq
<1>2. /\ SubSeq(s, 1, n) \in Seq(S) /\ Len(SubSeq(s, 1, n)) = n
      /\ \A i \in 1 .. n : SubSeq(s, 1, n)[i] = s[i]
  <2>1. \A i \in 1 .. n : s[i] \in S
    BY <1>1
  <2>2. /\ SubSeq(s, 1, n) \in Seq(S) /\ Len(SubSeq(s, 1, n)) = IF 1 <= n THEN n - 1 + 1 ELSE 0
        /\ \A i \in 1 .. n - 1 + 1 : SubSeq(s, 1, n)[i] = s[1 + i - 1]
    BY <2>1, SubSeqProperties
  <2> QED BY <2>2, <1>1
<1>3. /\ SubSeq(s, n + 1, Len(s)) \in Seq(S) /\ Len(SubSeq(s, n + 1, Len(s))) = Len(s) - n
      /\ \A i \in 1 .. Len(s) - n : SubSeq(s, n + 1, Len(s))[i] = s[n + i]
  <2>1. \A i \in n + 1 .. Len(s) : s[i] \in S
    BY <1>1
  <2>2. /\ SubSeq(s, n + 1, Len(s)) \in Seq(S)
        /\ Len(SubSeq(s, n + 1, Len(s))) = IF n + 1 <= Len(s) THEN Len(s) - (n + 1) + 1 ELSE 0
        /\ \A i \in 1 .. Len(s) - (n + 1) + 1 : SubSeq(s, n + 1, Len(s))[i] = s[(n + 1) + i - 1]
    BY <2>1, <1>1, SubSeqProperties
  <2> QED BY <2>2, <1>1
<1>4. s = SubSeq(s, 1, n) \o SubSeq(s, n + 1, Len(s))
  <2> DEFINE a == SubSeq(s, 1, n)
             b == SubSeq(s, n + 1, Len(s))
  <2>1. /\ a \in Seq(S) /\ b \in Seq(S) /\ Len(a) = n /\ Len(b) = Len(s) - n
        /\ \A i \in 1 .. n : a[i] = s[i]
        /\ \A i \in 1 .. Len(s) - n : b[i] = s[n + i]
    BY <1>2, <1>3
  <2>2. Len(s) \in Nat /\ n \in Nat /\ n <= Len(s)
    BY <1>1
  <2> HIDE DEF a, b
  <2>3. /\ a \o b \in Seq(S) /\ Len(a \o b) = Len(s)
        /\ \A i \in 1 .. Len(s) : (a \o b)[i] = IF i <= n THEN a[i] ELSE b[i - n]
    BY <2>1, <2>2, ConcatProperties
  <2>4. \A i \in 1 .. Len(s) : (a \o b)[i] = s[i]
    <3> SUFFICES ASSUME NEW i \in 1 .. Len(s) PROVE (a \o b)[i] = s[i]
      OBVIOUS
    <3>1. CASE i <= n
      BY <3>1, <2>1, <2>3
    <3>2. CASE i > n
      <4>1. i - n \in 1 .. Len(s) - n /\ n + (i - n) = i /\ ~(i <= n)
        BY <3>2, <2>2
      <4> QED BY <4>1, <2>1, <2>3
    <3>3. i <= n \/ i > n
      BY <2>2
    <3> QED BY <3>1, <3>2, <3>3
  <2> QED BY <2>3, <2>4, SeqEqual DEF a, b
<1> QED BY <1>2, <1>3, <1>4

\* rfind finds the last footer.
LEMMA LastFootIs ==
  ASSUME NEW s \in Seq(Token), NEW g \in 1 .. Len(s), s[g] = Foot
  PROVE  /\ LastFoot(s) \in g .. Len(s) /\ s[LastFoot(s)] = Foot
         /\ \A q \in LastFoot(s) + 1 .. Len(s) : s[q] # Foot
<1> DEFINE T == {i \in 1 .. Len(s) : s[i] = Foot}
<1>1. LastFoot(s) = IF T # {} THEN Max(T) ELSE 0
  BY DEF LastFoot, SelectLastInSubSeq
<1>2. g \in T /\ T \in SUBSET (1 .. Len(s)) /\ T # {} /\ Len(s) \in Nat
  BY LenProperties
<1>3. LastFoot(s) \in T /\ \A k \in T : k <= LastFoot(s)
  <2> HIDE DEF T
  <2> QED BY <1>1, <1>2, Greatest
<1> QED BY <1>2, <1>3

\* What gol_unwrap returns are numbers of frames that are there, in their order.
LEMMA UnwrapListed ==
  ASSUME NEW s \in Seq(Token)
  PROVE  Unwrap(s) \in Seq(Nat) /\ Listed(s, 1, Unwrap(s))
<1>1. PICK f : Scan(s, f) /\ Unwrap(s) = f[1]
  BY ScanExists
<1>2. 1 \in 1 .. Len(s) + 1
  BY LenProperties
<1> QED BY <1>1, <1>2, ScanTyped, ScanListed

\* Where it finds a frame there is a footer behind a header.
LEMMA UnwrapFoot ==
  ASSUME NEW s \in Seq(Token), Unwrap(s) # << >>
  PROVE  /\ LastFoot(s) \in 2 .. Len(s) /\ s[LastFoot(s)] = Foot
         /\ \A q \in LastFoot(s) + 1 .. Len(s) : s[q] # Foot
<1>1. 1 \in 1 .. Len(Unwrap(s))
  BY UnwrapListed, EmptySeq
<1>2. PICK q \in Nat : q >= 1 /\ HeadAt(s, q, Unwrap(s)[1])
  BY <1>1, UnwrapListed DEF Listed
<1>3. PICK g \in q + 1 .. Len(s) : s[g] = Foot
  BY <1>2 DEF HeadAt
<1>4. g \in 1 .. Len(s) /\ g >= 2
  BY <1>2, <1>3
<1> QED BY <1>3, <1>4, LastFootIs

\* How much is cut off a buffer.
Gone(s) == IF Unwrap(s) # << >> THEN LastFoot(s)
           ELSE IF Len(s) > MaxBuf THEN Len(s) - KeepBuf ELSE 0

\* What is left of a buffer is its end.
LEMMA RestIs ==
  ASSUME NEW s \in Seq(Token)
  PROVE  /\ Gone(s) \in 0 .. Len(s)
         /\ Rest(s) = SubSeq(s, Gone(s) + 1, Len(s))
<1>1. Len(s) \in Nat
  BY LenProperties
<1>2. CASE Unwrap(s) # << >>
  BY <1>1, <1>2, UnwrapFoot DEF Rest, Gone
<1>3. CASE Unwrap(s) = << >> /\ Len(s) > MaxBuf
  BY <1>1, <1>3, Bounds DEF Rest, Gone, KeepLast
<1>4. CASE Unwrap(s) = << >> /\ ~(Len(s) > MaxBuf)
  BY <1>1, <1>4, SubSeqFull DEF Rest, Gone
<1> QED BY <1>2, <1>3, <1>4

\* In a buffer that is not full there is no frame yet, unless it was cut down.
LEMMA StaysSmall ==
  ASSUME NEW b \in Seq(Token), Small(b), NEW c \in Seq(Token), Len(c) <= MaxChunk
  PROVE  Small(Rest(b \o c))
<1> DEFINE d == b \o c
           r == Rest(d)
<1> SUFFICES Small(r)
  OBVIOUS
<1>1. d \in Seq(Token) /\ Len(b) \in Nat /\ Len(c) \in Nat /\ Len(d) = Len(b) + Len(c)
  BY LenProperties, ConcatProperties
<1>2. Gone(d) \in 0 .. Len(d) /\ r = SubSeq(d, Gone(d) + 1, Len(d))
  BY <1>1, RestIs
<1> HIDE DEF d, r
<1>3. /\ r \in Seq(Token) /\ Len(r) = Len(d) - Gone(d)
      /\ \A i \in 1 .. Len(d) - Gone(d) : r[i] = d[Gone(d) + i]
  BY <1>1, <1>2, Pieces
<1>4. CASE Unwrap(d) # << >>
  <2>1. Gone(d) = LastFoot(d)
    BY <1>4 DEF Gone
  <2>2. Unwrap(r) = << >>
    <3> SUFFICES ASSUME Unwrap(r) # << >> PROVE FALSE
      OBVIOUS
    <3>1. LastFoot(r) \in 2 .. Len(r) /\ r[LastFoot(r)] = Foot
      BY <1>3, UnwrapFoot
    <3>2. r[LastFoot(r)] = d[Gone(d) + LastFoot(r)] /\ Gone(d) + LastFoot(r) \in LastFoot(d) + 1 .. Len(d)
      <4>1. LastFoot(r) \in 1 .. Len(d) - Gone(d)
        BY <3>1, <1>3
      <4> QED BY <4>1, <1>1, <1>2, <1>3, <2>1
    <3> QED BY <1>1, <1>4, <3>1, <3>2, UnwrapFoot
  <2>3. CASE Len(b) <= KeepBuf
    <3>1. Len(r) <= MaxBuf
      BY <2>3, <1>1, <1>2, <1>3, Bounds
    <3> QED BY <2>2, <3>1 DEF Small
  <2>4. CASE Unwrap(b) = << >>
    <3>1. PICK f : Scan(b, f) /\ Unwrap(b) = f[1]
      BY ScanExists
    <3>2. PICK g : Scan(d, g) /\ Unwrap(d) = g[1]
      BY <1>1, ScanExists
    <3>3. 1 \in 1 .. Len(b) + 1
      BY <1>1
    <3>a. Scan(b \o c, g)
      BY <3>2 DEF d
    <3>b. \A p \in 1 .. Len(b) + 1 : f[p] = << >> /\ g[p] # << >> =>
            \E q \in Len(b) + 1 .. Len(b) + Len(c) : (b \o c)[q] = Foot
      BY <3>1, <3>a, ScanNews
    <3>4. \E q \in Len(b) + 1 .. Len(b) + Len(c) : d[q] = Foot
      BY <3>1, <3>2, <3>3, <3>b, <2>4, <1>4 DEF d
    <3>5. PICK q \in Len(b) + 1 .. Len(d) : d[q] = Foot
      BY <3>4, <1>1
    <3>6. q \in 1 .. Len(d)
      BY <1>1
    <3>7. LastFoot(d) \in q .. Len(d)
      BY <1>1, <3>5, <3>6, LastFootIs
    <3>8. Len(r) <= MaxBuf
      BY <3>7, <2>1, <1>1, <1>3, Bounds
    <3> QED BY <2>2, <3>8 DEF Small
  <2> QED BY <2>3, <2>4 DEF Small
<1>5. CASE Unwrap(d) = << >> /\ Len(d) > MaxBuf
  <2>1. Len(r) = KeepBuf
    BY <1>5, <1>1, <1>3, Bounds DEF Gone
  <2>2. Len(r) <= MaxBuf
    BY <2>1, Bounds
  <2>3. Len(r) <= KeepBuf
    BY <2>1, Bounds
  <2> QED BY <2>2, <2>3 DEF Small
<1>6. CASE Unwrap(d) = << >> /\ ~(Len(d) > MaxBuf)
  <2>1. r = d
    BY <1>6 DEF Rest, r
  <2>2. Len(d) <= MaxBuf
    BY <1>6, <1>1, Bounds
  <2> QED BY <2>1, <2>2, <1>6 DEF Small
<1> QED BY <1>4, <1>5, <1>6

-----------------------------------------------------------------------------
(* The heads in a piece of the stream *)

\* The heads of two pieces together.
LEMMA HeadsCat ==
  ASSUME NEW s \in Seq(Token), NEW t \in Seq(Token)
  PROVE  HeadsIn(s \o t) = HeadsIn(s) \cup HeadsIn(t)
<1> DEFINE u == s \o t
<1>1. /\ Len(s) \in Nat /\ Len(t) \in Nat /\ Len(u) = Len(s) + Len(t)
      /\ \A i \in 1 .. Len(s) + Len(t) : u[i] = IF i <= Len(s) THEN s[i] ELSE t[i - Len(s)]
  BY LenProperties, ConcatProperties
<1> HIDE DEF u
<1>2. ASSUME NEW n \in HeadsIn(u)
      PROVE  n \in HeadsIn(s) \cup HeadsIn(t)
  <2>1. PICK p \in 1 .. Len(u) : IsHead(u[p]) /\ n = u[p][2]
    BY DEF HeadsIn
  <2>2. CASE p <= Len(s)
    <3>1. p \in 1 .. Len(s) /\ u[p] = s[p]
      BY <2>2, <1>1
    <3> QED BY <3>1, <2>1 DEF HeadsIn
  <2>3. CASE p > Len(s)
    <3>1. p - Len(s) \in 1 .. Len(t) /\ u[p] = t[p - Len(s)]
      BY <2>3, <1>1
    <3> QED BY <3>1, <2>1 DEF HeadsIn
  <2> QED BY <2>2, <2>3, <1>1
<1>3. ASSUME NEW n \in HeadsIn(s)
      PROVE  n \in HeadsIn(u)
  <2>1. PICK p \in 1 .. Len(s) : IsHead(s[p]) /\ n = s[p][2]
    BY DEF HeadsIn
  <2>2. p \in 1 .. Len(u) /\ u[p] = s[p]
    BY <1>1
  <2> QED BY <2>1, <2>2 DEF HeadsIn
<1>4. ASSUME NEW n \in HeadsIn(t)
      PROVE  n \in HeadsIn(u)
  <2>1. PICK p \in 1 .. Len(t) : IsHead(t[p]) /\ n = t[p][2]
    BY DEF HeadsIn
  <2>2. Len(s) + p \in 1 .. Len(u) /\ u[Len(s) + p] = t[p]
    BY <1>1
  <2> QED BY <2>1, <2>2 DEF HeadsIn
<1> QED BY <1>2, <1>3, <1>4 DEF u

\* The numbers of the heads are numbers.
LEMMA HeadsTyped ==
  ASSUME NEW s \in Seq(Token)
  PROVE  HeadsIn(s) \subseteq Nat
BY Bounds DEF HeadsIn, Frames, STATUS

Below(A, B) == \A a \in A, b \in B : a # STATUS /\ b # STATUS => a < b

\* Two pieces are in order if each is, and the one comes before the other.
LEMMA RisingCat ==
  ASSUME NEW s \in Seq(Token), NEW t \in Seq(Token)
  PROVE  Rising(s \o t) <=> Rising(s) /\ Rising(t) /\ Below(HeadsIn(s), HeadsIn(t))
<1> DEFINE u == s \o t
<1>1. /\ Len(s) \in Nat /\ Len(t) \in Nat /\ Len(u) = Len(s) + Len(t)
      /\ \A i \in 1 .. Len(s) + Len(t) : u[i] = IF i <= Len(s) THEN s[i] ELSE t[i - Len(s)]
  BY LenProperties, ConcatProperties
<1> HIDE DEF u
<1>a. \A i \in 1 .. Len(s) : i \in 1 .. Len(u) /\ u[i] = s[i]
  BY <1>1
<1>b. \A i \in 1 .. Len(t) : Len(s) + i \in 1 .. Len(u) /\ u[Len(s) + i] = t[i]
  <2> SUFFICES ASSUME NEW i \in 1 .. Len(t)
               PROVE  Len(s) + i \in 1 .. Len(u) /\ u[Len(s) + i] = t[i]
    OBVIOUS
  <2>1. Len(s) + i \in 1 .. Len(u) /\ ~(Len(s) + i <= Len(s)) /\ (Len(s) + i) - Len(s) = i
    BY <1>1
  <2> QED BY <2>1, <1>1
<1>2. ASSUME Rising(u)
      PROVE  Rising(s) /\ Rising(t) /\ Below(HeadsIn(s), HeadsIn(t))
  <2>1. Rising(s)
    BY <1>2, <1>a DEF Rising
  <2>2. Rising(t)
    <3> SUFFICES ASSUME NEW p \in 1 .. Len(t), NEW q \in 1 .. Len(t), p < q, Sent(t[p]), Sent(t[q])
                 PROVE  t[p][2] < t[q][2]
      BY DEF Rising
    <3>1. Len(s) + p < Len(s) + q
      BY <1>1
    <3> QED BY <1>2, <1>b, <3>1 DEF Rising
  <2>3. ASSUME NEW a \in HeadsIn(s), NEW b \in HeadsIn(t), a # STATUS, b # STATUS
        PROVE  a < b
    <3>1. PICK p \in 1 .. Len(s) : IsHead(s[p]) /\ a = s[p][2]
      BY DEF HeadsIn
    <3>2. PICK q \in 1 .. Len(t) : IsHead(t[q]) /\ b = t[q][2]
      BY DEF HeadsIn
    <3>3. p < Len(s) + q
      BY <1>1
    <3>4. Sent(u[p]) /\ Sent(u[Len(s) + q])
      BY <3>1, <3>2, <2>3, <1>a, <1>b DEF Sent, HeadsIn
    <3>5. u[p][2] < u[Len(s) + q][2]
      BY <1>2, <3>3, <3>4, <1>a, <1>b DEF Rising
    <3> QED BY <3>1, <3>2, <3>5, <1>a, <1>b
  <2> QED BY <2>1, <2>2, <2>3 DEF Below
<1>3. ASSUME Rising(s), Rising(t), Below(HeadsIn(s), HeadsIn(t))
      PROVE  Rising(u)
  <2> SUFFICES ASSUME NEW p \in 1 .. Len(u), NEW q \in 1 .. Len(u), p < q, Sent(u[p]), Sent(u[q])
               PROVE  u[p][2] < u[q][2]
    BY DEF Rising
  <2>1. CASE q <= Len(s)
    <3>1. p \in 1 .. Len(s) /\ q \in 1 .. Len(s) /\ u[p] = s[p] /\ u[q] = s[q]
      BY <2>1, <1>1
    <3> QED BY <3>1, <1>3 DEF Rising
  <2>2. CASE p > Len(s)
    <3>1. /\ p - Len(s) \in 1 .. Len(t) /\ q - Len(s) \in 1 .. Len(t)
          /\ u[p] = t[p - Len(s)] /\ u[q] = t[q - Len(s)] /\ p - Len(s) < q - Len(s)
      BY <2>2, <1>1
    <3> QED BY <3>1, <1>3 DEF Rising
  <2>3. CASE p <= Len(s) /\ q > Len(s)
    <3>1. /\ p \in 1 .. Len(s) /\ u[p] = s[p]
          /\ q - Len(s) \in 1 .. Len(t) /\ u[q] = t[q - Len(s)]
      BY <2>3, <1>1
    <3>2. u[p][2] \in HeadsIn(s) /\ u[q][2] \in HeadsIn(t)
      BY <3>1 DEF HeadsIn, Sent
    <3> QED BY <3>2, <1>3, RealKinds DEF Below, Sent
  <2> QED BY <2>1, <2>2, <2>3, <1>1
<1> QED BY <1>2, <1>3 DEF u


-----------------------------------------------------------------------------
(* What the drone sends *)

\* FlattenSeq puts one sequence behind the other.
LEMMA FlattenSteps ==
  ASSUME NEW S, NEW ss \in Seq(S)
  PROVE  \E f : /\ FlattenSeq(ss) = IF Len(ss) = 0 THEN ss ELSE f[Len(ss)]
                /\ \A i \in 1 .. Len(ss) : f[i] = IF i = 1 THEN ss[i] ELSE f[i - 1] \o ss[i]
<1> DEFINE n == Len(ss)
           A == {k \in 1 .. n : \E f : f = [i \in 1 .. k |-> IF i = 1 THEN ss[i] ELSE f[i - 1] \o ss[i]]}
<1>1. n \in Nat
  BY LenProperties
<1>2. ASSUME NEW k \in 1 .. n, k = 1 \/ k - 1 \in A
      PROVE  k \in A
  <2> SUFFICES \E f : f = [i \in 1 .. k |-> IF i = 1 THEN ss[i] ELSE f[i - 1] \o ss[i]]
    OBVIOUS
  <2>1. CASE k = 1
    <3> DEFINE f == [i \in 1 .. 1 |-> ss[i]]
    <3>1. f = [i \in 1 .. 1 |-> IF i = 1 THEN ss[i] ELSE f[i - 1] \o ss[i]]
      OBVIOUS
    <3> HIDE DEF f
    <3> QED BY <2>1, <3>1
  <2>2. CASE k # 1
    <3>1. PICK f : f = [i \in 1 .. k - 1 |-> IF i = 1 THEN ss[i] ELSE f[i - 1] \o ss[i]]
      BY <1>2, <2>2
    <3> DEFINE g == [i \in 1 .. k |-> IF i = k THEN f[k - 1] \o ss[k] ELSE f[i]]
    <3>2. ASSUME NEW i \in 1 .. k
          PROVE  g[i] = IF i = 1 THEN ss[i] ELSE g[i - 1] \o ss[i]
      <4>1. CASE i = k
        <5>1. k - 1 \in 1 .. k /\ k - 1 # k /\ k \in 1 .. k
          BY <2>2
        <5>2. g[k - 1] = f[k - 1] /\ g[k] = f[k - 1] \o ss[k]
          BY <5>1
        <5> HIDE DEF g
        <5> QED BY <4>1, <5>2, <2>2
      <4>2. CASE i # k
        <5>1. i \in 1 .. k - 1 /\ (i # 1 => i - 1 \in 1 .. k /\ i - 1 # k)
          BY <4>2
        <5>2. g[i] = f[i] /\ (i # 1 => g[i - 1] = f[i - 1])
          BY <5>1, <4>2
        <5>3. f[i] = IF i = 1 THEN ss[i] ELSE f[i - 1] \o ss[i]
          BY <5>1, <3>1
        <5> HIDE DEF g
        <5> QED BY <5>2, <5>3
      <4> QED BY <4>1, <4>2
    <3>3. g = [i \in 1 .. k |-> IF i = 1 THEN ss[i] ELSE g[i - 1] \o ss[i]]
      BY <3>2
    <3> HIDE DEF g
    <3> QED BY <3>3
  <2> QED BY <2>1, <2>2
<1>3. \A k \in 1 .. n : k \in A
  <2> HIDE DEF A, n
  <2> QED BY <1>1, <1>2, Ascent
<1> DEFINE F == CHOOSE f : f = [i \in 1 .. Len(ss) |-> IF i = 1 THEN ss[i] ELSE f[i - 1] \o ss[i]]
<1>4. FlattenSeq(ss) = IF Len(ss) = 0 THEN ss ELSE F[Len(ss)]
  BY Zenon DEF FlattenSeq
<1>5. CASE n = 0
  BY <1>4, <1>5
<1>6. CASE n # 0
  <2>1. \E f : f = [i \in 1 .. Len(ss) |-> IF i = 1 THEN ss[i] ELSE f[i - 1] \o ss[i]]
    <3>1. n \in 1 .. n
      BY <1>1, <1>6
    <3>2. n \in A
      BY <1>3, <3>1
    <3> QED BY <3>2, Zenon
  <2>2. F = [i \in 1 .. Len(ss) |-> IF i = 1 THEN ss[i] ELSE F[i - 1] \o ss[i]]
    BY <2>1, Zenon
  <2> HIDE DEF F
  <2>3. \A i \in 1 .. Len(ss) : F[i] = IF i = 1 THEN ss[i] ELSE F[i - 1] \o ss[i]
    BY <2>2
  <2> QED BY <1>4, <2>3
<1> QED BY <1>5, <1>6

\* What payloads consist of.
Piece == {Data, Foot} \cup {Start(FAKE, n) : n \in Lengths}

LEMMA PieceKinds == Piece \subseteq Token /\ \A t \in Piece : ~Real(t)
<1>1. Lengths \subseteq Nat
  BY StreamAssumption
<1>2. \A n \in Lengths : Start(FAKE, n) \in Token /\ Start(FAKE, n)[2] = FAKE
  BY <1>1, TokenKinds
<1> QED BY <1>2, TokenKinds, RealKinds DEF Piece, Real

\* A frame on the wire.
LEMMA WrapIs ==
  ASSUME NEW i \in Frames \cup {STATUS}, NEW data \in Seq(Piece)
  PROVE  LET w == Wrap(i, data)
         IN  /\ w \in Seq(Token) /\ Len(w) = Len(data) + 2
             /\ IsHead(w[1]) /\ w[1][2] = i /\ w[1][3] = Len(data)
             /\ \A q \in 2 .. Len(data) + 1 : w[q] = data[q - 1] /\ ~Real(w[q])
             /\ w[Len(data) + 2] = Foot
             /\ HeadsIn(w) = {i} /\ Rising(w)
<1> DEFINE w == Wrap(i, data)
           h == << Start(i, Len(data)) >>
           t == << Foot >>
<1>1. Len(data) \in Nat /\ \A q \in 1 .. Len(data) : data[q] \in Piece
  BY LenProperties, ElementOfSeq
<1>2. /\ Start(i, Len(data)) \in Token /\ IsHead(Start(i, Len(data)))
      /\ Start(i, Len(data))[2] = i /\ Start(i, Len(data))[3] = Len(data)
  BY <1>1, TokenKinds
<1>3. /\ h \in Seq(Token) /\ Len(h) = 1 /\ h[1] = Start(i, Len(data))
      /\ t \in Seq(Token) /\ Len(t) = 1 /\ t[1] = Foot
  BY <1>2, TokenKinds
<1>4. data \in Seq(Token)
  BY PieceKinds, SeqMonotonic
<1>5. w = h \o data \o t
  BY DEF Wrap
<1> HIDE DEF w, h, t
<1>6. /\ h \o data \in Seq(Token) /\ Len(h \o data) = Len(data) + 1
      /\ \A q \in 1 .. Len(data) + 1 : (h \o data)[q] = IF q <= 1 THEN h[q] ELSE data[q - 1]
  <2>1. /\ h \o data \in Seq(Token) /\ Len(h \o data) = Len(h) + Len(data)
        /\ \A q \in 1 .. Len(h) + Len(data) : (h \o data)[q] = IF q <= Len(h) THEN h[q] ELSE data[q - Len(h)]
    BY <1>3, <1>4, ConcatProperties
  <2>2. Len(h) + Len(data) = Len(data) + 1
    BY <1>1, <1>3
  <2> QED BY <1>3, <2>1, <2>2
<1>7. /\ w \in Seq(Token) /\ Len(w) = Len(data) + 2
      /\ \A q \in 1 .. Len(data) + 2 : w[q] = IF q <= Len(data) + 1 THEN (h \o data)[q]
                                              ELSE t[q - (Len(data) + 1)]
  BY <1>1, <1>3, <1>5, <1>6, ConcatProperties
<1>8. w[1] = Start(i, Len(data))
  BY <1>1, <1>3, <1>6, <1>7
<1>9. ASSUME NEW q \in 2 .. Len(data) + 1
      PROVE  w[q] = data[q - 1] /\ ~Real(w[q])
  <2>1. q \in 1 .. Len(data) + 1 /\ q \in 1 .. Len(data) + 2 /\ q - 1 \in 1 .. Len(data) /\ ~(q <= 1)
    BY <1>1
  <2> QED BY <2>1, <1>1, <1>6, <1>7, PieceKinds
<1>10. w[Len(data) + 2] = Foot
  <2>1. /\ Len(data) + 2 \in 1 .. Len(data) + 2 /\ ~(Len(data) + 2 <= Len(data) + 1)
        /\ Len(data) + 2 - (Len(data) + 1) = 1
    BY <1>1
  <2> QED BY <2>1, <1>3, <1>7
<1>11. \A q \in 1 .. Len(w) : Real(w[q]) => q = 1
  BY <1>1, <1>7, <1>9, <1>10, RealKinds
<1>12. HeadsIn(w) = {i}
  <2>1. 1 \in 1 .. Len(w)
    BY <1>1, <1>7
  <2> QED BY <2>1, <1>2, <1>8, <1>11 DEF HeadsIn, Real
<1>13. Rising(w)
  BY <1>11, RealKinds DEF Rising
<1> QED BY <1>2, <1>7, <1>8, <1>9, <1>10, <1>12, <1>13 DEF w


-----------------------------------------------------------------------------
(* Frames filled with data *)

\* The positions of two pieces in a row.
LEMMA CatAt ==
  ASSUME NEW s \in Seq(Token), NEW t \in Seq(Token)
  PROVE  /\ Len(s) \in Nat /\ Len(t) \in Nat /\ s \o t \in Seq(Token)
         /\ Len(s \o t) = Len(s) + Len(t)
         /\ \A p \in 1 .. Len(s) : (s \o t)[p] = s[p] /\ End(s \o t, p) = End(s, p)
         /\ \A p \in 1 .. Len(t) : /\ (s \o t)[Len(s) + p] = t[p]
                                   /\ Real(t[p]) => End(s \o t, Len(s) + p) = Len(s) + End(t, p)
<1>1. /\ Len(s) \in Nat /\ Len(t) \in Nat /\ s \o t \in Seq(Token) /\ Len(s \o t) = Len(s) + Len(t)
      /\ \A i \in 1 .. Len(s) + Len(t) : (s \o t)[i] = IF i <= Len(s) THEN s[i] ELSE t[i - Len(s)]
  BY LenProperties, ConcatProperties
<1>2. ASSUME NEW p \in 1 .. Len(s)
      PROVE  (s \o t)[p] = s[p] /\ End(s \o t, p) = End(s, p)
  <2>1. (s \o t)[p] = s[p]
    BY <1>1
  <2> QED BY <2>1 DEF End
<1>3. ASSUME NEW p \in 1 .. Len(t)
      PROVE  /\ (s \o t)[Len(s) + p] = t[p]
             /\ Real(t[p]) => End(s \o t, Len(s) + p) = Len(s) + End(t, p)
  <2>1. Len(s) + p \in 1 .. Len(s) + Len(t) /\ ~(Len(s) + p <= Len(s)) /\ (Len(s) + p) - Len(s) = p
    BY <1>1
  <2>2. (s \o t)[Len(s) + p] = t[p]
    BY <1>1, <2>1
  <2>3. Real(t[p]) => t[p][3] \in Nat
    BY RealBehind
  <2> QED BY <1>1, <2>2, <2>3 DEF End
<1> QED BY <1>1, <1>2, <1>3

\* What was in the first piece is there, and what is behind it is the second.
LEMMA FilledSplit ==
  ASSUME NEW s \in Seq(Token), NEW t \in Seq(Token), Filled(s \o t)
  PROVE  Sound(s) /\ Filled(t)
<1> DEFINE u == s \o t
<1>1. /\ Len(s) \in Nat /\ Len(t) \in Nat /\ u \in Seq(Token) /\ Len(u) = Len(s) + Len(t)
      /\ \A p \in 1 .. Len(s) : u[p] = s[p] /\ End(u, p) = End(s, p)
      /\ \A p \in 1 .. Len(t) : /\ u[Len(s) + p] = t[p]
                                /\ Real(t[p]) => End(u, Len(s) + p) = Len(s) + End(t, p)
  BY CatAt
<1>2. Filled(u)
  OBVIOUS
<1> HIDE DEF u
<1>3. Sound(s)
  <2> SUFFICES ASSUME NEW p \in 1 .. Len(s), Real(s[p]), NEW q \in p + 1 .. Len(s)
               PROVE  (q < End(s, p) => Inner(s[q])) /\ (q = End(s, p) => s[q] = Foot)
    BY DEF Sound
  <2>1. p \in 1 .. Len(u) /\ q \in p + 1 .. Len(u) /\ q \in 1 .. Len(s) /\ Real(u[p])
    BY <1>1
  <2>2. (q < End(u, p) => Inner(u[q])) /\ (q = End(u, p) => u[q] = Foot)
    BY <1>2, <2>1 DEF Filled, Sound
  <2> QED BY <1>1, <2>1, <2>2
<1>4. Filled(t)
  <2>1. ASSUME NEW p \in 1 .. Len(t), Real(t[p])
        PROVE  /\ End(t, p) <= Len(t)
               /\ \A q \in p + 1 .. Len(t) : /\ q < End(t, p) => Inner(t[q])
                                             /\ q = End(t, p) => t[q] = Foot
    <3>1. /\ Len(s) + p \in 1 .. Len(u) /\ Real(u[Len(s) + p])
          /\ End(u, Len(s) + p) = Len(s) + End(t, p) /\ End(t, p) \in Nat
      <4>1. End(t, p) \in Nat
        BY <2>1, RealBehind
      <4>2. u[Len(s) + p] = t[p] /\ End(u, Len(s) + p) = Len(s) + End(t, p)
        BY <2>1, <1>1
      <4>3. Len(s) + p \in 1 .. Len(u)
        BY <1>1
      <4>4. Real(u[Len(s) + p])
        BY <2>1, <4>2
      <4> QED BY <4>1, <4>2, <4>3, <4>4
    <3>2. End(t, p) <= Len(t)
      <4>1. End(u, Len(s) + p) <= Len(u)
        BY <1>2, <3>1 DEF Filled
      <4> QED BY <4>1, <3>1, <1>1
    <3>3. ASSUME NEW q \in p + 1 .. Len(t)
          PROVE  (q < End(t, p) => Inner(t[q])) /\ (q = End(t, p) => t[q] = Foot)
      <4>1. Len(s) + q \in (Len(s) + p) + 1 .. Len(u) /\ u[Len(s) + q] = t[q]
        BY <1>1
      <4>2. /\ Len(s) + q < End(u, Len(s) + p) => Inner(u[Len(s) + q])
            /\ Len(s) + q = End(u, Len(s) + p) => u[Len(s) + q] = Foot
        BY <1>2, <3>1, <4>1 DEF Filled, Sound
      <4>3. /\ q < End(t, p) => Len(s) + q < End(u, Len(s) + p)
            /\ q = End(t, p) => Len(s) + q = End(u, Len(s) + p)
        <5>1. Len(s) \in Nat /\ q \in Int /\ End(u, Len(s) + p) = Len(s) + End(t, p) /\ End(t, p) \in Nat
          BY <1>1, <3>1
        <5> QED BY ONLY <5>1
      <4> QED BY <4>1, <4>2, <4>3
    <3> QED BY <3>2, <3>3
  <2> QED BY <2>1 DEF Filled, Sound
<1> QED BY <1>3, <1>4

\* Two pieces of complete frames are one.
LEMMA FilledCat ==
  ASSUME NEW s \in Seq(Token), NEW t \in Seq(Token), Filled(s), Filled(t)
  PROVE  Filled(s \o t)
<1> DEFINE u == s \o t
<1>1. /\ Len(s) \in Nat /\ Len(t) \in Nat /\ u \in Seq(Token) /\ Len(u) = Len(s) + Len(t)
      /\ \A p \in 1 .. Len(s) : u[p] = s[p] /\ End(u, p) = End(s, p)
      /\ \A p \in 1 .. Len(t) : /\ u[Len(s) + p] = t[p]
                                /\ Real(t[p]) => End(u, Len(s) + p) = Len(s) + End(t, p)
  BY CatAt
<1> HIDE DEF u
<1>2. ASSUME NEW p \in 1 .. Len(u), Real(u[p])
      PROVE  /\ End(u, p) <= Len(u)
             /\ \A q \in p + 1 .. Len(u) : /\ q < End(u, p) => Inner(u[q])
                                           /\ q = End(u, p) => u[q] = Foot
  <2>1. CASE p <= Len(s)
    <3>1. p \in 1 .. Len(s) /\ u[p] = s[p] /\ End(u, p) = End(s, p)
      BY <2>1, <1>1
    <3>2. End(s, p) <= Len(s) /\ End(s, p) \in Nat
      BY <3>1, <1>2, RealBehind DEF Filled
    <3>3. ASSUME NEW q \in p + 1 .. Len(u), q <= End(s, p)
          PROVE  (q < End(u, p) => Inner(u[q])) /\ (q = End(u, p) => u[q] = Foot)
      <4>1. q \in p + 1 .. Len(s) /\ q \in 1 .. Len(s)
        BY <3>1, <3>2, <3>3, <1>1
      <4>2. (q < End(s, p) => Inner(s[q])) /\ (q = End(s, p) => s[q] = Foot)
        BY <4>1, <3>1, <1>2 DEF Filled, Sound
      <4> QED BY <4>1, <4>2, <3>1, <1>1
    <3>4. ASSUME NEW q \in p + 1 .. Len(u), ~(q <= End(s, p))
          PROVE  (q < End(u, p) => Inner(u[q])) /\ (q = End(u, p) => u[q] = Foot)
      BY <3>1, <3>2, <3>4
    <3>5. End(u, p) <= Len(u)
      BY <3>1, <3>2, <1>1
    <3> QED BY <3>3, <3>4, <3>5
  <2>2. CASE p > Len(s)
    <3>1. PICK r \in 1 .. Len(t) : p = Len(s) + r
      <4>1. p - Len(s) \in 1 .. Len(t) /\ p = Len(s) + (p - Len(s))
        BY <2>2, <1>1
      <4> QED BY <4>1
    <3>2. u[p] = t[r] /\ End(u, p) = Len(s) + End(t, r)
      BY <3>1, <1>1, <1>2
    <3>3. End(t, r) <= Len(t) /\ End(t, r) \in Nat
      BY <3>1, <3>2, <1>2, RealBehind DEF Filled
    <3>4. End(u, p) <= Len(u)
      BY <3>2, <3>3, <1>1
    <3>5. ASSUME NEW q \in p + 1 .. Len(u)
          PROVE  (q < End(u, p) => Inner(u[q])) /\ (q = End(u, p) => u[q] = Foot)
      <4>1. PICK x \in r + 1 .. Len(t) : q = Len(s) + x
        <5>1. q - Len(s) \in r + 1 .. Len(t) /\ q = Len(s) + (q - Len(s))
          BY <3>1, <1>1
        <5> QED BY <5>1
      <4>2. u[q] = t[x]
        BY <4>1, <1>1
      <4>3. (x < End(t, r) => Inner(t[x])) /\ (x = End(t, r) => t[x] = Foot)
        BY <4>1, <3>2, <1>2 DEF Filled, Sound
      <4>4. (q < End(u, p) => x < End(t, r)) /\ (q = End(u, p) => x = End(t, r))
        BY <4>1, <3>2, <3>3, <1>1
      <4> QED BY <4>2, <4>3, <4>4
    <3> QED BY <3>4, <3>5
  <2> QED BY <2>1, <2>2, <1>1
<1>3. Filled(u)
  BY <1>2 DEF Filled, Sound
<1> QED BY <1>3 DEF u

\* Cut behind a footer, the frames in front of it are complete.
LEMMA FilledFront ==
  ASSUME NEW s \in Seq(Token), NEW t \in Seq(Token), Sound(s \o t), Len(s) > 0, s[Len(s)] = Foot
  PROVE  Filled(s)
<1> DEFINE u == s \o t
<1>1. /\ Len(s) \in Nat /\ Len(t) \in Nat /\ u \in Seq(Token) /\ Len(u) = Len(s) + Len(t)
      /\ \A p \in 1 .. Len(s) : u[p] = s[p] /\ End(u, p) = End(s, p)
  BY CatAt
<1>2. Sound(u)
  OBVIOUS
<1> HIDE DEF u
<1>3. ASSUME NEW p \in 1 .. Len(s), Real(s[p])
      PROVE  /\ End(s, p) <= Len(s)
             /\ \A q \in p + 1 .. Len(s) : /\ q < End(s, p) => Inner(s[q])
                                           /\ q = End(s, p) => s[q] = Foot
  <2>1. p \in 1 .. Len(u) /\ Real(u[p])
    BY <1>1, <1>3
  <2>2. ASSUME NEW q \in p + 1 .. Len(s)
        PROVE  (q < End(s, p) => Inner(s[q])) /\ (q = End(s, p) => s[q] = Foot)
    <3>1. q \in p + 1 .. Len(u) /\ q \in 1 .. Len(s)
      BY <1>1
    <3>2. (q < End(u, p) => Inner(u[q])) /\ (q = End(u, p) => u[q] = Foot)
      BY <1>2, <2>1, <3>1 DEF Sound
    <3> QED BY <3>1, <3>2, <1>1
  <2>3. End(s, p) <= Len(s)
    <3> SUFFICES ASSUME End(s, p) > Len(s) PROVE FALSE
      BY <1>1, <1>3, RealBehind
    <3>1. p # Len(s)
      BY <1>3, RealKinds
    <3>2. Len(s) \in p + 1 .. Len(s)
      BY <3>1, <1>1
    <3>3. Inner(s[Len(s)])
      BY <3>2, <2>2
    <3> QED BY <3>3, RealKinds
  <2> QED BY <2>2, <2>3
<1> QED BY <1>3 DEF Filled, Sound

\* The headers tell the lengths of the payloads, in two pieces if in both.
LEMMA SizedCat ==
  ASSUME NEW pay, NEW s \in Seq(Token), NEW t \in Seq(Token)
  PROVE  Sized(pay, s \o t) <=> Sized(pay, s) /\ Sized(pay, t)
<1> DEFINE u == s \o t
<1>1. /\ Len(s) \in Nat /\ Len(t) \in Nat /\ Len(u) = Len(s) + Len(t)
      /\ \A p \in 1 .. Len(s) : u[p] = s[p]
      /\ \A p \in 1 .. Len(t) : u[Len(s) + p] = t[p]
  BY CatAt
<1> HIDE DEF u
<1>2. ASSUME Sized(pay, u) PROVE Sized(pay, s) /\ Sized(pay, t)
  <2>1. Sized(pay, s)
    BY <1>1, <1>2 DEF Sized
  <2>2. Sized(pay, t)
    <3> SUFFICES ASSUME NEW p \in 1 .. Len(t), Sent(t[p]) PROVE t[p][3] = Len(pay[t[p][2]])
      BY DEF Sized
    <3>1. Len(s) + p \in 1 .. Len(u) /\ u[Len(s) + p] = t[p]
      BY <1>1
    <3> QED BY <3>1, <1>2 DEF Sized
  <2> QED BY <2>1, <2>2
<1>3. ASSUME Sized(pay, s), Sized(pay, t) PROVE Sized(pay, u)
  <2> SUFFICES ASSUME NEW p \in 1 .. Len(u), Sent(u[p]) PROVE u[p][3] = Len(pay[u[p][2]])
    BY DEF Sized
  <2>1. CASE p <= Len(s)
    <3>1. p \in 1 .. Len(s) /\ u[p] = s[p]
      BY <2>1, <1>1
    <3> QED BY <3>1, <1>3 DEF Sized
  <2>2. CASE p > Len(s)
    <3>1. p - Len(s) \in 1 .. Len(t) /\ p = Len(s) + (p - Len(s))
      BY <2>2, <1>1
    <3>2. u[p] = t[p - Len(s)]
      BY <3>1, <1>1
    <3> QED BY <3>1, <3>2, <1>3 DEF Sized
  <2> QED BY <2>1, <2>2, <1>1
<1> QED BY <1>2, <1>3 DEF u

\* Headers in payloads stay covered when two pieces come together ...
LEMMA CoveredCat ==
  ASSUME NEW pay, NEW s \in Seq(Token), NEW t \in Seq(Token), Covered(pay, s), Covered(pay, t)
  PROVE  Covered(pay, s \o t)
<1> DEFINE u == s \o t
<1>1. /\ Len(s) \in Nat /\ Len(t) \in Nat /\ Len(u) = Len(s) + Len(t)
      /\ \A p \in 1 .. Len(s) : u[p] = s[p] /\ End(u, p) = End(s, p)
      /\ \A p \in 1 .. Len(t) : /\ u[Len(s) + p] = t[p]
                                /\ Real(t[p]) => End(u, Len(s) + p) = Len(s) + End(t, p)
  BY CatAt
<1> HIDE DEF u
<1>2. ASSUME NEW q \in 1 .. Len(u), IsHead(u[q]), ~Real(u[q])
      PROVE  \E p \in 1 .. Len(u) : p < q /\ Covers(pay, u, p, q)
  <2>1. CASE q <= Len(s)
    <3>1. q \in 1 .. Len(s) /\ u[q] = s[q]
      BY <2>1, <1>1
    <3>2. PICK p \in 1 .. Len(s) : p < q /\ Covers(pay, s, p, q)
      BY <3>1, <1>2 DEF Covered
    <3>3. p \in 1 .. Len(u) /\ Covers(pay, u, p, q)
      BY <3>2, <1>1 DEF Covers
    <3> QED BY <3>2, <3>3
  <2>2. CASE q > Len(s)
    <3>1. PICK r \in 1 .. Len(t) : q = Len(s) + r
      <4>1. q - Len(s) \in 1 .. Len(t) /\ q = Len(s) + (q - Len(s))
        BY <2>2, <1>1
      <4> QED BY <4>1
    <3>2. u[q] = t[r]
      BY <3>1, <1>1
    <3>3. PICK p \in 1 .. Len(t) : p < r /\ Covers(pay, t, p, r)
      BY <3>2, <1>2 DEF Covered
    <3>4. /\ Len(s) + p \in 1 .. Len(u) /\ Len(s) + p < q
          /\ u[Len(s) + p] = t[p] /\ Sent(t[p])
          /\ End(u, Len(s) + p) = Len(s) + End(t, p) /\ End(t, p) \in Nat
      BY <3>1, <3>3, <1>1, RealKinds, RealBehind DEF Covers
    <3>5. Covers(pay, u, Len(s) + p, q)
      BY <3>1, <3>3, <3>4, <1>1 DEF Covers
    <3> QED BY <3>4, <3>5
  <2> QED BY <2>1, <2>2, <1>1
<1>3. Covered(pay, u)
  BY <1>2 DEF Covered
<1> QED BY <1>3 DEF u

\* ... and when a stream is cut, unless in a frame with a header in its payload.
LEMMA CoveredSplit ==
  ASSUME NEW pay, NEW s \in Seq(Token), NEW t \in Seq(Token), Covered(pay, s \o t)
  PROVE  /\ Covered(pay, s)
         /\ (\A p \in 1 .. Len(s) : Sent(s[p]) /\ HeadIn(pay[s[p][2]]) => End(s, p) <= Len(s))
              => Covered(pay, t)
<1> DEFINE u == s \o t
<1>1. /\ Len(s) \in Nat /\ Len(t) \in Nat /\ Len(u) = Len(s) + Len(t)
      /\ \A p \in 1 .. Len(s) : u[p] = s[p] /\ End(u, p) = End(s, p)
      /\ \A p \in 1 .. Len(t) : /\ u[Len(s) + p] = t[p]
                                /\ Real(t[p]) => End(u, Len(s) + p) = Len(s) + End(t, p)
  BY CatAt
<1>2. Covered(pay, u)
  OBVIOUS
<1> HIDE DEF u
<1>3. ASSUME NEW q \in 1 .. Len(s), IsHead(s[q]), ~Real(s[q])
      PROVE  \E p \in 1 .. Len(s) : p < q /\ Covers(pay, s, p, q)
  <2>1. q \in 1 .. Len(u) /\ u[q] = s[q]
    BY <1>1
  <2>2. PICK p \in 1 .. Len(u) : p < q /\ Covers(pay, u, p, q)
    BY <2>1, <1>2, <1>3 DEF Covered
  <2>3. p \in 1 .. Len(s)
    BY <2>2, <1>1
  <2>4. Covers(pay, s, p, q)
    BY <2>2, <2>3, <1>1 DEF Covers
  <2> QED BY <2>2, <2>3, <2>4
<1>4. ASSUME \A p \in 1 .. Len(s) : Sent(s[p]) /\ HeadIn(pay[s[p][2]]) => End(s, p) <= Len(s),
             NEW q \in 1 .. Len(t), IsHead(t[q]), ~Real(t[q])
      PROVE  \E p \in 1 .. Len(t) : p < q /\ Covers(pay, t, p, q)
  <2>1. Len(s) + q \in 1 .. Len(u) /\ u[Len(s) + q] = t[q]
    BY <1>1
  <2>2. PICK p \in 1 .. Len(u) : p < Len(s) + q /\ Covers(pay, u, p, Len(s) + q)
    BY <2>1, <1>2, <1>4 DEF Covered
  <2>3. CASE p <= Len(s)
    <3>1. p \in 1 .. Len(s) /\ Sent(s[p]) /\ HeadIn(pay[s[p][2]]) /\ Len(s) + q < End(s, p)
      BY <2>2, <2>3, <1>1 DEF Covers
    <3>2. End(s, p) <= Len(s) /\ End(s, p) \in Nat
      BY <3>1, <1>4, RealKinds, RealBehind
    <3> QED BY <3>1, <3>2, <1>1
  <2>4. CASE p > Len(s)
    <3>1. PICK r \in 1 .. Len(t) : p = Len(s) + r
      <4>1. p - Len(s) \in 1 .. Len(t) /\ p = Len(s) + (p - Len(s))
        BY <2>4, <1>1
      <4> QED BY <4>1
    <3>2. u[p] = t[r] /\ Sent(t[r])
      BY <3>1, <2>2, <1>1 DEF Covers
    <3>3. End(u, p) = Len(s) + End(t, r) /\ End(t, r) \in Nat
      BY <3>1, <3>2, <1>1, RealKinds, RealBehind
    <3>4. r < q /\ q < End(t, r) /\ HeadIn(pay[t[r][2]])
      BY <3>1, <3>2, <3>3, <2>2, <1>1 DEF Covers
    <3> QED BY <3>2, <3>4 DEF Covers
  <2> QED BY <2>3, <2>4, <1>1
<1> QED BY <1>3, <1>4 DEF Covered

\* A frame whose payload has no footer is complete, and covers the headers in it.
LEMMA WrapFilled ==
  ASSUME NEW i \in Frames \cup {STATUS}, NEW data \in Seq(Piece), Foot \notin ToSet(data)
  PROVE  /\ Filled(Wrap(i, data))
         /\ \A pay : i # STATUS /\ pay[i] = data => Covered(pay, Wrap(i, data))
         /\ \A pay : (\A q \in 1 .. Len(data) : ~IsHead(data[q])) => Covered(pay, Wrap(i, data))
<1> DEFINE w == Wrap(i, data)
<1>1. Len(data) \in Nat
  BY LenProperties
<1>2. /\ w \in Seq(Token) /\ Len(w) = Len(data) + 2 /\ w[1][3] = Len(data)
      /\ IsHead(w[1]) /\ w[1][2] = i
      /\ \A q \in 2 .. Len(data) + 1 : w[q] = data[q - 1] /\ ~Real(w[q])
      /\ w[Len(data) + 2] = Foot
  BY WrapIs
<1> HIDE DEF w
<1>3. \A q \in 2 .. Len(data) + 1 : Inner(w[q])
  <2> SUFFICES ASSUME NEW q \in 2 .. Len(data) + 1 PROVE Inner(w[q])
    OBVIOUS
  <2>1. q - 1 \in 1 .. Len(data)
    BY <1>1
  <2>2. data[q - 1] \in ToSet(data)
    BY <2>1, LenProperties DEF ToSet
  <2> QED BY <2>2, <1>2 DEF Inner
<1>4. \A p \in 1 .. Len(w) : Real(w[p]) => p = 1
  BY <1>1, <1>2, RealKinds
<1>5. End(w, 1) = Len(data) + 2
  BY <1>1, <1>2 DEF End
<1>6. Filled(w)
  <2> SUFFICES ASSUME NEW p \in 1 .. Len(w), Real(w[p])
               PROVE  /\ End(w, p) <= Len(w)
                      /\ \A q \in p + 1 .. Len(w) : /\ q < End(w, p) => Inner(w[q])
                                                    /\ q = End(w, p) => w[q] = Foot
    BY DEF Filled, Sound
  <2>1. p = 1
    BY <1>4
  <2> QED BY <2>1, <1>1, <1>2, <1>3, <1>5
<1>7. ASSUME NEW pay, i # STATUS, pay[i] = data, NEW q \in 1 .. Len(w), IsHead(w[q]), ~Real(w[q])
      PROVE  \E p \in 1 .. Len(w) : p < q /\ Covers(pay, w, p, q)
  <2>1. Sent(w[1]) /\ Real(w[1])
    BY <1>2, <1>7 DEF Sent, Real
  <2>2. q # 1 /\ q # Len(data) + 2
    BY <2>1, <1>2, <1>7, TokenKinds
  <2>3. q \in 2 .. Len(data) + 1 /\ q - 1 \in 1 .. Len(data)
    BY <2>2, <1>1, <1>2
  <2>4. HeadIn(data)
    BY <2>3, <1>2, <1>7 DEF HeadIn
  <2>5. Covers(pay, w, 1, q) /\ 1 < q /\ 1 \in 1 .. Len(w)
    BY <2>1, <2>3, <2>4, <1>1, <1>2, <1>5, <1>7 DEF Covers
  <2> QED BY <2>5
<1>8. ASSUME \A q \in 1 .. Len(data) : ~IsHead(data[q]), NEW q \in 1 .. Len(w), IsHead(w[q]), ~Real(w[q])
      PROVE  FALSE
  <2>1. q # 1 /\ q # Len(data) + 2
    BY <1>2, <1>8, TokenKinds DEF Real
  <2>2. q \in 2 .. Len(data) + 1 /\ q - 1 \in 1 .. Len(data)
    BY <2>1, <1>1, <1>2
  <2> QED BY <2>2, <1>2, <1>8
<1> QED BY <1>6, <1>7, <1>8 DEF w, Covered


-----------------------------------------------------------------------------
(* A buffer from which the frames are taken *)

\* Each frame that is found had its header in the part that is cut off.
LEMMA FoundIn ==
  ASSUME NEW d \in Seq(Token), Unwrap(d) # << >>, NEW k \in 1 .. Len(Unwrap(d)),
         Unwrap(d)[k] \in Frames
  PROVE  Unwrap(d)[k] \in HeadsIn(SubSeq(d, 1, LastFoot(d)))
<1> DEFINE n == LastFoot(d)
<1>1. n \in 2 .. Len(d) /\ \A q \in n + 1 .. Len(d) : d[q] # Foot
  BY UnwrapFoot
<1>2. PICK p \in Nat : HeadAt(d, p, Unwrap(d)[k])
  BY UnwrapListed DEF Listed
<1>3. PICK g \in p + 1 .. Len(d) : d[g] = Foot
  BY <1>2 DEF HeadAt
<1>4. Len(d) \in Nat
  BY LenProperties
<1>5. g <= n
  BY <1>1, <1>3, <1>4
<1>6. p \in 1 .. n
  BY <1>1, <1>2, <1>3, <1>4, <1>5 DEF HeadAt
<1>7. /\ SubSeq(d, 1, n) \in Seq(Token) /\ Len(SubSeq(d, 1, n)) = n
      /\ \A i \in 1 .. n : SubSeq(d, 1, n)[i] = d[i]
  <2> HIDE DEF n
  <2>1. n \in 0 .. Len(d)
    BY <1>1
  <2> QED BY <2>1, Pieces
<1> HIDE DEF n
<1>8. IsHead(SubSeq(d, 1, n)[p]) /\ SubSeq(d, 1, n)[p][2] = Unwrap(d)[k]
  BY <1>2, <1>6, <1>7 DEF HeadAt
<1> QED BY <1>6, <1>7, <1>8 DEF HeadsIn, n

\* They are found in the order in which they came.
LEMMA FoundRising ==
  ASSUME NEW d \in Seq(Token), Rising(d),
         NEW j \in 1 .. Len(Unwrap(d)), NEW k \in 1 .. Len(Unwrap(d)), j < k,
         Unwrap(d)[j] \in Frames, Unwrap(d)[k] \in Frames
  PROVE  Unwrap(d)[j] < Unwrap(d)[k]
<1>1. PICK q \in Nat, r \in Nat : q < r /\ HeadAt(d, q, Unwrap(d)[j]) /\ HeadAt(d, r, Unwrap(d)[k])
  BY UnwrapListed DEF Listed
<1> QED BY <1>1 DEF HeadAt, Rising, Sent

\* What is cut off a buffer and what is kept of it.
CutOff(d) == SubSeq(d, 1, Gone(d))

\* A buffer is the two together.
LEMMA Taking ==
  ASSUME NEW d \in Seq(Token)
  PROVE  /\ CutOff(d) \in Seq(Token) /\ Rest(d) \in Seq(Token) /\ d = CutOff(d) \o Rest(d)
         /\ Gone(d) \in 0 .. Len(d) /\ Len(CutOff(d)) = Gone(d)
         /\ \A i \in 1 .. Gone(d) : CutOff(d)[i] = d[i]
         /\ HeadsIn(d) = HeadsIn(CutOff(d)) \cup HeadsIn(Rest(d))
<1>1. Gone(d) \in 0 .. Len(d) /\ Rest(d) = SubSeq(d, Gone(d) + 1, Len(d))
  BY RestIs
<1>2. /\ CutOff(d) \in Seq(Token) /\ Rest(d) \in Seq(Token) /\ d = CutOff(d) \o Rest(d)
      /\ Len(CutOff(d)) = Gone(d)
      /\ \A i \in 1 .. Gone(d) : CutOff(d)[i] = d[i]
  <2> DEFINE n == Gone(d)
             c == SubSeq(d, 1, n)
             r == SubSeq(d, n + 1, Len(d))
  <2>1. n \in 0 .. Len(d) /\ CutOff(d) = c /\ Rest(d) = r
    BY <1>1 DEF CutOff
  <2> HIDE DEF n
  <2>2. c \in Seq(Token) /\ r \in Seq(Token) /\ d = c \o r /\ Len(c) = n /\ \A i \in 1 .. n : c[i] = d[i]
    BY <2>1, Pieces, ZenonT(30)
  <2> HIDE DEF c, r
  <2> QED BY <2>1, <2>2 DEF n
<1>3. HeadsIn(CutOff(d) \o Rest(d)) = HeadsIn(CutOff(d)) \cup HeadsIn(Rest(d))
  BY <1>2, HeadsCat
<1> QED BY <1>1, <1>2, <1>3

\* Three pieces in a row.
LEMMA Assoc ==
  ASSUME NEW s \in Seq(Token), NEW t \in Seq(Token), NEW u \in Seq(Token)
  PROVE  (s \o t) \o u = s \o (t \o u)
BY ConcatAssociative

\* Of a buffer that begins outside of every frame gol_unwrap finds frames only, ...
LEMMA UnwrapReal ==
  ASSUME NEW pay, NEW d \in Seq(Token), Sound(d), Covered(pay, d)
  PROVE  \A k \in 1 .. Len(Unwrap(d)) : Unwrap(d)[k] # FAKE
<1>1. PICK f : Scan(d, f) /\ Unwrap(d) = f[1]
  BY ScanExists
<1>2. 1 \in 1 .. Len(d) + 1 /\ Outside(d, 1)
  BY LenProperties DEF Outside
<1> QED BY <1>1, <1>2, ScanReal

\* ... and those that are complete.
LEMMA UnwrapComplete ==
  ASSUME NEW pay, NEW d \in Seq(Token), Sound(d), Covered(pay, d),
         NEW h \in 1 .. Len(d), Real(d[h]), End(d, h) <= Len(d)
  PROVE  \E k \in 1 .. Len(Unwrap(d)) : Unwrap(d)[k] = d[h][2]
<1>1. PICK f : Scan(d, f) /\ Unwrap(d) = f[1]
  BY ScanExists
<1>2. 1 \in 1 .. h /\ Outside(d, 1)
  BY LenProperties DEF Outside
<1> QED BY <1>1, <1>2, ScanComplete

\* All of those cut off with their footers are found, ...
LEMMA AllTaken ==
  ASSUME NEW pay, NEW d \in Seq(Token), Sound(d), Covered(pay, d), Unwrap(d) # << >>
  PROVE  /\ Filled(CutOff(d))
         /\ \A n \in HeadsIn(CutOff(d)) : \E k \in 1 .. Len(Unwrap(d)) : Unwrap(d)[k] = n
<1>1. Gone(d) = LastFoot(d) /\ LastFoot(d) \in 2 .. Len(d) /\ d[LastFoot(d)] = Foot
  BY UnwrapFoot DEF Gone
<1>2. Filled(CutOff(d))
  <2>a. Gone(d) \in 1 .. Gone(d) /\ Gone(d) > 0
    BY <1>1
  <2>1. Len(CutOff(d)) > 0 /\ CutOff(d)[Len(CutOff(d))] = Foot
    BY <1>1, <2>a, Taking
  <2>2. Sound(CutOff(d) \o Rest(d))
    BY Taking
  <2> QED BY <2>1, <2>2, Taking, FilledFront
<1>3. ASSUME NEW n \in HeadsIn(CutOff(d))
      PROVE  \E k \in 1 .. Len(Unwrap(d)) : Unwrap(d)[k] = n
  <2>1. PICK p \in 1 .. Len(CutOff(d)) : Real(CutOff(d)[p]) /\ n = CutOff(d)[p][2]
    BY DEF HeadsIn, Real
  <2>2. p \in 1 .. Len(d) /\ d[p] = CutOff(d)[p] /\ Len(CutOff(d)) <= Len(d) /\ Len(d) \in Nat
    BY <1>1, Taking, LenProperties
  <2>3. End(d, p) = End(CutOff(d), p)
    BY <2>2 DEF End
  <2>4. End(CutOff(d), p) <= Len(CutOff(d)) /\ End(CutOff(d), p) \in Nat /\ Len(CutOff(d)) \in Nat
    BY <1>2, <2>1, Taking, RealBehind, LenProperties DEF Filled
  <2>5. End(d, p) <= Len(d)
    BY <2>2, <2>3, <2>4
  <2> QED BY <2>1, <2>2, <2>5, UnwrapComplete
<1> QED BY <1>2, <1>3

\* ... where none is found none is complete, ...
LEMMA NoneComplete ==
  ASSUME NEW pay, NEW d \in Seq(Token), Sound(d), Covered(pay, d), Unwrap(d) = << >>
  PROVE  Unfinished(d)
<1> SUFFICES ASSUME NEW p \in 1 .. Len(d), Real(d[p]), End(d, p) <= Len(d) PROVE FALSE
  BY RealBehind, LenProperties DEF Unfinished
<1>1. \E k \in 1 .. Len(Unwrap(d)) : Unwrap(d)[k] = d[p][2]
  BY UnwrapComplete
<1> QED BY <1>1

\* ... and what is kept is never a complete frame.
LEMMA RestUnfinished ==
  ASSUME NEW pay, NEW d \in Seq(Token), Sound(d), Covered(pay, d)
  PROVE  Unfinished(Rest(d))
<1> DEFINE r == Rest(d)
           f == CutOff(d)
<1>1. f \in Seq(Token) /\ r \in Seq(Token) /\ d = f \o r /\ Gone(d) \in 0 .. Len(d) /\ Len(f) = Gone(d)
  BY Taking
<1> HIDE DEF r, f
<1>2. /\ Len(d) = Len(f) + Len(r) /\ Len(f) \in Nat /\ Len(r) \in Nat
      /\ \A p \in 1 .. Len(r) : /\ d[Len(f) + p] = r[p]
                                /\ Real(r[p]) => End(d, Len(f) + p) = Len(f) + End(r, p)
  <2> DEFINE e == f \o r
  <2>1. /\ Len(e) = Len(f) + Len(r) /\ Len(f) \in Nat /\ Len(r) \in Nat
        /\ \A p \in 1 .. Len(r) : /\ e[Len(f) + p] = r[p]
                                  /\ Real(r[p]) => End(e, Len(f) + p) = Len(f) + End(r, p)
    BY <1>1, CatAt
  <2>2. d = e
    BY <1>1
  <2> HIDE DEF e
  <2> QED BY <2>1, <2>2
<1>3. SUFFICES ASSUME NEW p \in 1 .. Len(r), Real(r[p]), End(r, p) <= Len(r) PROVE FALSE
  BY <1>1, <1>2, RealBehind DEF Unfinished, r
<1>4. End(r, p) \in Nat /\ End(r, p) > p
  BY <1>1, <1>3, RealBehind
<1>5. /\ Len(f) + p \in 1 .. Len(d) /\ Real(d[Len(f) + p])
      /\ End(d, Len(f) + p) = Len(f) + End(r, p)
      /\ End(d, Len(f) + p) \in (Len(f) + p) + 1 .. Len(d)
  BY <1>2, <1>3, <1>4
<1>6. CASE Unwrap(d) # << >>
  <2>1. Len(f) = LastFoot(d)
    BY <1>1, <1>6 DEF Gone
  <2>2. d[End(d, Len(f) + p)] = Foot
    BY <1>5 DEF Sound
  <2>3. End(d, Len(f) + p) \in LastFoot(d) + 1 .. Len(d)
    BY <1>2, <1>5, <2>1
  <2> QED BY <1>6, <2>2, <2>3, UnwrapFoot
<1>7. CASE Unwrap(d) = << >>
  <2>1. Unfinished(d)
    BY <1>7, NoneComplete
  <2>2. End(d, Len(f) + p) > Len(d)
    BY <1>5, <2>1 DEF Unfinished
  <2> QED BY <1>2, <1>5, <2>2
<1> QED BY <1>6, <1>7

\* A frame that fits is not cut off before it is complete.
LEMMA FitsStays ==
  ASSUME NEW pay, NEW d \in Seq(Token), Sound(d), Covered(pay, d), Sized(pay, d), Unwrap(d) = << >>,
         NEW i \in HeadsIn(CutOff(d)), i # STATUS
  PROVE  ~(Len(pay[i]) + 2 <= KeepBuf)
<1> SUFFICES ASSUME Len(pay[i]) + 2 <= KeepBuf PROVE FALSE
  OBVIOUS
<1>1. PICK p \in 1 .. Len(CutOff(d)) : Real(CutOff(d)[p]) /\ i = CutOff(d)[p][2]
  BY DEF HeadsIn, Real
<1>2. p \in 1 .. Len(d) /\ d[p] = CutOff(d)[p] /\ p <= Gone(d) /\ Len(d) \in Nat
  <2>1. /\ Gone(d) \in 0 .. Len(d) /\ Len(CutOff(d)) = Gone(d) /\ Len(d) \in Nat
        /\ \A x \in 1 .. Gone(d) : CutOff(d)[x] = d[x]
    BY Taking, LenProperties
  <2> QED BY <2>1
<1>3. Gone(d) = Len(d) - KeepBuf
  BY <1>2, Bounds DEF Gone
<1>4. d[p][3] = Len(pay[i]) /\ d[p][3] \in Nat
  BY <1>1, <1>2, RealBehind DEF Sized, Sent, Real
<1>5. End(d, p) <= Len(d)
  BY <1>2, <1>3, <1>4, Bounds DEF End
<1>6. End(d, p) > Len(d)
  BY <1>1, <1>2, NoneComplete DEF Unfinished
<1> QED BY <1>2, <1>4, <1>5, <1>6 DEF End

\* What is kept of a buffer is cut out of no frame with a header in its payload, if
\* those fit.
LEMMA RestCovered ==
  ASSUME NEW pay, NEW d \in Seq(Token), Sound(d), Sized(pay, d), NEW e \in Seq(Token),
         Covered(pay, d \o e), \A i \in Frames : HeadIn(pay[i]) => Len(pay[i]) + 2 <= KeepBuf
  PROVE  Covered(pay, CutOff(d)) /\ Covered(pay, Rest(d) \o e)
<1> DEFINE r == Rest(d)
           f == CutOff(d)
<1>1. f \in Seq(Token) /\ r \in Seq(Token) /\ d = f \o r
  BY Taking
<1>2. Covered(pay, d)
  BY CoveredSplit
<1>3. ASSUME NEW p \in 1 .. Len(f), Sent(f[p]), HeadIn(pay[f[p][2]])
      PROVE  End(f, p) <= Len(f)
  <2>1. CASE Unwrap(d) # << >>
    BY <2>1, <1>2, <1>3, AllTaken, RealKinds DEF Filled
  <2>2. CASE Unwrap(d) = << >>
    <3>1. f[p][2] \in HeadsIn(f) /\ f[p][2] \in Frames /\ f[p][2] # STATUS
      BY <1>3, RealKinds DEF HeadsIn, Sent
    <3>2. ~(Len(pay[f[p][2]]) + 2 <= KeepBuf)
      BY <3>1, <2>2, <1>2, FitsStays
    <3> QED BY <3>1, <3>2, <1>3
  <2> QED BY <2>1, <2>2
<1> HIDE DEF f, r
<1>4. r \o e \in Seq(Token) /\ d \o e = f \o (r \o e)
  <2>1. (f \o r) \o e = f \o (r \o e)
    BY <1>1, Assoc
  <2> QED BY <2>1, <1>1, CatAt
<1>5. Covered(pay, f \o (r \o e))
  BY <1>4
<1> QED BY <1>1, <1>3, <1>4, <1>5, CoveredSplit DEF f, r

-----------------------------------------------------------------------------
(* The stream at the start *)

\* The frames one behind the other.
LEMMA StreamIs ==
  ASSUME NEW pay \in [Frames -> Payloads]
  PROVE  LET s == FlattenSeq([i \in Frames |-> Wrap(i, pay[i])])
         IN  /\ s \in Seq(Token) /\ Rising(s) /\ HeadsIn(s) = Frames /\ Sized(pay, s)
             /\ (\A i \in Frames : Foot \notin ToSet(pay[i])) => Filled(s) /\ Covered(pay, s)
<1> DEFINE ss == [i \in Frames |-> Wrap(i, pay[i])]
           plain == \A i \in Frames : Foot \notin ToSet(pay[i])
           Good(s, k) == /\ s \in Seq(Token) /\ Rising(s) /\ HeadsIn(s) = 1 .. k /\ Sized(pay, s)
                         /\ plain => Filled(s) /\ Covered(pay, s)
<1>1. \A i \in Frames : pay[i] \in Seq(Piece) /\ i \in Nat /\ i # STATUS
  BY StreamAssumption DEF Frames, STATUS, Piece
<1>2. ASSUME NEW i \in Frames
      PROVE  /\ ss[i] \in Seq(Token) /\ Rising(ss[i]) /\ HeadsIn(ss[i]) = {i} /\ Sized(pay, ss[i])
             /\ plain => Filled(ss[i]) /\ Covered(pay, ss[i])
  <2>1. LET w == Wrap(i, pay[i])
        IN  /\ w \in Seq(Token) /\ Len(w) = Len(pay[i]) + 2
            /\ IsHead(w[1]) /\ w[1][2] = i /\ w[1][3] = Len(pay[i])
            /\ \A q \in 2 .. Len(pay[i]) + 1 : w[q] = pay[i][q - 1] /\ ~Real(w[q])
            /\ w[Len(pay[i]) + 2] = Foot
            /\ HeadsIn(w) = {i} /\ Rising(w)
    BY <1>1, WrapIs
  <2> DEFINE w == Wrap(i, pay[i])
  <2>2. Len(pay[i]) \in Nat
    BY <1>1, LenProperties
  <2>3. ss[i] = w
    OBVIOUS
  <2> HIDE DEF w, ss
  <2>4. \A q \in 1 .. Len(w) : Real(w[q]) => q = 1
    BY <2>1, <2>2, RealKinds DEF w
  <2>5. Sized(pay, w)
    BY <2>1, <2>4, RealKinds DEF Sized, Sent, w
  <2>6. plain => Filled(w) /\ Covered(pay, w)
    BY <1>1, WrapFilled DEF w
  <2> QED BY <2>1, <2>3, <2>5, <2>6 DEF w
<1> HIDE DEF plain
<1>3. ss \in Seq(Seq(Token)) /\ Len(ss) = Count
  <2>1. ss \in [1 .. Count -> Seq(Token)]
    BY <1>2 DEF Frames
  <2> HIDE DEF ss
  <2> QED BY <2>1, Bounds
<1> HIDE DEF ss
<1>4. PICK f : /\ FlattenSeq(ss) = IF Len(ss) = 0 THEN ss ELSE f[Len(ss)]
               /\ \A i \in 1 .. Len(ss) : f[i] = IF i = 1 THEN ss[i] ELSE f[i - 1] \o ss[i]
  BY <1>3, FlattenSteps
<1> DEFINE A == {k \in 1 .. Count : Good(f[k], k)}
<1>5. ASSUME NEW k \in 1 .. Count, k = 1 \/ k - 1 \in A
      PROVE  k \in A
  <2> SUFFICES Good(f[k], k)
    OBVIOUS
  <2>0. k \in Frames /\ f[k] = IF k = 1 THEN ss[k] ELSE f[k - 1] \o ss[k]
    BY <1>3, <1>4 DEF Frames
  <2>1. CASE k = 1
    <3>1. {1} = 1 .. 1
      OBVIOUS
    <3> QED BY <2>0, <2>1, <1>2, <3>1
  <2>2. CASE k # 1
    <3>1. Good(f[k - 1], k - 1)
      BY <2>2, <1>5
    <3> HIDE DEF A
    <3> DEFINE a == f[k - 1]
               b == ss[k]
    <3>2. /\ a \in Seq(Token) /\ Rising(a) /\ HeadsIn(a) = 1 .. k - 1 /\ Sized(pay, a)
          /\ plain => Filled(a) /\ Covered(pay, a)
      BY <3>1
    <3>3. /\ b \in Seq(Token) /\ Rising(b) /\ HeadsIn(b) = {k} /\ Sized(pay, b)
          /\ plain => Filled(b) /\ Covered(pay, b)
      BY <2>0, <1>2
    <3>4. f[k] = a \o b
      BY <2>0, <2>2
    <3> HIDE DEF a, b
    <3>5. a \o b \in Seq(Token)
      BY <3>2, <3>3, CatAt
    <3>6. HeadsIn(a \o b) = 1 .. k
      <4>1. HeadsIn(a \o b) = (1 .. k - 1) \cup {k}
        BY <3>2, <3>3, HeadsCat
      <4> QED BY <4>1
    <3>7. Rising(a \o b)
      <4>1. Below(HeadsIn(a), HeadsIn(b))
        BY <3>2, <3>3 DEF Below
      <4> QED BY <4>1, <3>2, <3>3, RisingCat
    <3>8. Sized(pay, a \o b)
      BY <3>2, <3>3, SizedCat
    <3>9. plain => Filled(a \o b) /\ Covered(pay, a \o b)
      BY <3>2, <3>3, FilledCat, CoveredCat
    <3> QED BY <3>4, <3>5, <3>6, <3>7, <3>8, <3>9
  <2> QED BY <2>1, <2>2
<1>6. \A k \in 1 .. Count : Good(f[k], k)
  <2>1. \A k \in 1 .. Count : k \in A
    <3> HIDE DEF A
    <3> QED BY <1>5, Bounds, Ascent
  <2> QED BY <2>1
<1> HIDE DEF A
<1>7. Good(FlattenSeq(ss), Count)
  <2>1. CASE Count = 0
    <3>1. FlattenSeq(ss) = << >>
      BY <1>3, <1>4, <2>1, EmptySeq
    <3>2. HeadsIn(<< >>) = 1 .. Count
      BY <2>1 DEF HeadsIn
    <3>3. << >> \in Seq(Token) /\ Rising(<< >>) /\ Sized(pay, << >>) /\ Filled(<< >>) /\ Covered(pay, << >>)
      BY DEF Rising, Sized, Filled, Sound, Covered
    <3> QED BY <3>1, <3>2, <3>3
  <2>2. CASE Count # 0
    <3>1. Count \in 1 .. Count
      BY <2>2, Bounds
    <3>2. FlattenSeq(ss) = f[Count]
      BY <1>3, <1>4, <2>2
    <3> QED BY <1>6, <3>1, <3>2
  <2> QED BY <2>1, <2>2
<1> QED BY <1>7 DEF Frames, plain, ss


-----------------------------------------------------------------------------
(* The inductive invariant *)

\* The types.
StreamTyped ==
  /\ payload \in [Frames -> Payloads]
  /\ input \in Seq(Token) /\ buf \in Seq(Token) /\ pipe \in Seq(Token) /\ cbuf \in Seq(Token)
  /\ phase \in {"away", "connect", "loop"} /\ greeted \in BOOLEAN
  /\ delivered \in Seq(Nat) /\ skipped \in SUBSET Nat

\* As long as nothing leads gol_unwrap astray: what is on its way to the client, and
\* to the relay, are whole frames; neither buffer holds one.
FilledInv == Clear => /\ Filled(cbuf \o pipe) /\ Filled(buf \o input)
                      /\ Covered(payload, cbuf \o pipe) /\ Covered(payload, buf \o input)
                      /\ Unfinished(cbuf) /\ Unfinished(buf)
                      /\ Sized(payload, Way)
                      /\ phase # "loop" => cbuf = << >>

\* Then a frame that fits is on its way, handled or skipped, and nothing else was
\* handled.
NothingLost == Clear => \A i \in Frames \ skipped : Fits(i) =>
                          i \in HeadsIn(Way) \/ \E j \in 1 .. Len(delivered) : delivered[j] = i
NothingMore == Clear => \A j \in 1 .. Len(delivered) : delivered[j] # FAKE

\* The inductive invariant of GolStream.
StreamInv == StreamTyped /\ BufInv /\ OrderInv /\ FilledInv /\ NothingLost /\ NothingMore

\* Nothing leads it astray later that does not now.
LEMMA ClearBefore ==
  ASSUME Clear', payload' = payload, skipped \subseteq skipped'
  PROVE  Clear /\ \A i \in Frames : HeadIn(payload[i]) => Len(payload[i]) + 2 <= KeepBuf /\ i \notin skipped'
BY DEF Clear, HeadInside, HeadIn, Fits

\* What is dropped from the middle of a stream, or counted to the piece before it,
\* leaves the rest as it was.
LEMMA Middle ==
  ASSUME NEW x \in Seq(Token), NEW f \in Seq(Token), NEW z \in Seq(Token), Rising(x \o (f \o z))
  PROVE  /\ Rising(x \o z) /\ Rising((x \o f) \o z)
         /\ HeadsIn(x \o (f \o z)) = HeadsIn(x) \cup HeadsIn(f) \cup HeadsIn(z)
         /\ HeadsIn(x \o z) = HeadsIn(x) \cup HeadsIn(z)
         /\ HeadsIn((x \o f) \o z) = HeadsIn(x) \cup HeadsIn(f) \cup HeadsIn(z)
<1>1. x \o f \in Seq(Token) /\ f \o z \in Seq(Token)
  BY CatAt
<1>2. /\ HeadsIn(f \o z) = HeadsIn(f) \cup HeadsIn(z)
      /\ HeadsIn(x \o f) = HeadsIn(x) \cup HeadsIn(f)
      /\ HeadsIn(x \o z) = HeadsIn(x) \cup HeadsIn(z)
  BY HeadsCat
<1>3. /\ HeadsIn(x \o (f \o z)) = HeadsIn(x) \cup HeadsIn(f \o z)
      /\ HeadsIn((x \o f) \o z) = HeadsIn(x \o f) \cup HeadsIn(z)
  BY <1>1, HeadsCat
<1>4. Rising(x) /\ Rising(f \o z) /\ Below(HeadsIn(x), HeadsIn(f \o z))
  BY <1>1, RisingCat
<1>5. Rising(f) /\ Rising(z) /\ Below(HeadsIn(f), HeadsIn(z))
  BY <1>4, RisingCat
<1>6. /\ Below(HeadsIn(x), HeadsIn(z)) /\ Below(HeadsIn(x), HeadsIn(f))
      /\ Below(HeadsIn(x \o f), HeadsIn(z))
  BY <1>2, <1>4, <1>5 DEF Below
<1>7. Rising(x \o f)
  BY <1>4, <1>5, <1>6, RisingCat
<1>8. Rising(x \o z) /\ Rising((x \o f) \o z)
  BY <1>1, <1>4, <1>5, <1>6, <1>7, RisingCat
<1> QED BY <1>2, <1>3, <1>8

\* The lengths told by the heads, in three pieces.
LEMMA MiddleSized ==
  ASSUME NEW pay, NEW x \in Seq(Token), NEW f \in Seq(Token), NEW z \in Seq(Token)
  PROVE  /\ Sized(pay, x \o (f \o z)) <=> Sized(pay, x) /\ Sized(pay, f) /\ Sized(pay, z)
         /\ Sized(pay, (x \o f) \o z) <=> Sized(pay, x) /\ Sized(pay, f) /\ Sized(pay, z)
<1>1. x \o f \in Seq(Token) /\ f \o z \in Seq(Token)
  BY CatAt
<1>2. /\ Sized(pay, x \o (f \o z)) <=> Sized(pay, x) /\ Sized(pay, f \o z)
      /\ Sized(pay, (x \o f) \o z) <=> Sized(pay, x \o f) /\ Sized(pay, z)
  BY <1>1, SizedCat
<1>3. /\ Sized(pay, f \o z) <=> Sized(pay, f) /\ Sized(pay, z)
      /\ Sized(pay, x \o f) <=> Sized(pay, x) /\ Sized(pay, f)
  BY SizedCat
<1> QED BY <1>2, <1>3

\* Nothing is delivered and no new frame comes: the order stays.
LEMMA OrderStays ==
  ASSUME StreamInv, delivered' = delivered, Rising(Way'), HeadsIn(Way') \subseteq HeadsIn(Way) \cup {STATUS}
  PROVE  OrderInv'
<1>1. InOrder'
  BY DEF StreamInv, OrderInv, InOrder
<1>2. ASSUME NEW k \in 1 .. Len(delivered'), NEW a \in HeadsIn(Way'), delivered'[k] \in Frames, a # STATUS
      PROVE  delivered'[k] < a
  <2>1. a \in HeadsIn(Way) /\ k \in 1 .. Len(delivered) /\ delivered[k] \in Frames
    BY <1>2
  <2> QED BY <2>1, <1>2 DEF StreamInv, OrderInv
<1> QED BY <1>1, <1>2 DEF OrderInv

-----------------------------------------------------------------------------
(* Init *)

\* In the beginning all that was sent is still to come.
LEMMA StreamInit == GolInit => StreamInv
<1> SUFFICES ASSUME GolInit PROVE StreamInv
  OBVIOUS
<1>1. /\ input \in Seq(Token) /\ Rising(input) /\ HeadsIn(input) = Frames /\ Sized(payload, input)
      /\ Clear => Filled(input) /\ Covered(payload, input)
  BY StreamIs DEF GolInit, Clear
<1>2. buf = << >> /\ pipe = << >> /\ cbuf = << >> /\ delivered = << >> /\ skipped = {}
  BY DEF GolInit
<1>3. cbuf \o pipe = << >> /\ buf \o input = input /\ Way = input
  BY <1>1, <1>2, ConcatEmptySeq, EmptySeq DEF Way
<1>4. StreamTyped
  <2>1. << >> \in Seq(Token) /\ << >> \in Seq(Nat)
    BY EmptySeq
  <2>2. payload \in [Frames -> Payloads] /\ phase = "away" /\ greeted = FALSE
    BY DEF GolInit
  <2>3. greeted \in BOOLEAN
    BY <2>2
  <2>4. phase \in {"away", "connect", "loop"}
    BY <2>2
  <2>5. input \in Seq(Token) /\ buf \in Seq(Token) /\ pipe \in Seq(Token) /\ cbuf \in Seq(Token)
    BY <1>1, <1>2, <2>1
  <2>6. delivered \in Seq(Nat) /\ skipped \in SUBSET Nat
    BY <1>2, <2>1
  <2> QED BY <2>2, <2>3, <2>4, <2>5, <2>6 DEF StreamTyped
<1>5. Small(<< >>)
  <2>1. << >> \in Seq(Token) /\ Len(<< >>) = 0
    BY EmptySeq
  <2> QED BY <2>1, Bounds DEF Small
<1>6. BufInv
  BY <1>2, <1>5 DEF BufInv
<1>7. OrderInv
  BY <1>1, <1>2, <1>3 DEF OrderInv, InOrder
<1>8. FilledInv
  <2>1. Filled(<< >>) /\ Unfinished(<< >>) /\ \A pay : Covered(pay, << >>)
    BY DEF Filled, Sound, Unfinished, Covered
  <2> QED BY <1>1, <1>2, <1>3, <2>1 DEF FilledInv
<1>9. NothingLost
  BY <1>1, <1>3 DEF NothingLost
<1>10. NothingMore
  BY <1>2 DEF NothingMore
<1> QED BY <1>4, <1>6, <1>7, <1>8, <1>9, <1>10 DEF StreamInv

-----------------------------------------------------------------------------
(* The relay's loop *)

\* A round of the loop, in terms of the pieces of the stream.
LEMMA RelayPieces ==
  ASSUME StreamInv, RelayRecv
  PROVE  \E a, b \in Seq(Token) :
           LET d   == buf \o a
               raw == IF Unwrap(d) # << >> THEN CutOff(d) ELSE << >>
           IN  /\ input = a \o b /\ Len(a) <= MaxChunk /\ d \in Seq(Token)
               /\ buf' = Rest(d) /\ input' = b
               /\ IF phase = "away" THEN skipped' = skipped \cup HeadsIn(raw) /\ pipe' = pipe
                                    ELSE pipe' = pipe \o raw /\ skipped' = skipped
               /\ payload' = payload /\ phase' = phase /\ greeted' = greeted
               /\ cbuf' = cbuf /\ delivered' = delivered
<1>1. PICK n \in 1 .. MaxChunk :
        LET d   == buf \o SubSeq(input, 1, n)
            raw == IF Unwrap(d) # << >> THEN SubSeq(d, 1, LastFoot(d)) ELSE << >>
        IN  /\ n <= Len(input)
            /\ buf' = Rest(d) /\ input' = SubSeq(input, n + 1, Len(input))
            /\ IF phase = "away" THEN skipped' = skipped \cup HeadsIn(raw) /\ pipe' = pipe
                                 ELSE pipe' = pipe \o raw /\ skipped' = skipped
            /\ payload' = payload /\ phase' = phase /\ greeted' = greeted
            /\ cbuf' = cbuf /\ delivered' = delivered
  BY DEF RelayRecv
<1> DEFINE a == SubSeq(input, 1, n)
           b == SubSeq(input, n + 1, Len(input))
           d == buf \o a
<1>2. input \in Seq(Token) /\ buf \in Seq(Token)
  BY DEF StreamInv, StreamTyped
<1>3. n \in 0 .. Len(input) /\ n <= MaxChunk
  BY <1>1, <1>2, Bounds, LenProperties
<1>4. a \in Seq(Token) /\ b \in Seq(Token) /\ input = a \o b /\ Len(a) = n
  BY <1>2, <1>3, Pieces
<1>5. d \in Seq(Token)
  BY <1>2, <1>4, CatAt
<1>6. Unwrap(d) # << >> => SubSeq(d, 1, LastFoot(d)) = CutOff(d)
  BY DEF CutOff, Gone
<1> QED BY <1>1, <1>3, <1>4, <1>5, <1>6

\* The invariant through a round of the relay's loop.
LEMMA RelayStep ==
  ASSUME StreamInv, RelayRecv
  PROVE  StreamInv'
<1>1. PICK a \in Seq(Token), b \in Seq(Token) :
           LET d   == buf \o a
               raw == IF Unwrap(d) # << >> THEN CutOff(d) ELSE << >>
           IN  /\ input = a \o b /\ Len(a) <= MaxChunk /\ d \in Seq(Token)
               /\ buf' = Rest(d) /\ input' = b
               /\ IF phase = "away" THEN skipped' = skipped \cup HeadsIn(raw) /\ pipe' = pipe
                                    ELSE pipe' = pipe \o raw /\ skipped' = skipped
               /\ payload' = payload /\ phase' = phase /\ greeted' = greeted
               /\ cbuf' = cbuf /\ delivered' = delivered
  BY RelayPieces
<1> DEFINE d == buf \o a
           f == CutOff(d)
           r == Rest(d)
           x == cbuf \o pipe
           raw == IF Unwrap(d) # << >> THEN f ELSE << >>
<1>2. /\ input = a \o b /\ Len(a) <= MaxChunk /\ d \in Seq(Token)
      /\ buf' = r /\ input' = b
      /\ phase = "away" => skipped' = skipped \cup HeadsIn(raw) /\ pipe' = pipe
      /\ phase # "away" => pipe' = pipe \o raw /\ skipped' = skipped
      /\ payload' = payload /\ phase' = phase /\ greeted' = greeted
      /\ cbuf' = cbuf /\ delivered' = delivered
  BY <1>1
<1>3. /\ StreamTyped /\ BufInv /\ OrderInv /\ FilledInv /\ NothingLost /\ NothingMore
      /\ buf \in Seq(Token) /\ cbuf \in Seq(Token) /\ pipe \in Seq(Token)
  BY DEF StreamInv, StreamTyped
<1>4. f \in Seq(Token) /\ r \in Seq(Token) /\ d = f \o r
  BY <1>2, Taking
<1>5. x \in Seq(Token) /\ r \o b \in Seq(Token) /\ raw \in Seq(Token)
  BY <1>3, <1>4, CatAt
<1>6. buf \o input = d \o b
  BY <1>2, <1>3, Assoc, ZenonT(60)
<1>a. Small(r)
  BY <1>2, <1>3, StaysSmall DEF BufInv
<1>b. Clear => Sound(d)
  <2> HIDE DEF d, f, r, x, raw
  <2> QED BY <1>2, <1>3, <1>6, FilledSplit DEF FilledInv
<1>e. Clear' => Clear /\ \A i \in Frames : HeadIn(payload[i]) => Len(payload[i]) + 2 <= KeepBuf /\ i \notin skipped'
  <2>1. skipped \subseteq skipped'
    BY <1>2
  <2> HIDE DEF d, f, r, x, raw
  <2> QED BY <2>1, <1>2, ClearBefore
<1> HIDE DEF d, f, r, x
<1>7. d \o b = f \o (r \o b)
  BY <1>4, Assoc, ZenonT(60)
<1>c. (cbuf \o pipe) \o f = cbuf \o (pipe \o f)
  <2>1. cbuf \in Seq(Token) /\ pipe \in Seq(Token) /\ f \in Seq(Token)
    BY <1>3, <1>4
  <2> QED BY <2>1, Assoc, ZenonT(60)
<1>8. Way = x \o (f \o (r \o b))
  BY <1>6, <1>7 DEF Way, x
<1>9. Way' = x \o (r \o b) \/ Way' = (x \o f) \o (r \o b)
  <2>1. Way' = (cbuf \o pipe') \o (r \o b)
    BY <1>2 DEF Way
  <2>2. pipe' = pipe => Way' = x \o (r \o b)
    BY <2>1 DEF x
  <2>3. pipe' = pipe \o f => Way' = (x \o f) \o (r \o b)
    BY <2>1, <1>c DEF x
  <2>4. pipe \o << >> = pipe
    BY <1>3, ConcatEmptySeq
  <2> QED BY <1>2, <2>2, <2>3, <2>4
<1>10. StreamTyped'
  <2>1. pipe' \in Seq(Token)
    <3>1. pipe \in Seq(Token) /\ raw \in Seq(Token)
      BY <1>3, <1>5
    <3>2. pipe \o raw \in Seq(Token)
      BY <3>1, ConcatProperties
    <3> QED BY <3>1, <3>2, <1>2
  <2>2. skipped' \in SUBSET Nat
    BY <1>2, <1>3, <1>5, HeadsTyped DEF StreamTyped
  <2> QED BY <1>2, <1>3, <1>4, <2>1, <2>2 DEF StreamTyped
<1>11. BufInv'
  BY <1>2, <1>3, <1>a DEF BufInv
<1>12. /\ Rising(x \o (r \o b)) /\ Rising((x \o f) \o (r \o b))
       /\ HeadsIn(Way) = HeadsIn(x) \cup HeadsIn(f) \cup HeadsIn(r \o b)
       /\ HeadsIn(x \o (r \o b)) = HeadsIn(x) \cup HeadsIn(r \o b)
       /\ HeadsIn((x \o f) \o (r \o b)) = HeadsIn(x) \cup HeadsIn(f) \cup HeadsIn(r \o b)
  <2>1. Rising(x \o (f \o (r \o b)))
    BY <1>3, <1>8 DEF OrderInv
  <2> HIDE DEF x
  <2>2. x \in Seq(Token) /\ f \in Seq(Token) /\ r \o b \in Seq(Token)
    BY <1>4, <1>5
  <2>3. /\ Rising(x \o (r \o b)) /\ Rising((x \o f) \o (r \o b))
        /\ HeadsIn(x \o (f \o (r \o b))) = HeadsIn(x) \cup HeadsIn(f) \cup HeadsIn(r \o b)
        /\ HeadsIn(x \o (r \o b)) = HeadsIn(x) \cup HeadsIn(r \o b)
        /\ HeadsIn((x \o f) \o (r \o b)) = HeadsIn(x) \cup HeadsIn(f) \cup HeadsIn(r \o b)
    <3> DEFINE z == r \o b
    <3>1. z \in Seq(Token) /\ Rising(x \o (f \o z))
      BY <2>1, <2>2
    <3> HIDE DEF z
    <3>2. /\ Rising(x \o z) /\ Rising((x \o f) \o z)
          /\ HeadsIn(x \o (f \o z)) = HeadsIn(x) \cup HeadsIn(f) \cup HeadsIn(z)
          /\ HeadsIn(x \o z) = HeadsIn(x) \cup HeadsIn(z)
          /\ HeadsIn((x \o f) \o z) = HeadsIn(x) \cup HeadsIn(f) \cup HeadsIn(z)
      BY ONLY <3>1, <2>2, Middle
    <3> QED BY <3>2 DEF z
  <2> QED BY <2>3, <1>8
<1>13. OrderInv'
  <2>1. Rising(Way') /\ HeadsIn(Way') \subseteq HeadsIn(Way) \cup {STATUS}
    BY <1>9, <1>12
  <2> QED BY <2>1, <1>2, OrderStays
<1>14. FilledInv'
  <2> SUFFICES ASSUME Clear'
               PROVE  /\ Filled((cbuf \o pipe)') /\ Filled((buf \o input)')
                      /\ Covered(payload', (cbuf \o pipe)') /\ Covered(payload', (buf \o input)')
                      /\ Unfinished(cbuf') /\ Unfinished(buf')
                      /\ Sized(payload', Way')
                      /\ phase' # "loop" => cbuf' = << >>
    BY DEF FilledInv
  <2>0. Clear /\ \A i \in Frames : HeadIn(payload[i]) => Len(payload[i]) + 2 <= KeepBuf
    BY <1>e
  <2>1. /\ Filled(x) /\ Filled(d \o b) /\ Covered(payload, x) /\ Covered(payload, d \o b)
        /\ Unfinished(cbuf) /\ Sized(payload, Way) /\ (phase # "loop" => cbuf = << >>)
    BY <2>0, <1>3, <1>6 DEF FilledInv, x
  <2>2. Sound(d) /\ Covered(payload, d)
    BY <2>0, <2>1, <1>2, <1>b, CoveredSplit
  <2>a. /\ Sized(payload, x) /\ Sized(payload, f) /\ Sized(payload, r \o b)
        /\ Sized(payload, d)
    <3>1. Sized(payload, x) /\ Sized(payload, f) /\ Sized(payload, r \o b)
      BY <2>1, <1>4, <1>5, <1>8, MiddleSized
    <3>2. Sized(payload, r)
      BY <3>1, <1>4, SizedCat
    <3> QED BY <3>1, <3>2, <1>4, SizedCat
  <2>b. Covered(payload, f) /\ Covered(payload, r \o b)
    BY <2>0, <2>1, <2>2, <2>a, <1>2, RestCovered DEF f, r
  <2>3. Filled(r \o b)
    BY <2>1, <1>4, <1>5, <1>7, FilledSplit
  <2>4. Unfinished(r)
    BY <2>2, <1>2, RestUnfinished DEF r
  <2>5. Filled(cbuf \o pipe') /\ Covered(payload, cbuf \o pipe')
    <3>1. CASE pipe' = pipe
      BY <3>1, <2>1 DEF x
    <3>2. CASE pipe' # pipe
      <4>1. Unwrap(d) # << >> /\ pipe' = pipe \o f
        BY <3>2, <1>2, <1>3, ConcatEmptySeq
      <4>2. Filled(f)
        BY <4>1, <2>2, <1>2, AllTaken DEF f
      <4>3. cbuf \o pipe' = x \o f
        BY <4>1, <1>c DEF x
      <4> QED BY <4>2, <4>3, <2>1, <2>b, <1>4, <1>5, FilledCat, CoveredCat
    <3> QED BY <3>1, <3>2
  <2>6. Sized(payload, Way')
    <3>1. Sized(payload, x \o (r \o b)) /\ Sized(payload, (x \o f) \o (r \o b))
      BY <2>a, <1>4, <1>5, SizedCat, MiddleSized
    <3> QED BY <3>1, <1>9
  <2> QED BY <1>2, <2>1, <2>b, <2>3, <2>4, <2>5, <2>6
<1>15. NothingLost'
  <2> SUFFICES ASSUME Clear', NEW i \in Frames, i \notin skipped', Fits(i)
               PROVE  i \in HeadsIn(Way') \/ \E j \in 1 .. Len(delivered) : delivered[j] = i
    BY <1>2 DEF NothingLost, Fits
  <2>0. Clear
    BY <1>e
  <2>1. i \notin skipped
    BY <1>2
  <2>2. i \in HeadsIn(Way) \/ \E j \in 1 .. Len(delivered) : delivered[j] = i
    BY <2>0, <2>1, <1>3 DEF NothingLost
  <2>3. CASE i \in HeadsIn(x) \cup HeadsIn(r \o b)
    BY <2>3, <1>9, <1>12
  <2>4. CASE i \in HeadsIn(f)
    <3>1. i # STATUS
      BY DEF Frames, STATUS
    <3>2. Sized(payload, d)
      <4>1. Sized(payload, x) /\ Sized(payload, f) /\ Sized(payload, r \o b)
        BY <2>0, <1>3, <1>4, <1>5, <1>8, MiddleSized DEF FilledInv
      <4>2. Sized(payload, r)
        BY <4>1, <1>4, SizedCat
      <4> QED BY <4>1, <4>2, <1>4, SizedCat
    <3>a. Covered(payload, d)
      BY <2>0, <1>2, <1>3, <1>6, CoveredSplit DEF FilledInv
    <3>3. Unwrap(d) # << >>
      BY <3>1, <3>2, <3>a, <2>0, <2>4, <1>2, <1>b, FitsStays DEF Fits, f
    <3>4. phase # "away"
      BY <3>3, <2>4, <1>2
    <3>5. Way' = (x \o f) \o (r \o b)
      <4>1. Way' = (cbuf \o pipe') \o (r \o b)
        BY <1>2 DEF Way
      <4>2. pipe' = pipe \o f
        BY <3>3, <3>4, <1>2
      <4> QED BY <4>1, <4>2, <1>c DEF x
    <3> QED BY <3>5, <2>4, <1>12
  <2> QED BY <2>2, <2>3, <2>4, <1>12
<1>16. NothingMore'
  BY <1>2, <1>3, <1>e DEF NothingMore
<1> QED BY <1>10, <1>11, <1>13, <1>14, <1>15, <1>16 DEF StreamInv


-----------------------------------------------------------------------------
(* The client comes *)

\* The client comes into the list: nothing moves.
LEMMA JoinStep == ASSUME StreamInv, Join PROVE StreamInv'
<1>1. /\ phase = "away" /\ phase' = "connect" /\ payload' = payload /\ input' = input /\ buf' = buf
      /\ pipe' = pipe /\ greeted' = greeted /\ cbuf' = cbuf /\ delivered' = delivered /\ skipped' = skipped
  BY DEF Join
<1>2. StreamTyped /\ BufInv /\ OrderInv /\ FilledInv /\ NothingLost /\ NothingMore
  BY DEF StreamInv
<1>3. Way' = Way
  BY <1>1 DEF Way
<1>9. Clear' => Clear
  BY <1>1, ClearBefore
<1>4. StreamTyped'
  BY <1>1, <1>2 DEF StreamTyped
<1>5. BufInv'
  BY <1>1, <1>2 DEF BufInv
<1>6. OrderInv'
  BY <1>1, <1>2, <1>3 DEF OrderInv, InOrder
<1>7. FilledInv'
  BY <1>1, <1>2, <1>3, <1>9 DEF FilledInv
<1>8. NothingLost' /\ NothingMore'
  BY <1>1, <1>2, <1>3, <1>9 DEF NothingLost, NothingMore, Fits
<1> QED BY <1>4, <1>5, <1>6, <1>7, <1>8 DEF StreamInv

\* The greeting is a whole frame that is none of the drone's.
LEMMA GreetingIs ==
  /\ Wrap(STATUS, << Data >>) \in Seq(Token)
  /\ HeadsIn(Wrap(STATUS, << Data >>)) = {STATUS} /\ Rising(Wrap(STATUS, << Data >>))
  /\ Filled(Wrap(STATUS, << Data >>))
  /\ \A pay : Sized(pay, Wrap(STATUS, << Data >>)) /\ Covered(pay, Wrap(STATUS, << Data >>))
<1> DEFINE w == Wrap(STATUS, << Data >>)
<1>1. << Data >> \in Seq(Piece) /\ Foot \notin ToSet(<< Data >>)
  BY TokenKinds DEF ToSet, Piece
<1>2. w \in Seq(Token) /\ HeadsIn(w) = {STATUS} /\ Rising(w)
  BY <1>1, WrapIs
<1>3. Filled(w) /\ \A pay : Covered(pay, w)
  <2>1. \A q \in 1 .. Len(<< Data >>) : ~IsHead(<< Data >>[q])
    BY TokenKinds
  <2> QED BY <2>1, <1>1, WrapFilled
<1> HIDE DEF w
<1>4. ASSUME NEW pay PROVE Sized(pay, w)
  BY <1>2, RealKinds DEF Sized, Sent, HeadsIn
<1> QED BY <1>2, <1>3, <1>4 DEF w

\* The greeting goes behind what the relay has sent.
LEMMA GreetStep == ASSUME StreamInv, Greet PROVE StreamInv'
<1> DEFINE w == Wrap(STATUS, << Data >>)
           x == cbuf \o pipe
           z == buf \o input
<1>1. /\ pipe' = pipe \o w /\ greeted' = TRUE /\ payload' = payload /\ input' = input /\ buf' = buf
      /\ phase' = phase /\ cbuf' = cbuf /\ delivered' = delivered /\ skipped' = skipped
  BY DEF Greet
<1>2. StreamTyped /\ BufInv /\ OrderInv /\ FilledInv /\ NothingLost /\ NothingMore
  BY DEF StreamInv
<1>3. /\ buf \in Seq(Token) /\ input \in Seq(Token) /\ cbuf \in Seq(Token) /\ pipe \in Seq(Token)
  BY <1>2 DEF StreamTyped
<1>4. w \in Seq(Token) /\ HeadsIn(w) = {STATUS} /\ Rising(w) /\ Filled(w) /\ Sized(payload, w) /\ Covered(payload, w)
  BY GreetingIs
<1> HIDE DEF w
<1>5. x \in Seq(Token) /\ z \in Seq(Token) /\ pipe \o w \in Seq(Token)
  BY <1>3, <1>4, CatAt
<1>6. cbuf \o (pipe \o w) = x \o w
  BY <1>3, <1>4, Assoc, ZenonT(60)
<1>7. Way = x \o z /\ Way' = (x \o w) \o z /\ (cbuf \o pipe)' = x \o w /\ (buf \o input)' = z
  BY <1>1, <1>6 DEF Way
<1>8. Rising(x \o z) /\ (Clear => Filled(x) /\ Covered(payload, x) /\ Sized(payload, x \o z))
  BY <1>2, <1>7 DEF OrderInv, FilledInv
<1> HIDE DEF x, z
<1>9. x \o w \in Seq(Token) /\ HeadsIn(x \o w) = HeadsIn(x) \cup {STATUS}
  BY <1>4, <1>5, CatAt, HeadsCat
<1>10. /\ HeadsIn(x \o z) = HeadsIn(x) \cup HeadsIn(z)
       /\ HeadsIn((x \o w) \o z) = HeadsIn(x) \cup {STATUS} \cup HeadsIn(z)
  BY <1>5, <1>9, HeadsCat
<1>11. Rising((x \o w) \o z)
  <2>1. Rising(x) /\ Rising(z) /\ Below(HeadsIn(x), HeadsIn(z))
    BY <1>5, <1>8, RisingCat
  <2>2. Below(HeadsIn(x), HeadsIn(w)) /\ Below(HeadsIn(x \o w), HeadsIn(z))
    BY <2>1, <1>4, <1>9 DEF Below
  <2>3. Rising(x \o w)
    BY <2>1, <2>2, <1>4, <1>5, RisingCat
  <2> QED BY <2>1, <2>2, <2>3, <1>5, <1>9, RisingCat
<1>e. Clear' => Clear
  BY <1>1, ClearBefore
<1>12. StreamTyped'
  BY <1>1, <1>2, <1>5 DEF StreamTyped
<1>13. BufInv'
  BY <1>1, <1>2 DEF BufInv
<1>14. OrderInv'
  <2>1. Rising(Way') /\ HeadsIn(Way') \subseteq HeadsIn(Way) \cup {STATUS}
    BY <1>7, <1>10, <1>11
  <2> QED BY <2>1, <1>1, OrderStays
<1>15. FilledInv'
  <2> SUFFICES ASSUME Clear'
               PROVE  /\ Filled((cbuf \o pipe)') /\ Filled((buf \o input)')
                      /\ Covered(payload', (cbuf \o pipe)') /\ Covered(payload', (buf \o input)')
                      /\ Unfinished(cbuf') /\ Unfinished(buf')
                      /\ Sized(payload', Way')
                      /\ phase' # "loop" => cbuf' = << >>
    BY DEF FilledInv
  <2>0. Clear
    BY <1>e
  <2>1. Filled(x \o w) /\ Covered(payload, x \o w)
    BY <2>0, <1>4, <1>5, <1>8, FilledCat, CoveredCat
  <2>2. Sized(payload, (x \o w) \o z)
    BY <2>0, <1>4, <1>5, <1>8, <1>9, SizedCat
  <2>3. Filled(z) /\ Covered(payload, z) /\ Unfinished(cbuf) /\ Unfinished(buf) /\ (phase # "loop" => cbuf = << >>)
    BY <2>0, <1>2 DEF FilledInv, z
  <2> QED BY <2>1, <2>2, <2>3, <1>1, <1>7
<1>16. NothingLost'
  <2>1. HeadsIn(Way) \subseteq HeadsIn(Way')
    BY <1>7, <1>10
  <2> QED BY <2>1, <1>1, <1>2, <1>e DEF NothingLost, Fits
<1>17. NothingMore'
  BY <1>1, <1>2, <1>e DEF NothingMore
<1> QED BY <1>12, <1>13, <1>14, <1>15, <1>16, <1>17 DEF StreamInv

-----------------------------------------------------------------------------
(* The recv of connect *)

\* What connect reads is dropped and counted.
LEMMA ConnectPieces ==
  ASSUME StreamInv, ConnectRecv
  PROVE  \E a, b \in Seq(Token) :
           /\ pipe = a \o b /\ pipe' = b /\ skipped' = skipped \cup HeadsIn(a)
<1>1. PICK n \in 0 .. MaxChunk :
        /\ n <= Len(pipe)
        /\ skipped' = skipped \cup HeadsIn(SubSeq(pipe, 1, n))
        /\ pipe' = SubSeq(pipe, n + 1, Len(pipe))
  BY DEF ConnectRecv
<1>2. pipe \in Seq(Token)
  BY DEF StreamInv, StreamTyped
<1>3. n \in 0 .. Len(pipe)
  BY <1>1, <1>2, Bounds, LenProperties
<1>4. /\ SubSeq(pipe, 1, n) \in Seq(Token) /\ SubSeq(pipe, n + 1, Len(pipe)) \in Seq(Token)
      /\ pipe = SubSeq(pipe, 1, n) \o SubSeq(pipe, n + 1, Len(pipe))
  BY <1>2, <1>3, Pieces
<1> QED BY <1>1, <1>4

\* The invariant through the recv of connect.
LEMMA ConnectStep == ASSUME StreamInv, ConnectRecv PROVE StreamInv'
<1>1. PICK a \in Seq(Token), b \in Seq(Token) :
           /\ pipe = a \o b /\ pipe' = b /\ skipped' = skipped \cup HeadsIn(a)
  BY ConnectPieces
<1>2. /\ phase = "connect" /\ phase' = "loop" /\ payload' = payload /\ input' = input /\ buf' = buf
      /\ greeted' = greeted /\ cbuf' = cbuf /\ delivered' = delivered
  BY DEF ConnectRecv
<1>3. StreamTyped /\ BufInv /\ OrderInv /\ FilledInv /\ NothingLost /\ NothingMore
  BY DEF StreamInv
<1>4. /\ buf \in Seq(Token) /\ input \in Seq(Token) /\ cbuf \in Seq(Token) /\ pipe \in Seq(Token)
  BY <1>3 DEF StreamTyped
<1> DEFINE z == buf \o input
           y == b \o z
<1>5. z \in Seq(Token)
  BY <1>4, CatAt
<1> HIDE DEF z
<1>6. y \in Seq(Token)
  BY <1>5, CatAt
<1>7. Way = cbuf \o (a \o y)
  <2>1. Way = (cbuf \o (a \o b)) \o z
    BY <1>1 DEF Way, z
  <2>2. a \o b \in Seq(Token)
    BY CatAt
  <2>3. (cbuf \o (a \o b)) \o z = cbuf \o ((a \o b) \o z)
    <3>1. cbuf \in Seq(Token) /\ z \in Seq(Token) /\ a \o b \in Seq(Token)
      BY <2>2, <1>4, <1>5
    <3> QED BY <3>1, Assoc, ZenonT(60)
  <2>4. (a \o b) \o z = a \o (b \o z)
    BY <1>5, Assoc, ZenonT(60)
  <2> QED BY <2>1, <2>3, <2>4
<1>8. Way' = cbuf \o y
  <2>1. Way' = (cbuf \o b) \o z
    BY <1>1, <1>2 DEF Way, z
  <2>2. cbuf \in Seq(Token) /\ z \in Seq(Token)
    BY <1>4, <1>5
  <2>3. (cbuf \o b) \o z = cbuf \o (b \o z)
    BY <2>2, Assoc, ZenonT(60)
  <2> QED BY <2>1, <2>3
<1> HIDE DEF y
<1>9. Rising(cbuf \o (a \o y))
  BY <1>3, <1>7 DEF OrderInv
<1>10. /\ Rising(cbuf \o y)
       /\ HeadsIn(cbuf \o (a \o y)) = HeadsIn(cbuf) \cup HeadsIn(a) \cup HeadsIn(y)
       /\ HeadsIn(cbuf \o y) = HeadsIn(cbuf) \cup HeadsIn(y)
  BY <1>4, <1>6, <1>9, Middle
<1>e. Clear' => Clear /\ \A i \in Frames : HeadIn(payload[i]) => Len(payload[i]) + 2 <= KeepBuf /\ i \notin skipped'
  <2>1. skipped \subseteq skipped'
    BY <1>1
  <2> QED BY <2>1, <1>2, ClearBefore
<1>11. StreamTyped'
  <2>1. skipped' \in SUBSET Nat
    BY <1>1, <1>3, HeadsTyped DEF StreamTyped
  <2> QED BY <2>1, <1>1, <1>2, <1>3 DEF StreamTyped
<1>12. BufInv'
  BY <1>2, <1>3 DEF BufInv
<1>13. OrderInv'
  <2>1. Rising(Way') /\ HeadsIn(Way') \subseteq HeadsIn(Way) \cup {STATUS}
    BY <1>7, <1>8, <1>10
  <2> QED BY <2>1, <1>2, OrderStays
<1>14. FilledInv'
  <2> SUFFICES ASSUME Clear'
               PROVE  /\ Filled((cbuf \o pipe)') /\ Filled((buf \o input)')
                      /\ Covered(payload', (cbuf \o pipe)') /\ Covered(payload', (buf \o input)')
                      /\ Unfinished(cbuf') /\ Unfinished(buf')
                      /\ Sized(payload', Way')
                      /\ phase' # "loop" => cbuf' = << >>
    BY DEF FilledInv
  <2>0. Clear /\ \A i \in Frames : HeadIn(payload[i]) => i \notin skipped'
    BY <1>e
  <2>1. /\ Filled(cbuf \o pipe) /\ Filled(z) /\ Covered(payload, cbuf \o pipe) /\ Covered(payload, z)
        /\ Unfinished(cbuf) /\ Unfinished(buf)
        /\ Sized(payload, Way) /\ cbuf = << >>
    BY <2>0, <1>2, <1>3 DEF FilledInv, z
  <2>2. cbuf \o pipe = a \o b /\ cbuf \o b = b
    BY <2>1, <1>1, <1>4, ConcatEmptySeq
  <2>3. Filled(b)
    BY <2>1, <2>2, FilledSplit
  <2>a. Covered(payload, b)
    <3>1. ASSUME NEW p \in 1 .. Len(a), Sent(a[p]), HeadIn(payload[a[p][2]]) PROVE FALSE
      <4>1. a[p][2] \in HeadsIn(a) /\ a[p][2] \in Frames
        BY <3>1 DEF HeadsIn, Sent
      <4> QED BY <4>1, <3>1, <2>0, <1>1
    <3> QED BY <3>1, <2>1, <2>2, CoveredSplit
  <2>4. (cbuf \o pipe)' = b /\ (buf \o input)' = z
    BY <2>2, <1>1, <1>2 DEF z
  <2>5. Sized(payload, cbuf) /\ Sized(payload, y)
    BY <2>1, <1>4, <1>6, <1>7, MiddleSized
  <2>6. Sized(payload, cbuf \o y)
    BY <2>5, <1>4, <1>6, SizedCat
  <2> QED BY <2>1, <2>3, <2>a, <2>4, <2>6, <1>2, <1>8
<1>15. NothingLost'
  <2> SUFFICES ASSUME Clear', NEW i \in Frames, i \notin skipped', Fits(i)
               PROVE  i \in HeadsIn(Way') \/ \E j \in 1 .. Len(delivered) : delivered[j] = i
    BY <1>2 DEF NothingLost, Fits
  <2>1. i \notin skipped /\ i \notin HeadsIn(a)
    BY <1>1
  <2>2. i \in HeadsIn(Way) \/ \E j \in 1 .. Len(delivered) : delivered[j] = i
    BY <2>1, <1>3, <1>e DEF NothingLost
  <2> QED BY <2>1, <2>2, <1>7, <1>8, <1>10
<1>16. NothingMore'
  BY <1>2, <1>3, <1>e DEF NothingMore
<1> QED BY <1>11, <1>12, <1>13, <1>14, <1>15, <1>16 DEF StreamInv

-----------------------------------------------------------------------------
(* The loop of the client *)

\* A round of the client's loop, in terms of the pieces of the stream.
LEMMA LoopPieces ==
  ASSUME StreamInv, LoopRecv
  PROVE  \E a, b \in Seq(Token) :
           /\ pipe = a \o b /\ Len(a) <= MaxChunk /\ pipe' = b
           /\ delivered' = delivered \o Unwrap(cbuf \o a) /\ cbuf' = Rest(cbuf \o a)
<1>1. PICK n \in 1 .. MaxChunk :
        /\ n <= Len(pipe)
        /\ delivered' = delivered \o Unwrap(cbuf \o SubSeq(pipe, 1, n))
        /\ cbuf' = Rest(cbuf \o SubSeq(pipe, 1, n))
        /\ pipe' = SubSeq(pipe, n + 1, Len(pipe))
  BY DEF LoopRecv
<1>2. pipe \in Seq(Token)
  BY DEF StreamInv, StreamTyped
<1>3. n \in 0 .. Len(pipe) /\ n <= MaxChunk
  BY <1>1, <1>2, Bounds, LenProperties
<1>4. /\ SubSeq(pipe, 1, n) \in Seq(Token) /\ SubSeq(pipe, n + 1, Len(pipe)) \in Seq(Token)
      /\ pipe = SubSeq(pipe, 1, n) \o SubSeq(pipe, n + 1, Len(pipe))
      /\ Len(SubSeq(pipe, 1, n)) = n
  BY <1>2, <1>3, Pieces
<1> QED BY <1>1, <1>3, <1>4

\* The frames just found come behind all that were found before and before all
\* that are on the way.
LEMMA OrderGrows ==
  ASSUME NEW d \in Seq(Token), NEW y \in Seq(Token), OrderInv, delivered \in Seq(Nat),
         Way = CutOff(d) \o y, Rising(d),
         Way' = y, delivered' = delivered \o Unwrap(d)
  PROVE  OrderInv'
<1> DEFINE u == Unwrap(d)
           f == CutOff(d)
           n == Len(delivered)
<1>1. u \in Seq(Nat) /\ f \in Seq(Token)
  BY UnwrapListed, Taking
<1>2. ASSUME NEW k \in 1 .. Len(u), u[k] \in Frames PROVE u[k] \in HeadsIn(f) /\ u[k] # STATUS
  <2>1. u # << >>
    BY <1>1, EmptySeq
  <2> QED BY <2>1, <1>2, FoundIn, RealKinds DEF CutOff, Gone
<1>3. ASSUME NEW j \in 1 .. Len(u), NEW k \in 1 .. Len(u), j < k, u[j] \in Frames, u[k] \in Frames
      PROVE  u[j] < u[k]
  BY <1>3, FoundRising
<1> HIDE DEF u, f
<1>4. HeadsIn(Way) = HeadsIn(f) \cup HeadsIn(y) /\ Rising(y) /\ Below(HeadsIn(f), HeadsIn(y))
  BY <1>1, HeadsCat, RisingCat DEF OrderInv, f
<1>5. /\ n \in Nat /\ Len(u) \in Nat /\ Len(delivered') = n + Len(u)
      /\ \A k \in 1 .. n + Len(u) : delivered'[k] = IF k <= n THEN delivered[k] ELSE u[k - n]
  BY <1>1, LenProperties, ConcatProperties DEF u
<1>6. ASSUME NEW k \in 1 .. Len(delivered')
      PROVE  \/ k \in 1 .. n /\ delivered'[k] = delivered[k]
             \/ k > n /\ k - n \in 1 .. Len(u) /\ delivered'[k] = u[k - n]
  BY <1>5
<1>7. InOrder'
  <2> SUFFICES ASSUME NEW i \in 1 .. Len(delivered'), NEW j \in 1 .. Len(delivered'), i < j,
                      delivered'[i] \in Frames, delivered'[j] \in Frames
               PROVE  delivered'[i] < delivered'[j]
    BY DEF InOrder
  <2>1. CASE j \in 1 .. n
    <3>1. i \in 1 .. n /\ delivered'[i] = delivered[i] /\ delivered'[j] = delivered[j]
      BY <2>1, <1>5
    <3> QED BY <3>1, <2>1 DEF OrderInv, InOrder
  <2>2. CASE j > n /\ j - n \in 1 .. Len(u) /\ delivered'[j] = u[j - n]
    <3>1. CASE i \in 1 .. n
      <4>1. u[j - n] \in HeadsIn(Way) /\ u[j - n] # STATUS
        BY <2>2, <1>2, <1>4
      <4>2. delivered'[i] = delivered[i]
        BY <3>1, <1>5
      <4> QED BY <4>1, <4>2, <3>1, <2>2 DEF OrderInv
    <3>2. CASE i > n /\ i - n \in 1 .. Len(u) /\ delivered'[i] = u[i - n]
      <4>1. i - n < j - n
        BY <1>5
      <4> QED BY <4>1, <3>2, <2>2, <1>3
    <3> QED BY <3>1, <3>2, <1>6
  <2> QED BY <2>1, <2>2, <1>6
<1>8. ASSUME NEW k \in 1 .. Len(delivered'), NEW a \in HeadsIn(y), delivered'[k] \in Frames, a # STATUS
      PROVE  delivered'[k] < a
  <2>1. CASE k \in 1 .. n /\ delivered'[k] = delivered[k]
    BY <2>1, <1>4, <1>8 DEF OrderInv
  <2>2. CASE k > n /\ k - n \in 1 .. Len(u) /\ delivered'[k] = u[k - n]
    <3>1. u[k - n] \in HeadsIn(f) /\ u[k - n] # STATUS
      BY <2>2, <1>2, <1>8
    <3> QED BY <3>1, <2>2, <1>4, <1>8 DEF Below
  <2> QED BY <2>1, <2>2, <1>6
<1> QED BY <1>4, <1>7, <1>8 DEF OrderInv

\* The invariant through a round of the client's loop.
LEMMA LoopStep == ASSUME StreamInv, LoopRecv PROVE StreamInv'
<1>1. PICK a \in Seq(Token), b \in Seq(Token) :
           /\ pipe = a \o b /\ Len(a) <= MaxChunk /\ pipe' = b
           /\ delivered' = delivered \o Unwrap(cbuf \o a) /\ cbuf' = Rest(cbuf \o a)
  BY LoopPieces
<1>2. /\ phase = "loop" /\ phase' = phase /\ payload' = payload /\ input' = input /\ buf' = buf
      /\ greeted' = greeted /\ skipped' = skipped
  BY DEF LoopRecv
<1>3. /\ StreamTyped /\ BufInv /\ OrderInv /\ FilledInv /\ NothingLost /\ NothingMore
      /\ buf \in Seq(Token) /\ input \in Seq(Token) /\ cbuf \in Seq(Token) /\ pipe \in Seq(Token)
      /\ delivered \in Seq(Nat)
  BY DEF StreamInv, StreamTyped
<1> DEFINE d == cbuf \o a
           f == CutOff(d)
           r == Rest(d)
           z == buf \o input
           g == r \o b
           y == g \o z
<1>4. d \in Seq(Token) /\ z \in Seq(Token)
  BY <1>3, CatAt
<1>5. cbuf \o pipe = d \o b
  <2>1. cbuf \in Seq(Token)
    BY <1>3
  <2> QED BY <2>1, <1>1, Assoc, ZenonT(60)
<1>6. Small(r)
  BY <1>1, <1>3, StaysSmall DEF BufInv
<1>7. delivered' = delivered \o Unwrap(d) /\ cbuf' = r
  BY <1>1
<1> HIDE DEF d, z
<1>8. f \in Seq(Token) /\ r \in Seq(Token) /\ d = f \o r
  BY <1>4, Taking
<1>9. g \in Seq(Token) /\ y \in Seq(Token)
  <2>1. g \in Seq(Token)
    BY <1>8, CatAt
  <2> HIDE DEF g
  <2> QED BY <2>1, <1>4, CatAt
<1>10. Way' = y
  BY <1>1, <1>2, <1>7 DEF Way, z
<1> HIDE DEF f, r
<1>11. d \o b = f \o g
  BY <1>8, Assoc, ZenonT(60)
<1> HIDE DEF g
<1>12. Way = f \o y
  <2>1. Way = (f \o g) \o z
    BY <1>5, <1>11 DEF Way, z
  <2>2. f \in Seq(Token) /\ g \in Seq(Token) /\ z \in Seq(Token)
    BY <1>4, <1>8, <1>9
  <2>3. (f \o g) \o z = f \o (g \o z)
    BY <2>2, Assoc, ZenonT(60)
  <2> QED BY <2>1, <2>3
<1> HIDE DEF y
<1>13. Rising(d)
  <2>1. Way = (d \o b) \o z
    BY <1>5 DEF Way, z
  <2>2. Rising((d \o b) \o z) /\ d \o b \in Seq(Token)
    BY <2>1, <1>3, <1>4, CatAt DEF OrderInv
  <2>3. Rising(d \o b)
    BY <2>2, <1>4, RisingCat
  <2> QED BY <2>3, <1>4, RisingCat
<1>14. HeadsIn(Way) = HeadsIn(f) \cup HeadsIn(Way')
  BY <1>8, <1>9, <1>10, <1>12, HeadsCat
<1>15. StreamTyped'
  <2>1. delivered' \in Seq(Nat)
    BY <1>3, <1>4, <1>7, UnwrapListed, ConcatProperties
  <2> QED BY <2>1, <1>1, <1>2, <1>3, <1>7, <1>8 DEF StreamTyped
<1>16. BufInv'
  BY <1>2, <1>3, <1>6, <1>7 DEF BufInv
<1>17. OrderInv'
  BY <1>3, <1>4, <1>7, <1>9, <1>10, <1>12, <1>13, OrderGrows DEF f
<1>e. Clear' => Clear /\ \A i \in Frames : HeadIn(payload[i]) => Len(payload[i]) + 2 <= KeepBuf
  BY <1>2, ClearBefore
<1>18. Clear => /\ Sound(d) /\ Filled(g) /\ Covered(payload, d \o b) /\ Covered(payload, d)
                /\ Sized(payload, f) /\ Sized(payload, y) /\ Sized(payload, d)
  <2> SUFFICES ASSUME Clear
               PROVE  /\ Sound(d) /\ Filled(g) /\ Covered(payload, d \o b) /\ Covered(payload, d)
                      /\ Sized(payload, f) /\ Sized(payload, y) /\ Sized(payload, d)
    OBVIOUS
  <2>1. Filled(d \o b) /\ Covered(payload, d \o b) /\ Sized(payload, f \o y)
    BY <1>3, <1>5, <1>12 DEF FilledInv
  <2>2. Sound(d)
    BY <2>1, <1>4, FilledSplit
  <2>3. Filled(g)
    BY <2>1, <1>8, <1>9, <1>11, FilledSplit
  <2>4. Covered(payload, d)
    BY <2>1, <1>4, CoveredSplit
  <2>5. Sized(payload, d)
    <3>1. cbuf \o pipe \in Seq(Token) /\ Way = (cbuf \o pipe) \o z
      BY <1>3, CatAt DEF Way, z
    <3>2. Sized(payload, cbuf \o pipe)
      BY <3>1, <1>3, <1>4, SizedCat DEF FilledInv
    <3> QED BY <3>2, <1>4, <1>5, SizedCat
  <2> QED BY <2>1, <2>2, <2>3, <2>4, <2>5, <1>8, <1>9, SizedCat
<1>19. FilledInv'
  <2> SUFFICES ASSUME Clear'
               PROVE  /\ Filled((cbuf \o pipe)') /\ Filled((buf \o input)')
                      /\ Covered(payload', (cbuf \o pipe)') /\ Covered(payload', (buf \o input)')
                      /\ Unfinished(cbuf') /\ Unfinished(buf')
                      /\ Sized(payload', Way')
                      /\ phase' # "loop" => cbuf' = << >>
    BY DEF FilledInv
  <2>0. Clear /\ \A i \in Frames : HeadIn(payload[i]) => Len(payload[i]) + 2 <= KeepBuf
    BY <1>e
  <2>1. (cbuf \o pipe)' = g /\ (buf \o input)' = buf \o input
    BY <1>1, <1>2, <1>7 DEF g
  <2>2. Unfinished(r)
    BY <2>0, <1>4, <1>18, RestUnfinished DEF r
  <2>4. Covered(payload, g)
    BY <2>0, <1>4, <1>18, RestCovered DEF r, g
  <2>3. Filled(buf \o input) /\ Covered(payload, buf \o input) /\ Unfinished(buf)
    BY <2>0, <1>3 DEF FilledInv
  <2> QED BY <2>0, <2>1, <2>2, <2>3, <2>4, <1>2, <1>7, <1>10, <1>18
<1>a. /\ Unwrap(d) \in Seq(Nat) /\ Len(Unwrap(d)) \in Nat /\ Len(delivered) \in Nat
      /\ Len(delivered') = Len(delivered) + Len(Unwrap(d))
      /\ \A k \in 1 .. Len(delivered) + Len(Unwrap(d)) :
            delivered'[k] = IF k <= Len(delivered) THEN delivered[k] ELSE Unwrap(d)[k - Len(delivered)]
  BY <1>3, <1>4, <1>7, UnwrapListed, LenProperties, ConcatProperties
<1>20. NothingLost'
  <2> SUFFICES ASSUME Clear', NEW i \in Frames, i \notin skipped, Fits(i)
               PROVE  i \in HeadsIn(Way') \/ \E j \in 1 .. Len(delivered') : delivered'[j] = i
    BY <1>2 DEF NothingLost, Fits
  <2>0. Clear
    BY <1>e
  <2>1. i \in HeadsIn(Way) \/ \E j \in 1 .. Len(delivered) : delivered[j] = i
    BY <2>0, <1>3 DEF NothingLost
  <2>3. CASE \E j \in 1 .. Len(delivered) : delivered[j] = i
    BY <1>a, <2>3
  <2>4. CASE i \in HeadsIn(f)
    <3>1. i # STATUS
      BY RealKinds
    <3>3. Unwrap(d) # << >>
      BY <3>1, <2>0, <2>4, <1>4, <1>18, FitsStays DEF Fits, f
    <3>4. PICK k \in 1 .. Len(Unwrap(d)) : Unwrap(d)[k] = i
      BY <3>3, <2>0, <2>4, <1>4, <1>18, AllTaken DEF f
    <3>5. /\ Len(delivered) + k \in 1 .. Len(delivered')
          /\ delivered'[Len(delivered) + k] = Unwrap(d)[k]
      <4>1. /\ Len(delivered) + k \in 1 .. Len(delivered) + Len(Unwrap(d))
            /\ ~(Len(delivered) + k <= Len(delivered)) /\ (Len(delivered) + k) - Len(delivered) = k
        BY <1>a
      <4> QED BY <4>1, <1>a
    <3> QED BY <3>4, <3>5
  <2> QED BY <2>1, <2>3, <2>4, <1>14
<1>21. NothingMore'
  <2> SUFFICES ASSUME Clear', NEW j \in 1 .. Len(delivered') PROVE delivered'[j] # FAKE
    BY DEF NothingMore
  <2>1. Clear
    BY <1>e
  <2>2. CASE j <= Len(delivered)
    BY <2>1, <2>2, <1>3, <1>a DEF NothingMore
  <2>3. CASE j > Len(delivered)
    <3>1. j - Len(delivered) \in 1 .. Len(Unwrap(d)) /\ delivered'[j] = Unwrap(d)[j - Len(delivered)]
      <4>1. j - Len(delivered) \in 1 .. Len(Unwrap(d)) /\ j \in 1 .. Len(delivered) + Len(Unwrap(d))
            /\ ~(j <= Len(delivered))
        BY <2>3, <1>a
      <4> QED BY <4>1, <1>a
    <3> QED BY <3>1, <2>1, <1>4, <1>18, UnwrapReal
  <2> QED BY <2>2, <2>3, <1>a
<1> QED BY <1>15, <1>16, <1>17, <1>19, <1>20, <1>21 DEF StreamInv

-----------------------------------------------------------------------------
(* The specification *)

\* Nothing happens.
LEMMA StreamStutter == ASSUME StreamInv, UNCHANGED golVars PROVE StreamInv'
<1>1. /\ payload' = payload /\ input' = input /\ buf' = buf /\ phase' = phase /\ pipe' = pipe
      /\ greeted' = greeted /\ cbuf' = cbuf /\ delivered' = delivered /\ skipped' = skipped
  BY DEF golVars
<1>2. Way' = Way
  BY <1>1 DEF Way
<1>3. StreamTyped'
  BY <1>1 DEF StreamInv, StreamTyped
<1>4. BufInv' /\ OrderInv'
  BY <1>1, <1>2 DEF StreamInv, BufInv, OrderInv, InOrder
<1>6. Clear' => Clear
  BY <1>1, ClearBefore
<1>5. FilledInv' /\ NothingLost' /\ NothingMore'
  BY <1>1, <1>2, <1>6 DEF StreamInv, FilledInv, NothingLost, NothingMore, Fits
<1> QED BY <1>3, <1>4, <1>5 DEF StreamInv

\* The invariant holds in every state.
THEOREM StreamInvariance == GolSpec => []StreamInv
<1>1. StreamInv /\ [GolNext]_golVars => StreamInv'
  BY RelayStep, JoinStep, GreetStep, ConnectStep, LoopStep, StreamStutter DEF GolNext
<1> QED BY StreamInit, <1>1, PTL DEF GolSpec

\* Whatever the drone sends, the buffers of _do_ready and _recv_loop keep within
\* their bound.
THEOREM StreamBounded == GolSpec => []BuffersBounded
<1>1. StreamInv => BuffersBounded
  BY DEF StreamInv, BufInv, Small, BuffersBounded
<1> QED BY <1>1, StreamInvariance, PTL

\* _process_buffer takes the frames of the drone once and in their order, however
\* the stream is cut and whatever payloads contain.
THEOREM StreamOrder == GolSpec => []InOrder
<1>1. StreamInv => InOrder
  BY DEF StreamInv, OrderInv
<1> QED BY <1>1, StreamInvariance, PTL

\* What is in a buffer with nothing behind it is not a frame.
LEMMA NoHead ==
  ASSUME NEW s \in Seq(Token), Filled(s), Unfinished(s)
  PROVE  HeadsIn(s) = {}
<1>1. ASSUME NEW p \in 1 .. Len(s), Real(s[p]) PROVE FALSE
  <2>1. End(s, p) <= Len(s) /\ End(s, p) > Len(s)
    BY <1>1 DEF Filled, Unfinished
  <2> QED BY <2>1, <1>1, RealBehind, LenProperties
<1> QED BY <1>1 DEF HeadsIn, Real

\* When nothing is left on the way, _process_buffer has taken every frame that was
\* forwarded to the client in its loop and that fits, and nothing but frames, unless
\* payloads contain footers, or headers that have lost the header of their frame.
THEOREM StreamDelivers == GolSpec => []EveryFrameDelivered
<1>1. StreamInv => EveryFrameDelivered
  <2> SUFFICES ASSUME StreamInv, Clear, input = << >>, pipe = << >>
               PROVE  /\ \A i \in Frames \ skipped : Fits(i) => \E j \in 1 .. Len(delivered) : delivered[j] = i
                      /\ \A j \in 1 .. Len(delivered) : delivered[j] # FAKE
    BY DEF EveryFrameDelivered
  <2>1. StreamTyped /\ FilledInv /\ NothingLost /\ NothingMore /\ buf \in Seq(Token) /\ cbuf \in Seq(Token)
    BY DEF StreamInv, StreamTyped
  <2>2. cbuf \o pipe = cbuf /\ buf \o input = buf
    BY <2>1, ConcatEmptySeq
  <2>3. Filled(cbuf) /\ Filled(buf) /\ Unfinished(cbuf) /\ Unfinished(buf)
    BY <2>1, <2>2 DEF FilledInv
  <2>4. HeadsIn(cbuf) = {} /\ HeadsIn(buf) = {}
    BY <2>1, <2>3, NoHead
  <2>5. HeadsIn(Way) = {}
    BY <2>1, <2>2, <2>4, HeadsCat DEF Way
  <2> QED BY <2>1, <2>5 DEF NothingLost, NothingMore
<1> QED BY <1>1, StreamInvariance, PTL

-----------------------------------------------------------------------------
(* Numbers in a row *)

\* c enumerates S, from the least number on.
Enumerates(c, S) == /\ c \in Seq(Nat)
                    /\ S = {c[k] : k \in 1 .. Len(c)}
                    /\ \A j, k \in 1 .. Len(c) : j < k => c[j] < c[k]

\* There is but one way to do it: what the one has, the other has too ...
LEMMA EnumBelow ==
  ASSUME NEW S, NEW c, Enumerates(c, S), NEW d, Enumerates(d, S)
  PROVE  \A k \in 1 .. Len(c) : k <= Len(d) /\ c[k] = d[k]
<1> DEFINE A == {k \in 1 .. Len(c) : \A l \in 1 .. k : l <= Len(d) /\ c[l] = d[l]}
<1>1. /\ Len(c) \in Nat /\ \A k \in 1 .. Len(c) : c[k] \in Nat
      /\ Len(d) \in Nat /\ \A k \in 1 .. Len(d) : d[k] \in Nat
  BY LenProperties, ElementOfSeq DEF Enumerates
<1>2. ASSUME NEW k \in 1 .. Len(c), k = 1 \/ k - 1 \in A
      PROVE  k \in A
  <2>1. \A l \in 1 .. k - 1 : l <= Len(d) /\ c[l] = d[l]
    BY <1>2
  <2>2. PICK m \in 1 .. Len(d) : d[m] = c[k]
    BY DEF Enumerates
  <2>3. m >= k
    <3> SUFFICES ASSUME m < k PROVE FALSE
      BY <1>1
    <3>1. m \in 1 .. k - 1 /\ m \in 1 .. Len(c) /\ m < k
      BY <1>1
    <3>2. c[m] = d[m] /\ c[m] < c[k]
      BY <2>1, <3>1 DEF Enumerates
    <3> QED BY <3>2, <2>2, <1>1, <3>1
  <2>4. k \in 1 .. Len(d)
    BY <2>3, <1>1
  <2>5. PICK j \in 1 .. Len(c) : c[j] = d[k]
    BY <2>4 DEF Enumerates
  <2>6. j >= k
    <3> SUFFICES ASSUME j < k PROVE FALSE
      BY <1>1
    <3>1. j \in 1 .. k - 1 /\ j \in 1 .. Len(d) /\ j < k
      BY <1>1, <2>4
    <3>2. c[j] = d[j] /\ d[j] < d[k]
      BY <2>1, <2>4, <3>1 DEF Enumerates
    <3> QED BY <3>2, <2>5, <1>1, <3>1
  <2>7. d[k] <= d[m]
    <3>1. k = m \/ k < m
      BY <2>3
    <3>2. k < m => d[k] < d[m]
      BY <2>4 DEF Enumerates
    <3> QED BY <3>1, <3>2, <2>4, <1>1
  <2>8. c[k] <= c[j]
    <3>1. k = j \/ k < j
      BY <2>6
    <3>2. k < j => c[k] < c[j]
      BY DEF Enumerates
    <3> QED BY <3>1, <3>2, <1>1
  <2>9. c[k] = d[k]
    BY <2>2, <2>4, <2>5, <2>7, <2>8, <1>1
  <2>10. \A l \in 1 .. k : l <= Len(d) /\ c[l] = d[l]
    <3> SUFFICES ASSUME NEW l \in 1 .. k PROVE l <= Len(d) /\ c[l] = d[l]
      OBVIOUS
    <3>1. l = k \/ l \in 1 .. k - 1
      OBVIOUS
    <3> QED BY <3>1, <2>1, <2>4, <2>9, <1>1
  <2> QED BY <2>10
<1>3. \A k \in 1 .. Len(c) : k \in A
  <2> HIDE DEF A
  <2> QED BY <1>1, <1>2, Ascent
<1>4. ASSUME NEW k \in 1 .. Len(c)
      PROVE  k <= Len(d) /\ c[k] = d[k]
  <2>1. k \in 1 .. k
    OBVIOUS
  <2> QED BY <1>3, <2>1
<1> QED BY <1>4

\* ... so that both are the same.
LEMMA EnumOnce ==
  ASSUME NEW S, NEW c, Enumerates(c, S), NEW d, Enumerates(d, S)
  PROVE  c = d
<1>1. c \in Seq(Nat) /\ d \in Seq(Nat) /\ Len(c) \in Nat /\ Len(d) \in Nat
  BY LenProperties DEF Enumerates
<1>2. /\ \A k \in 1 .. Len(c) : k <= Len(d) /\ c[k] = d[k]
      /\ \A k \in 1 .. Len(d) : k <= Len(c)
  BY EnumBelow
<1>3. Len(c) = Len(d)
  <2>1. Len(c) # 0 => Len(c) <= Len(d)
    <3> SUFFICES ASSUME Len(c) # 0 PROVE Len(c) <= Len(d)
      OBVIOUS
    <3>1. Len(c) \in 1 .. Len(c)
      BY <1>1
    <3> QED BY <3>1, <1>2
  <2>2. Len(d) # 0 => Len(d) <= Len(c)
    <3> SUFFICES ASSUME Len(d) # 0 PROVE Len(d) <= Len(c)
      OBVIOUS
    <3>1. Len(d) \in 1 .. Len(d)
      BY <1>1
    <3> QED BY <3>1, <1>2
  <2> QED BY <2>1, <2>2, <1>1
<1> QED BY <1>1, <1>2, <1>3, SeqEqual

LEMMA EnumEmpty == Enumerates(<< >>, {})
<1>1. << >> \in Seq(Nat) /\ Len(<< >>) = 0
  BY EmptySeq
<1> QED BY <1>1 DEF Enumerates

\* One behind the other.
LEMMA EnumCat ==
  ASSUME NEW S, NEW c, Enumerates(c, S), NEW T, NEW d, Enumerates(d, T),
         \A a \in S, b \in T : a < b
  PROVE  Enumerates(c \o d, S \cup T)
<1> DEFINE e == c \o d
<1>1. /\ c \in Seq(Nat) /\ d \in Seq(Nat) /\ Len(c) \in Nat /\ Len(d) \in Nat
      /\ S = {c[k] : k \in 1 .. Len(c)} /\ T = {d[k] : k \in 1 .. Len(d)}
  BY LenProperties DEF Enumerates
<1>2. /\ e \in Seq(Nat) /\ Len(e) = Len(c) + Len(d)
      /\ \A i \in 1 .. Len(c) + Len(d) : e[i] = IF i <= Len(c) THEN c[i] ELSE d[i - Len(c)]
  BY <1>1, ConcatProperties
<1> HIDE DEF e
<1>3. ASSUME NEW i \in 1 .. Len(c)
      PROVE  i \in 1 .. Len(e) /\ e[i] = c[i]
  <2>1. i \in 1 .. Len(c) + Len(d) /\ i <= Len(c)
    BY <1>1
  <2> QED BY <2>1, <1>2
<1>4. ASSUME NEW i \in 1 .. Len(d)
      PROVE  Len(c) + i \in 1 .. Len(e) /\ e[Len(c) + i] = d[i]
  <2>1. /\ Len(c) + i \in 1 .. Len(c) + Len(d) /\ ~(Len(c) + i <= Len(c))
        /\ (Len(c) + i) - Len(c) = i
    BY <1>1
  <2> QED BY <2>1, <1>2
<1>5. ASSUME NEW k \in 1 .. Len(e)
      PROVE  \/ k \in 1 .. Len(c) /\ e[k] = c[k]
             \/ k > Len(c) /\ k - Len(c) \in 1 .. Len(d) /\ e[k] = d[k - Len(c)]
  <2>1. k \in 1 .. Len(c) + Len(d)
    BY <1>2
  <2>2. e[k] = IF k <= Len(c) THEN c[k] ELSE d[k - Len(c)]
    BY <2>1, <1>2
  <2>3. k <= Len(c) => k \in 1 .. Len(c)
    BY <2>1, <1>1
  <2>4. ~(k <= Len(c)) => k > Len(c) /\ k - Len(c) \in 1 .. Len(d)
    BY <2>1, <1>1
  <2> QED BY <2>2, <2>3, <2>4, Zenon
<1>6. S \cup T = {e[k] : k \in 1 .. Len(e)}
  <2>1. ASSUME NEW x \in S PROVE x \in {e[k] : k \in 1 .. Len(e)}
    BY <1>1, <1>3
  <2>2. ASSUME NEW x \in T PROVE x \in {e[k] : k \in 1 .. Len(e)}
    BY <1>1, <1>4
  <2>3. ASSUME NEW k \in 1 .. Len(e) PROVE e[k] \in S \cup T
    BY <1>1, <1>5
  <2> QED BY <2>1, <2>2, <2>3
<1>7. ASSUME NEW j \in 1 .. Len(e), NEW k \in 1 .. Len(e), j < k
      PROVE  e[j] < e[k]
  <2>1. CASE k <= Len(c)
    <3>1. j \in 1 .. Len(c) /\ k \in 1 .. Len(c)
      BY <2>1, <1>1, <1>7
    <3>2. c[j] < c[k]
      BY <3>1, <1>7 DEF Enumerates
    <3> QED BY <3>1, <3>2, <1>3
  <2>2. CASE j > Len(c)
    <3>0. k > Len(c) /\ j \in Nat /\ k \in Nat
      BY <2>2, <1>1, <1>2, <1>7
    <3>1. /\ j - Len(c) \in 1 .. Len(d) /\ k - Len(c) \in 1 .. Len(d)
          /\ j - Len(c) < k - Len(c) /\ e[j] = d[j - Len(c)] /\ e[k] = d[k - Len(c)]
      <4>1. ~(j \in 1 .. Len(c)) /\ ~(k \in 1 .. Len(c)) /\ j - Len(c) < k - Len(c)
        BY <2>2, <3>0, <1>1, <1>7
      <4> QED BY <4>1, <1>5
    <3>2. d[j - Len(c)] < d[k - Len(c)]
      BY <3>1 DEF Enumerates
    <3> QED BY <3>1, <3>2
  <2>3. CASE j <= Len(c) /\ k > Len(c)
    <3>1. /\ j \in 1 .. Len(c) /\ e[j] = c[j]
          /\ k - Len(c) \in 1 .. Len(d) /\ e[k] = d[k - Len(c)]
      <4>1. ~(j > Len(c)) /\ ~(k \in 1 .. Len(c))
        BY <2>3, <1>1, <1>2
      <4> QED BY <4>1, <1>5
    <3>2. e[j] \in S /\ e[k] \in T
      BY <3>1, <1>1
    <3> QED BY <3>2
  <2> QED BY <2>1, <2>2, <2>3, <1>1
<1> QED BY <1>2, <1>6, <1>7 DEF Enumerates, e

\* The numbers from a + 1 to a + n.
LEMMA EnumInterval ==
  ASSUME NEW a \in Nat, NEW n \in Nat
  PROVE  Enumerates([i \in 1 .. n |-> a + i], a + 1 .. a + n)
<1> DEFINE c == [i \in 1 .. n |-> a + i]
<1>1. c \in Seq(Nat) /\ Len(c) = n /\ \A i \in 1 .. n : c[i] = a + i
  OBVIOUS
<1> HIDE DEF c
<1>2. a + 1 .. a + n = {c[k] : k \in 1 .. Len(c)}
  <2>1. ASSUME NEW x \in a + 1 .. a + n PROVE x \in {c[k] : k \in 1 .. Len(c)}
    <3>1. x - a \in 1 .. n /\ a + (x - a) = x
      OBVIOUS
    <3>2. c[x - a] = x
      BY <3>1, <1>1
    <3> QED BY <3>1, <3>2, <1>1
  <2>2. ASSUME NEW k \in 1 .. Len(c) PROVE c[k] \in a + 1 .. a + n
    BY <1>1
  <2> QED BY <2>1, <2>2
<1>3. \A j, k \in 1 .. Len(c) : j < k => c[j] < c[k]
  BY <1>1
<1> QED BY <1>1, <1>2, <1>3 DEF Enumerates, c

\* All numbers moved by a.
LEMMA EnumShift ==
  ASSUME NEW a \in Nat, NEW T, NEW d, Enumerates(d, T)
  PROVE  Enumerates([k \in 1 .. Len(d) |-> a + d[k]], {a + t : t \in T})
<1> DEFINE c == [k \in 1 .. Len(d) |-> a + d[k]]
<1>1. Len(d) \in Nat /\ \A k \in 1 .. Len(d) : d[k] \in Nat
  BY LenProperties, ElementOfSeq DEF Enumerates
<1>2. c \in Seq(Nat) /\ Len(c) = Len(d) /\ \A k \in 1 .. Len(d) : c[k] = a + d[k]
  <2>1. c \in [1 .. Len(d) -> Nat]
    BY <1>1
  <2> QED BY <2>1, <1>1
<1> HIDE DEF c
<1>3. {a + t : t \in T} = {c[k] : k \in 1 .. Len(c)}
  BY <1>2 DEF Enumerates
<1>4. ASSUME NEW j \in 1 .. Len(c), NEW k \in 1 .. Len(c), j < k
      PROVE  c[j] < c[k]
  <2>1. d[j] < d[k]
    BY <1>2, <1>4 DEF Enumerates
  <2> QED BY <2>1, <1>1, <1>2
<1> QED BY <1>2, <1>3, <1>4 DEF Enumerates, c

\* All but the last.
LEMMA EnumFront ==
  ASSUME NEW S, NEW c, Enumerates(c, S), Len(c) # 0
  PROVE  /\ Enumerates(SubSeq(c, 1, Len(c) - 1), S \ {c[Len(c)]})
         /\ c[Len(c)] \in S /\ \A q \in S : q <= c[Len(c)]
<1> DEFINE n == Len(c)
           d == SubSeq(c, 1, n - 1)
<1>1. c \in Seq(Nat) /\ n \in Nat \ {0} /\ \A k \in 1 .. n : c[k] \in Nat
  BY LenProperties, ElementOfSeq DEF Enumerates
<1>2. d \in Seq(Nat) /\ Len(d) = n - 1 /\ \A i \in 1 .. n - 1 : d[i] = c[i]
  <2>1. n - 1 \in 0 .. Len(c)
    BY <1>1
  <2> DEFINE m == n - 1
  <2> HIDE DEF m
  <2>2. /\ SubSeq(c, 1, m) \in Seq(Nat) /\ Len(SubSeq(c, 1, m)) = m
        /\ \A i \in 1 .. m : SubSeq(c, 1, m)[i] = c[i]
    <3>1. c \in Seq(Nat) /\ m \in 0 .. Len(c)
      BY <2>1, <1>1 DEF m
    <3> QED BY ONLY <3>1, Pieces
  <2> QED BY <2>2 DEF m
<1>3. S = {c[k] : k \in 1 .. n}
  BY DEF Enumerates
<1>4. \A j, k \in 1 .. n : j < k => c[j] < c[k]
  BY DEF Enumerates
<1> HIDE DEF n, d
<1>5. n \in 1 .. n /\ \A k \in 1 .. n - 1 : k \in 1 .. n /\ k < n
  BY <1>1
<1>6. \A k \in 1 .. n - 1 : c[k] < c[n]
  BY <1>4, <1>5
<1>7. \A k \in 1 .. n : k = n \/ k \in 1 .. n - 1
  BY <1>1
<1>8. S \ {c[n]} = {d[k] : k \in 1 .. Len(d)}
  <2>1. ASSUME NEW x \in S, x # c[n] PROVE x \in {d[k] : k \in 1 .. Len(d)}
    BY <2>1, <1>2, <1>3, <1>7
  <2>2. ASSUME NEW k \in 1 .. Len(d) PROVE d[k] \in S \ {c[n]}
    <3>1. k \in 1 .. n - 1 /\ d[k] = c[k] /\ k \in 1 .. n
      BY <1>2, <1>5
    <3>2. c[k] < c[n]
      BY <3>1, <1>6
    <3> QED BY <3>1, <3>2, <1>1, <1>3, <1>5
  <2> QED BY <2>1, <2>2
<1>9. \A j, k \in 1 .. Len(d) : j < k => d[j] < d[k]
  BY <1>2, <1>4, <1>5
<1>10. \A q \in S : q <= c[n]
  BY <1>1, <1>3, <1>5, <1>6, <1>7
<1> QED BY <1>2, <1>3, <1>5, <1>8, <1>9, <1>10 DEF Enumerates, n, d

-----------------------------------------------------------------------------
(* Start codes *)

\* A piece of a sequence that another has too, a positions further on.
LEMMA SamePiece ==
  ASSUME NEW S, NEW s \in Seq(S), NEW t \in Seq(S), NEW a \in Nat, NEW m \in Int, NEW n \in Int,
         \A i \in m .. n : i \in 1 .. Len(s) /\ a + i \in 1 .. Len(t) /\ s[i] = t[a + i]
  PROVE  SubSeq(s, m, n) = SubSeq(t, a + m, a + n)
<1> DEFINE p == SubSeq(s, m, n)
           q == SubSeq(t, a + m, a + n)
<1>1. /\ p \in Seq(S) /\ Len(p) = IF m <= n THEN n - m + 1 ELSE 0
      /\ \A i \in 1 .. n - m + 1 : p[i] = s[m + i - 1]
  <2>1. \A i \in m .. n : s[i] \in S
    BY ElementOfSeq
  <2> QED BY <2>1, SubSeqProperties
<1>2. /\ q \in Seq(S) /\ Len(q) = IF a + m <= a + n THEN (a + n) - (a + m) + 1 ELSE 0
      /\ \A i \in 1 .. (a + n) - (a + m) + 1 : q[i] = t[(a + m) + i - 1]
  <2>1. ASSUME NEW j \in a + m .. a + n PROVE t[j] \in S
    <3>1. j - a \in m .. n /\ a + (j - a) = j
      OBVIOUS
    <3>2. j \in 1 .. Len(t)
      BY <3>1
    <3> QED BY <3>2, ElementOfSeq
  <2>2. a + m \in Int /\ a + n \in Int
    OBVIOUS
  <2> HIDE DEF q
  <2> QED BY <2>1, <2>2, SubSeqProperties DEF q
<1>3. (a + n) - (a + m) + 1 = n - m + 1 /\ (a + m <= a + n <=> m <= n)
  OBVIOUS
<1>4. Len(p) = Len(q)
  BY <1>1, <1>2, <1>3
<1>5. ASSUME NEW i \in 1 .. Len(p) PROVE p[i] = q[i]
  <2>1. i \in 1 .. n - m + 1 /\ m + i - 1 \in m .. n /\ a + (m + i - 1) = (a + m) + i - 1
    BY <1>1
  <2>2. s[m + i - 1] = t[a + (m + i - 1)]
    BY <2>1
  <2> HIDE DEF p, q
  <2> QED BY <2>1, <2>2, <1>1, <1>2, <1>3
<1> HIDE DEF p, q
<1>6. p = q
  BY <1>1, <1>2, <1>4, <1>5, SeqEqual
<1> QED BY <1>6 DEF p, q

\* The four bytes of a start code.
LEMMA CodeIs ==
  ASSUME NEW S, NEW s \in Seq(S), NEW p \in Nat \ {0}
  PROVE  CodeAt(s, p) <=> /\ p + 3 <= Len(s) /\ s[p] = 0 /\ s[p + 1] = 0
                          /\ s[p + 2] = 0 /\ s[p + 3] = 1
<1>1. Len(s) \in Nat
  BY LenProperties
<1> SUFFICES ASSUME p + 3 <= Len(s)
             PROVE  SubSeq(s, p, p + 3) = START_CODE <=>
                      s[p] = 0 /\ s[p + 1] = 0 /\ s[p + 2] = 0 /\ s[p + 3] = 1
  BY <1>1 DEF CodeAt
<1> DEFINE t == SubSeq(s, p, p + 3)
<1>2. \A i \in p .. p + 3 : i \in 1 .. Len(s)
  BY <1>1
<1>3. \A i \in p .. p + 3 : s[i] \in S
  BY <1>2, ElementOfSeq
<1>4. /\ t \in Seq(S) /\ Len(t) = IF p <= p + 3 THEN (p + 3) - p + 1 ELSE 0
      /\ \A i \in 1 .. (p + 3) - p + 1 : t[i] = s[p + i - 1]
  <2>1. p + 3 \in Int
    OBVIOUS
  <2> QED BY <2>1, <1>3, SubSeqProperties
<1>5. /\ (p + 3) - p + 1 = 4 /\ p <= p + 3
      /\ p + 1 - 1 = p /\ p + 2 - 1 = p + 1 /\ p + 3 - 1 = p + 2 /\ p + 4 - 1 = p + 3
  OBVIOUS
<1> HIDE DEF t
<1>6. Len(t) = 4 /\ t[1] = s[p] /\ t[2] = s[p + 1] /\ t[3] = s[p + 2] /\ t[4] = s[p + 3]
  <2>1. \A i \in 1 .. 4 : t[i] = s[p + i - 1]
    BY <1>4, <1>5
  <2>2. 1 \in 1 .. 4 /\ 2 \in 1 .. 4 /\ 3 \in 1 .. 4 /\ 4 \in 1 .. 4
    OBVIOUS
  <2> QED BY <2>1, <2>2, <1>4, <1>5
<1>7. ASSUME s[p] = 0, s[p + 1] = 0, s[p + 2] = 0, s[p + 3] = 1
      PROVE  t = START_CODE
  <2>1. DOMAIN t = 1 .. 4 /\ t = [i \in 1 .. 4 |-> t[i]]
    BY <1>4, <1>6, LenProperties
  <2>2. t \in Seq(S \cup Nat) /\ START_CODE \in Seq(S \cup Nat) /\ Len(START_CODE) = 4
    BY <1>4, SeqMonotonic DEF START_CODE
  <2>3. \A i \in 1 .. 4 : i = 1 \/ i = 2 \/ i = 3 \/ i = 4
    OBVIOUS
  <2>4. START_CODE[1] = 0 /\ START_CODE[2] = 0 /\ START_CODE[3] = 0 /\ START_CODE[4] = 1
    BY DEF START_CODE
  <2>5. \A i \in 1 .. Len(t) : t[i] = START_CODE[i]
    BY <1>6, <1>7, <2>3, <2>4
  <2> QED BY <2>2, <2>5, <1>6, SeqEqual
<1>8. ASSUME t = START_CODE
      PROVE  s[p] = 0 /\ s[p + 1] = 0 /\ s[p + 2] = 0 /\ s[p + 3] = 1
  <2>1. START_CODE[1] = 0 /\ START_CODE[2] = 0 /\ START_CODE[3] = 0 /\ START_CODE[4] = 1
    BY DEF START_CODE
  <2> QED BY <2>1, <1>6, <1>8
<1> QED BY <1>7, <1>8 DEF t

\* Where the codes in s stand.
Codes(s) == {p \in 1 .. Len(s) : CodeAt(s, p)}

\* Codes do not overlap.
LEMMA CodesApart ==
  ASSUME NEW S, NEW s \in Seq(S), NEW p \in Codes(s), NEW q \in Codes(s), p < q
  PROVE  p + 4 <= q
<1>1. /\ p \in Nat \ {0} /\ q \in Nat \ {0} /\ Len(s) \in Nat
      /\ CodeAt(s, p) /\ CodeAt(s, q)
  BY LenProperties DEF Codes
<1>2. /\ s[p + 1] = 0 /\ s[p + 2] = 0 /\ s[p + 3] = 1
      /\ s[q] = 0 /\ s[q + 1] = 0 /\ s[q + 2] = 0
  BY <1>1, CodeIs
<1>3. q # p + 3 /\ q # p + 2 /\ q # p + 1
  <2>1. 0 # 1
    OBVIOUS
  <2>2. q # p + 3
    BY <2>1, <1>2
  <2>3. q # p + 2
    <3>1. q = p + 2 => q + 1 = p + 3
      BY <1>1
    <3> QED BY <2>1, <3>1, <1>2
  <2>4. q # p + 1
    <3>1. q = p + 1 => q + 2 = p + 3
      BY <1>1
    <3> QED BY <2>1, <3>1, <1>2
  <2> QED BY <2>2, <2>3, <2>4
<1> QED BY <1>1, <1>3

\* A code lies in its sequence.
LEMMA CodeInside ==
  ASSUME NEW S, NEW s \in Seq(S), NEW p \in Codes(s)
  PROVE  p \in Nat \ {0} /\ Len(s) \in Nat /\ p + 3 <= Len(s)
BY LenProperties DEF Codes, CodeAt

\* What the search finds from p on, if f tells that of what is behind p.
CodesFound(s, f, p) == IF p = Len(s) + 1 THEN << >>
                       ELSE IF CodeAt(s, p) THEN << p >> \o f[p + 4]
                       ELSE f[p + 1]
Search(s, f) == f = [p \in 1 .. Len(s) + 1 |-> CodesFound(s, f, p)]

\* There is such an f, and the search begins at the first position.
LEMMA SearchExists ==
  ASSUME NEW S, NEW s \in Seq(S)
  PROVE  \E f : Search(s, f) /\ Positions(s) = f[1]
<1> DEFINE N == Len(s) + 1
<1>1. N \in Nat /\ N >= 1 /\ Len(s) \in Nat
  BY LenProperties
<1> DEFINE A == {p \in 1 .. N : \E f : f = [q \in p .. N |-> CodesFound(s, f, q)]}
<1>2. ASSUME NEW p \in 1 .. N, \A q \in p + 1 .. N : q \in A
      PROVE  p \in A
  <2>1. PICK f : f = [q \in p + 1 .. N |-> CodesFound(s, f, q)]
    <3>1. CASE p = N
      <4>1. \A h : {} = p + 1 .. N
        BY <3>1, <1>1
      <4>2. [q \in {} |-> 0] = [q \in p + 1 .. N |-> CodesFound(s, [x \in {} |-> 0], q)]
        BY <4>1
      <4> QED BY <4>2
    <3>2. CASE p # N
      BY <3>2, <1>2, <1>1
    <3> QED BY <3>1, <3>2
  <2> DEFINE g == [q \in p .. N |-> IF q = p THEN CodesFound(s, f, p) ELSE f[q]]
  <2>2. ASSUME NEW q \in p .. N
        PROVE  CodesFound(s, f, q) = CodesFound(s, g, q)
    <3>1. \A r \in q + 1 .. N : g[r] = f[r]
      BY <1>1
    <3>2. CASE q = N
      BY <3>2 DEF CodesFound
    <3>3. CASE q # N
      <4>1. q + 1 \in q + 1 .. N
        BY <3>3, <1>1
      <4>2. CodeAt(s, q) => q + 4 \in q + 1 .. N
        BY <3>3, <1>1 DEF CodeAt
      <4> HIDE DEF g, N
      <4>3. f[q + 1] = g[q + 1] /\ (CodeAt(s, q) => f[q + 4] = g[q + 4])
        BY <3>1, <4>1, <4>2
      <4> QED BY <4>3 DEF CodesFound
    <3> QED BY <3>2, <3>3
  <2>3. ASSUME NEW q \in p .. N
        PROVE  g[q] = CodesFound(s, g, q)
    <3>1. CASE q = p
      BY <3>1, <2>2
    <3>2. CASE q # p
      <4>1. q \in p + 1 .. N
        BY <3>2
      <4>2. f[q] = CodesFound(s, f, q)
        BY <4>1, <2>1
      <4>3. g[q] = f[q]
        BY <3>2
      <4> QED BY <4>2, <4>3, <2>2
    <3> QED BY <3>1, <3>2
  <2>4. g = [q \in p .. N |-> CodesFound(s, g, q)]
    BY <2>3
  <2> HIDE DEF g
  <2> QED BY <2>4
<1> HIDE DEF A
<1>3. 1 \in A
  <2>1. \A p \in 1 .. N : p \in A
    <3> HIDE DEF N
    <3> QED BY <1>1, <1>2, Descent
  <2> QED BY <2>1, <1>1
<1>4. \E f : Search(s, f)
  BY <1>3 DEF A, Search
<1> DEFINE F == CHOOSE f : f = [p \in 1 .. Len(s) + 1 |->
            IF p = Len(s) + 1 THEN << >>
            ELSE IF CodeAt(s, p) THEN << p >> \o f[p + 4]
            ELSE f[p + 1]]
<1>5. Positions(s) = F[1]
  BY Zenon DEF Positions
<1>6. Search(s, F)
  BY <1>4, Zenon DEF Search, CodesFound
<1> QED BY <1>5, <1>6

\* The search finds all codes.
LEMMA PositionsAre ==
  ASSUME NEW S, NEW s \in Seq(S)
  PROVE  Enumerates(Positions(s), Codes(s))
<1>1. PICK f : Search(s, f) /\ Positions(s) = f[1]
  BY SearchExists
<1> DEFINE N == Len(s) + 1
           From(p) == {q \in Codes(s) : q >= p}
           A == {p \in 1 .. N : Enumerates(f[p], From(p))}
<1>2. N \in Nat /\ N >= 1 /\ Len(s) \in Nat /\ \A q \in Codes(s) : q \in Nat \ {0} /\ q + 3 <= Len(s)
  BY LenProperties, CodeInside
<1>3. \A p \in 1 .. N : f[p] = CodesFound(s, f, p)
  BY <1>1 DEF Search
<1>4. ASSUME NEW p \in 1 .. N, \A q \in p + 1 .. N : q \in A
      PROVE  p \in A
  <2>1. CASE p = N
    <3>1. From(p) = {}
      BY <1>2, <2>1
    <3>2. f[p] = << >>
      BY <1>3, <2>1 DEF CodesFound
    <3> QED BY <3>1, <3>2, EnumEmpty
  <2>2. CASE p # N /\ ~CodeAt(s, p)
    <3>1. p + 1 \in p + 1 .. N /\ p \in 1 .. Len(s)
      BY <2>2, <1>2
    <3>2. f[p] = f[p + 1]
      BY <1>3, <2>2 DEF CodesFound
    <3>3. From(p) = From(p + 1)
      <4>1. \A q \in Codes(s) : q # p
        BY <2>2 DEF Codes
      <4> QED BY <4>1, <1>2
    <3>4. Enumerates(f[p + 1], From(p + 1))
      BY <1>4, <3>1
    <3> QED BY <3>2, <3>3, <3>4
  <2>3. CASE p # N /\ CodeAt(s, p)
    <3>1. p \in 1 .. Len(s) /\ p \in Codes(s)
      BY <2>3, <1>2 DEF Codes
    <3>2. p + 4 \in p + 1 .. N
      BY <3>1, <1>2
    <3>3. f[p] = << p >> \o f[p + 4]
      BY <1>3, <2>3 DEF CodesFound
    <3>4. From(p) = {p} \cup From(p + 4)
      <4>1. \A q \in Codes(s) : q > p => q >= p + 4
        BY <3>1, CodesApart, <1>2
      <4>2. \A q \in Codes(s) : q >= p => q = p \/ q >= p + 4
        BY <4>1, <1>2
      <4>3. \A q : q \in From(p) <=> q \in {p} \cup From(p + 4)
        <5>1. ASSUME NEW q \in From(p) PROVE q \in {p} \cup From(p + 4)
          BY <4>2
        <5>2. p \in From(p)
          BY <3>1, <1>2
        <5>3. ASSUME NEW q \in From(p + 4) PROVE q \in From(p)
          BY <3>1, <1>2
        <5> QED BY <5>1, <5>2, <5>3
      <4> HIDE DEF From
      <4> QED BY <4>3, Zenon
    <3>5. Enumerates(f[p + 4], From(p + 4))
      BY <1>4, <3>2
    <3>6. Enumerates(<< p >>, {p})
      <4>1. << p >> \in Seq(Nat) /\ Len(<< p >>) = 1 /\ << p >>[1] = p
        BY <3>1
      <4> QED BY <4>1 DEF Enumerates
    <3>7. \A a \in {p}, b \in From(p + 4) : a < b
      BY <1>2, <3>1
    <3> HIDE DEF From
    <3>8. Enumerates(<< p >> \o f[p + 4], {p} \cup From(p + 4))
      BY <3>5, <3>6, <3>7, EnumCat
    <3> QED BY <3>3, <3>4, <3>8
  <2> QED BY <2>1, <2>2, <2>3
<1>5. \A p \in 1 .. N : p \in A
  <2> HIDE DEF A, N
  <2> QED BY <1>2, <1>4, Descent
<1>6. Enumerates(f[1], From(1))
  <2>1. 1 \in 1 .. N
    BY <1>2
  <2>2. 1 \in A
    BY <1>5, <2>1
  <2> QED BY <2>2
<1>7. From(1) = Codes(s)
  BY <1>2
<1> QED BY <1>1, <1>6, <1>7

-----------------------------------------------------------------------------
(* What is split off *)

\* The codes of s in their order.
LEMMA PositionsTyped ==
  ASSUME NEW s \in Seq(Nat)
  PROVE  LET c == Positions(s)
         IN  /\ c \in Seq(Nat) /\ Len(c) \in Nat /\ Len(s) \in Nat
             /\ \A j \in 1 .. Len(c) : c[j] \in Nat \ {0} /\ c[j] + 3 <= Len(s) /\ c[j] \in Codes(s)
             /\ \A j \in 1 .. Len(c) : j + 1 \in 1 .. Len(c) => c[j] + 4 <= c[j + 1]
             /\ \A p \in Codes(s) : \E j \in 1 .. Len(c) : c[j] = p
             /\ \A j, k \in 1 .. Len(c) : j < k => c[j] < c[k]
<1> DEFINE c == Positions(s)
<1>1. Enumerates(c, Codes(s))
  BY PositionsAre
<1> HIDE DEF c
<1>2. c \in Seq(Nat) /\ Len(c) \in Nat /\ Len(s) \in Nat
  BY <1>1, LenProperties DEF Enumerates
<1>3. \A j \in 1 .. Len(c) : c[j] \in Codes(s)
  BY <1>1 DEF Enumerates
<1>4. \A j \in 1 .. Len(c) : c[j] \in Nat \ {0} /\ c[j] + 3 <= Len(s)
  BY <1>3, CodeInside
<1>5. \A p \in Codes(s) : \E j \in 1 .. Len(c) : c[j] = p
  BY <1>1 DEF Enumerates
<1>6. \A j, k \in 1 .. Len(c) : j < k => c[j] < c[k]
  BY <1>1 DEF Enumerates
<1>7. ASSUME NEW j \in 1 .. Len(c), j + 1 \in 1 .. Len(c)
      PROVE  c[j] + 4 <= c[j + 1]
  <2>1. j < j + 1
    BY <1>2
  <2>2. c[j] < c[j + 1]
    BY <1>6, <1>7, <2>1
  <2> QED BY <1>3, <1>7, <2>2, CodesApart
<1> QED BY <1>2, <1>3, <1>4, <1>5, <1>6, <1>7 DEF c

\* What is split off and what is kept are bytes.
LEMMA SplitIs ==
  ASSUME NEW s \in Seq(Nat)
  PROVE  LET c == Positions(s)
             n == Split(s).nals
         IN  /\ n \in Seq(Seq(Nat)) /\ Len(n) = (IF Len(c) < 2 THEN 0 ELSE Len(c) - 1)
             /\ \A j \in 1 .. Len(n) : /\ j \in 1 .. Len(c) /\ j + 1 \in 1 .. Len(c)
                                       /\ n[j] = SubSeq(s, c[j] + 4, c[j + 1] - 1)
             /\ Split(s).rest \in Seq(Nat)
             /\ Split(s).rest = IF Len(c) < 2 THEN s ELSE SubSeq(s, c[Len(c)], Len(s))
<1> DEFINE c == Positions(s)
           n == Split(s).nals
<1>1. /\ c \in Seq(Nat) /\ Len(c) \in Nat /\ Len(s) \in Nat
      /\ \A j \in 1 .. Len(c) : c[j] \in Nat \ {0} /\ c[j] + 3 <= Len(s)
  BY PositionsTyped
<1>2. /\ n = Between(s, c)
      /\ Split(s).rest = IF Len(c) < 2 THEN s ELSE SubSeq(s, Last(c), Len(s))
  BY DEF Split
<1>3. \A i \in 1 .. Len(s) : s[i] \in Nat
  BY ElementOfSeq
<1> HIDE DEF c, n
<1>4. ASSUME NEW j \in 1 .. Len(c) - 1
      PROVE  /\ j \in 1 .. Len(c) /\ j + 1 \in 1 .. Len(c)
             /\ SubSeq(s, c[j] + 4, c[j + 1] - 1) \in Seq(Nat)
  <2>1. j \in 1 .. Len(c) /\ j + 1 \in 1 .. Len(c)
    BY <1>1
  <2>2. c[j] \in Nat \ {0} /\ c[j + 1] \in Nat \ {0} /\ c[j + 1] + 3 <= Len(s)
    BY <1>1, <2>1
  <2> DEFINE a == c[j]
             b == c[j + 1]
             l == Len(s)
  <2>3. a \in Nat \ {0} /\ b \in Nat \ {0} /\ b + 3 <= l /\ l \in Nat
    BY <2>2, <1>1
  <2> HIDE DEF a, b, l
  <2>4. a + 4 \in Int /\ b - 1 \in Int /\ \A i \in a + 4 .. b - 1 : i \in 1 .. l
    BY <2>3
  <2>5. \A i \in a + 4 .. b - 1 : s[i] \in Nat
    BY <2>4, <1>3 DEF l
  <2>6. SubSeq(s, a + 4, b - 1) \in Seq(Nat)
    BY <2>4, <2>5, SubSeqProperties
  <2> QED BY <2>1, <2>6 DEF a, b
<1> DEFINE m == IF Len(c) < 2 THEN 0 ELSE Len(c) - 1
<1>5. m \in Nat /\ 1 .. Len(c) - 1 = 1 .. m
  BY <1>1
<1> HIDE DEF m
<1>6. n = [j \in 1 .. m |-> SubSeq(s, c[j] + 4, c[j + 1] - 1)]
  BY <1>2, <1>5 DEF Between
<1>7. /\ n \in [1 .. m -> Seq(Nat)]
      /\ \A j \in 1 .. m : n[j] = SubSeq(s, c[j] + 4, c[j + 1] - 1)
  BY <1>4, <1>5, <1>6
<1>8. n \in Seq(Seq(Nat)) /\ Len(n) = m
  BY <1>5, <1>7
<1>9. Split(s).rest \in Seq(Nat)
  <2>1. CASE Len(c) < 2
    BY <2>1, <1>2
  <2>2. CASE ~(Len(c) < 2)
    <3>1. Len(c) \in 1 .. Len(c)
      BY <1>1, <2>2
    <3>2. c[Len(c)] \in Nat \ {0}
      BY <1>1, <3>1
    <3>3. \A i \in c[Len(c)] .. Len(s) : s[i] \in Nat
      BY <1>1, <1>3, <3>2
    <3>4. SubSeq(s, c[Len(c)], Len(s)) \in Seq(Nat)
      BY <1>1, <3>2, <3>3, SubSeqProperties
    <3> QED BY <1>2, <2>2, <3>4 DEF Last
  <2> QED BY <2>1, <2>2
<1> QED BY <1>2, <1>4, <1>5, <1>7, <1>8, <1>9 DEF c, n, m, Last

\* U is R with D behind it, and W is the same, but for what is before the last code of R.
Behind(R, D, L, T, U, W) ==
  /\ R \in Seq(Nat) /\ D \in Seq(Nat) /\ L \in Codes(R) /\ \A p \in Codes(R) : p <= L
  /\ T = SubSeq(R, L, Len(R)) /\ U = R \o D /\ W = T \o D

\* Their codes.
LEMMA CodesCat ==
  ASSUME NEW R, NEW D, NEW L, NEW T, NEW U, NEW W, Behind(R, D, L, T, U, W)
  PROVE  /\ T \in Seq(Nat) /\ Len(T) = Len(R) - L + 1
         /\ \A x \in 1 .. Len(W) : L - 1 + x \in 1 .. Len(U) /\ W[x] = U[L - 1 + x]
         /\ Codes(U) = (Codes(R) \ {L}) \cup {(L - 1) + t : t \in Codes(W)}
         /\ 1 \in Codes(W)
<1>0. /\ R \in Seq(Nat) /\ D \in Seq(Nat) /\ L \in Codes(R) /\ \A p \in Codes(R) : p <= L
      /\ T = SubSeq(R, L, Len(R)) /\ U = R \o D /\ W = T \o D
  BY DEF Behind
<1>1. L \in Nat \ {0} /\ Len(R) \in Nat /\ L + 3 <= Len(R) /\ Len(D) \in Nat
  BY <1>0, CodeInside, LenProperties
<1>2. /\ T \in Seq(Nat) /\ Len(T) = Len(R) - L + 1
      /\ \A x \in 1 .. Len(R) - L + 1 : T[x] = R[L + x - 1]
  <2>1. ASSUME NEW i \in L .. Len(R) PROVE R[i] \in Nat
    <3>1. i \in 1 .. Len(R)
      BY <1>1
    <3> QED BY <3>1, <1>0, ElementOfSeq
  <2>2. /\ T \in Seq(Nat) /\ Len(T) = IF L <= Len(R) THEN Len(R) - L + 1 ELSE 0
        /\ \A x \in 1 .. Len(R) - L + 1 : T[x] = R[L + x - 1]
    <3>1. L \in Int /\ Len(R) \in Int /\ \A i \in L .. Len(R) : R[i] \in Nat
      BY <2>1, <1>1
    <3>2. /\ SubSeq(R, L, Len(R)) \in Seq(Nat)
          /\ Len(SubSeq(R, L, Len(R))) = IF L <= Len(R) THEN Len(R) - L + 1 ELSE 0
          /\ \A x \in 1 .. Len(R) - L + 1 : SubSeq(R, L, Len(R))[x] = R[L + x - 1]
      BY <3>1, SubSeqProperties
    <3> QED BY <3>2, <1>0
  <2> QED BY <2>2, <1>1
<1>3. /\ U \in Seq(Nat) /\ Len(U) = Len(R) + Len(D)
      /\ \A i \in 1 .. Len(R) + Len(D) : U[i] = IF i <= Len(R) THEN R[i] ELSE D[i - Len(R)]
  BY <1>0, ConcatProperties
<1>4. /\ W \in Seq(Nat) /\ Len(W) = Len(T) + Len(D)
      /\ \A i \in 1 .. Len(T) + Len(D) : W[i] = IF i <= Len(T) THEN T[i] ELSE D[i - Len(T)]
  BY <1>0, <1>2, ConcatProperties
<1>5. ASSUME NEW x \in 1 .. Len(W)
      PROVE  L - 1 + x \in 1 .. Len(U) /\ W[x] = U[L - 1 + x]
  <2>1. x \in 1 .. Len(T) + Len(D) /\ L - 1 + x \in 1 .. Len(R) + Len(D)
    BY <1>1, <1>2, <1>4
  <2>2. W[x] = IF x <= Len(T) THEN T[x] ELSE D[x - Len(T)]
    BY <2>1, <1>4
  <2>3. U[L - 1 + x] = IF L - 1 + x <= Len(R) THEN R[L - 1 + x] ELSE D[(L - 1 + x) - Len(R)]
    BY <2>1, <1>3
  <2>4. CASE x <= Len(T)
    <3>1. x \in 1 .. Len(R) - L + 1 /\ L - 1 + x <= Len(R) /\ L + x - 1 = L - 1 + x
      BY <2>4, <1>1, <1>2
    <3> QED BY <3>1, <2>1, <2>2, <2>3, <2>4, <1>2, <1>3
  <2>5. CASE ~(x <= Len(T))
    <3>a. x \in Int /\ L \in Int /\ Len(R) \in Int /\ Len(T) = Len(R) - L + 1
      BY <1>1, <1>2
    <3>1. ~(L - 1 + x <= Len(R)) /\ x - Len(T) = (L - 1 + x) - Len(R)
      BY <2>5, <3>a
    <3> QED BY <3>1, <2>1, <2>2, <2>3, <2>5, <1>3
  <2> QED BY <2>4, <2>5
<1>6. Len(U) = Len(W) + (L - 1) /\ Len(W) \in Nat /\ Len(U) \in Nat
  BY <1>1, <1>2, <1>3, <1>4
<1>7. ASSUME NEW t \in Nat \ {0}
      PROVE  CodeAt(W, t) <=> CodeAt(U, (L - 1) + t)
  <2>1. (L - 1) + t \in Nat \ {0}
    BY <1>1
  <2>2. t + 3 <= Len(W) <=> (L - 1) + t + 3 <= Len(U)
    BY <1>1, <1>6
  <2>3. ASSUME t + 3 <= Len(W)
        PROVE  /\ W[t] = U[(L - 1) + t] /\ W[t + 1] = U[(L - 1) + t + 1]
               /\ W[t + 2] = U[(L - 1) + t + 2] /\ W[t + 3] = U[(L - 1) + t + 3]
    <3>1. t \in 1 .. Len(W) /\ t + 1 \in 1 .. Len(W) /\ t + 2 \in 1 .. Len(W) /\ t + 3 \in 1 .. Len(W)
      BY <2>3, <1>6
    <3>2. /\ L - 1 + (t + 1) = (L - 1) + t + 1 /\ L - 1 + (t + 2) = (L - 1) + t + 2
          /\ L - 1 + (t + 3) = (L - 1) + t + 3
      BY <1>1
    <3>3. /\ W[t] = U[L - 1 + t] /\ W[t + 1] = U[L - 1 + (t + 1)]
          /\ W[t + 2] = U[L - 1 + (t + 2)] /\ W[t + 3] = U[L - 1 + (t + 3)]
      BY <3>1, <1>5, Zenon
    <3> QED BY <3>2, <3>3
  <2>4. CodeAt(W, t) <=> /\ t + 3 <= Len(W) /\ W[t] = 0 /\ W[t + 1] = 0
                         /\ W[t + 2] = 0 /\ W[t + 3] = 1
    BY <1>4, CodeIs
  <2>5. CodeAt(U, (L - 1) + t) <=>
          /\ (L - 1) + t + 3 <= Len(U) /\ U[(L - 1) + t] = 0 /\ U[(L - 1) + t + 1] = 0
          /\ U[(L - 1) + t + 2] = 0 /\ U[(L - 1) + t + 3] = 1
    BY <2>1, <1>3, CodeIs
  <2> QED BY <2>2, <2>3, <2>4, <2>5
<1>8. ASSUME NEW p \in 1 .. Len(R), p + 3 <= Len(R)
      PROVE  CodeAt(U, p) <=> CodeAt(R, p)
  <2>1. /\ p \in 1 .. Len(R) + Len(D) /\ p + 1 \in 1 .. Len(R) + Len(D)
        /\ p + 2 \in 1 .. Len(R) + Len(D) /\ p + 3 \in 1 .. Len(R) + Len(D)
        /\ p <= Len(R) /\ p + 1 <= Len(R) /\ p + 2 <= Len(R) /\ p + 3 <= Len(U)
        /\ p \in Nat \ {0}
    <3>1. Len(R) \in Nat /\ Len(D) \in Nat /\ Len(U) = Len(R) + Len(D)
      BY <1>1, <1>3
    <3> QED BY <3>1, <1>8
  <2>2. U[p] = R[p] /\ U[p + 1] = R[p + 1] /\ U[p + 2] = R[p + 2] /\ U[p + 3] = R[p + 3]
    BY <2>1, <1>3, <1>8
  <2>3. CodeAt(U, p) <=> /\ p + 3 <= Len(U) /\ U[p] = 0 /\ U[p + 1] = 0
                         /\ U[p + 2] = 0 /\ U[p + 3] = 1
    <3>1. p \in Nat \ {0} /\ U \in Seq(Nat)
      BY <2>1, <1>3
    <3> QED BY <3>1, CodeIs
  <2>4. CodeAt(R, p) <=> /\ p + 3 <= Len(R) /\ R[p] = 0 /\ R[p + 1] = 0
                         /\ R[p + 2] = 0 /\ R[p + 3] = 1
    BY <2>1, <1>0, CodeIs
  <2> QED BY <1>8, <2>1, <2>2, <2>3, <2>4
<1>9. \A p \in Codes(R) : p \in 1 .. Len(R) /\ p + 3 <= Len(R) /\ p \in Codes(U)
  <2> SUFFICES ASSUME NEW p \in Codes(R)
               PROVE  p \in 1 .. Len(R) /\ p + 3 <= Len(R) /\ p \in Codes(U)
    OBVIOUS
  <2>1. p \in 1 .. Len(R) /\ p + 3 <= Len(R) /\ CodeAt(R, p)
    BY <1>0, <1>1, CodeInside DEF Codes
  <2>2. CodeAt(U, p) /\ p \in 1 .. Len(U)
    BY <2>1, <1>1, <1>3, <1>8
  <2> QED BY <2>1, <2>2 DEF Codes
<1>10. ASSUME NEW p \in Codes(U), p < L
       PROVE  p \in Codes(R) \ {L}
  <2>0. p \in Nat \ {0} /\ CodeAt(U, p)
    BY <1>3, CodeInside DEF Codes
  <2>1. p # L /\ p \in 1 .. Len(R) /\ p + 3 <= Len(R)
    BY <2>0, <1>1, <1>10
  <2>2. CodeAt(R, p)
    BY <2>0, <2>1, <1>8
  <2> QED BY <2>1, <2>2 DEF Codes
<1>11. ASSUME NEW p \in Codes(U), p >= L
       PROVE  p \in {(L - 1) + t : t \in Codes(W)}
  <2>1. p \in Nat \ {0} /\ p + 3 <= Len(U) /\ CodeAt(U, p)
    BY <1>3, CodeInside DEF Codes
  <2>2. p - (L - 1) \in Nat \ {0} /\ (L - 1) + (p - (L - 1)) = p /\ p - (L - 1) \in 1 .. Len(W)
    BY <2>1, <1>1, <1>6, <1>11
  <2>3. CodeAt(W, p - (L - 1))
    BY <2>1, <2>2, <1>7
  <2>4. p - (L - 1) \in Codes(W)
    BY <2>2, <2>3 DEF Codes
  <2> QED BY <2>2, <2>4
<1>12. ASSUME NEW t \in Codes(W)
       PROVE  (L - 1) + t \in Codes(U)
  <2>1. t \in Nat \ {0} /\ t + 3 <= Len(W) /\ CodeAt(W, t)
    BY <1>4, CodeInside DEF Codes
  <2>2. CodeAt(U, (L - 1) + t) /\ (L - 1) + t \in 1 .. Len(U)
    BY <2>1, <1>1, <1>6, <1>7
  <2> QED BY <2>2 DEF Codes
<1>13. Codes(U) = (Codes(R) \ {L}) \cup {(L - 1) + t : t \in Codes(W)}
  <2>1. ASSUME NEW p \in Codes(U) PROVE p < L \/ p >= L
    <3>1. p \in Nat
      BY <1>3, CodeInside
    <3> QED BY <3>1, <1>1
  <2> QED BY <2>1, <1>9, <1>10, <1>11, <1>12
<1>14. 1 \in Codes(W)
  <2>1. CodeAt(U, L)
    BY <1>0, <1>9 DEF Codes
  <2>2. (L - 1) + 1 = L /\ 1 \in Nat \ {0} /\ 1 \in 1 .. Len(W)
    <3>1. Len(W) = (Len(R) - L + 1) + Len(D)
      BY <1>2, <1>4
    <3> QED BY <3>1, <1>1
  <2>3. CodeAt(W, 1)
    BY <2>1, <2>2, <1>7
  <2> QED BY <2>2, <2>3 DEF Codes
<1> QED BY <1>2, <1>5, <1>13, <1>14

\* It does not matter where the bytes are cut: R was split first, and what was kept of
\* it is split again with D behind it.
LEMMA SplitCat ==
  ASSUME NEW R \in Seq(Nat), NEW D \in Seq(Nat)
  PROVE  LET T == Split(R).rest
         IN  /\ T \in Seq(Nat)
             /\ Split(R \o D).nals = Split(R).nals \o Split(T \o D).nals
             /\ Split(R \o D).rest = Split(T \o D).rest
<1> DEFINE T == Split(R).rest
           U == R \o D
           W == T \o D
           c == Positions(R)
           e == Positions(W)
           d == Positions(U)
           n == Len(c)
<1>1. /\ Split(R).nals \in Seq(Seq(Nat)) /\ Len(Split(R).nals) = (IF n < 2 THEN 0 ELSE n - 1)
      /\ \A j \in 1 .. Len(Split(R).nals) : /\ j \in 1 .. n /\ j + 1 \in 1 .. n
                                            /\ Split(R).nals[j] = SubSeq(R, c[j] + 4, c[j + 1] - 1)
      /\ T \in Seq(Nat) /\ T = IF n < 2 THEN R ELSE SubSeq(R, c[n], Len(R))
  BY SplitIs
<1>2. U \in Seq(Nat) /\ W \in Seq(Nat) /\ Len(R) \in Nat /\ Len(U) \in Nat /\ Len(W) \in Nat
  BY <1>1, ConcatProperties, LenProperties
<1>3. /\ Split(W).nals \in Seq(Seq(Nat)) /\ Len(Split(W).nals) = (IF Len(e) < 2 THEN 0 ELSE Len(e) - 1)
      /\ \A j \in 1 .. Len(Split(W).nals) : /\ j \in 1 .. Len(e) /\ j + 1 \in 1 .. Len(e)
                                            /\ Split(W).nals[j] = SubSeq(W, e[j] + 4, e[j + 1] - 1)
      /\ Split(W).rest = IF Len(e) < 2 THEN W ELSE SubSeq(W, e[Len(e)], Len(W))
  BY <1>2, SplitIs
<1>4. /\ Split(U).nals \in Seq(Seq(Nat)) /\ Len(Split(U).nals) = (IF Len(d) < 2 THEN 0 ELSE Len(d) - 1)
      /\ \A j \in 1 .. Len(Split(U).nals) : /\ j \in 1 .. Len(d) /\ j + 1 \in 1 .. Len(d)
                                            /\ Split(U).nals[j] = SubSeq(U, d[j] + 4, d[j + 1] - 1)
      /\ Split(U).rest = IF Len(d) < 2 THEN U ELSE SubSeq(U, d[Len(d)], Len(U))
  BY <1>2, SplitIs
<1>5. /\ Enumerates(c, Codes(R)) /\ Enumerates(d, Codes(U)) /\ Enumerates(e, Codes(W))
      /\ c \in Seq(Nat) /\ n \in Nat /\ Len(e) \in Nat /\ Len(d) \in Nat
  BY <1>2, PositionsAre, PositionsTyped
<1>6. CASE n < 2
  <2>1. T = R /\ Split(R).nals = << >>
    <3>1. Len(Split(R).nals) = 0
      BY <1>1, <1>6
    <3> QED BY <1>1, <1>6, <3>1, EmptySeq
  <2>2. << >> \o Split(W).nals = Split(W).nals
    BY <1>3, ConcatEmptySeq
  <2> QED BY <2>1, <2>2, <1>1
<1>7. CASE ~(n < 2)
  <2> DEFINE L == c[n]
             a == L - 1
             sh == [k \in 1 .. Len(e) |-> a + e[k]]
             fr == SubSeq(c, 1, n - 1)
  <2>1. L \in Codes(R) /\ (\A p \in Codes(R) : p <= L) /\ Enumerates(fr, Codes(R) \ {L})
    <3>1. n # 0
      BY <1>7
    <3> QED BY <3>1, <1>5, EnumFront
  <2>2. L \in Nat \ {0} /\ a \in Nat /\ L = a + 1 /\ L + 3 <= Len(R) /\ a = L - 1 /\ L = c[n]
    <3>1. L \in Nat \ {0} /\ L + 3 <= Len(R)
      <4> HIDE DEF L
      <4> QED BY <2>1, CodeInside
    <3>2. a = L - 1 /\ L = c[n]
      OBVIOUS
    <3>3. \A m \in Nat \ {0} : m - 1 \in Nat /\ m = (m - 1) + 1
      OBVIOUS
    <3> HIDE DEF L, a
    <3>4. a \in Nat /\ L = a + 1
      BY <3>1, <3>2, <3>3
    <3> QED BY <3>1, <3>2, <3>4
  <2>3. T = SubSeq(R, L, Len(R))
    BY <1>1, <1>7
  <2> HIDE DEF T, U, W, c, d, e, n, L, a
  <2>4. /\ \A x \in 1 .. Len(W) : a + x \in 1 .. Len(U) /\ W[x] = U[a + x]
        /\ Codes(U) = (Codes(R) \ {L}) \cup {a + t : t \in Codes(W)}
        /\ 1 \in Codes(W)
    <3>1. /\ \A x \in 1 .. Len(W) : L - 1 + x \in 1 .. Len(U) /\ W[x] = U[L - 1 + x]
          /\ Codes(U) = (Codes(R) \ {L}) \cup {(L - 1) + t : t \in Codes(W)}
          /\ 1 \in Codes(W)
      <4>1. Behind(R, D, L, T, U, W)
        BY <2>1, <2>3 DEF Behind, U, W
      <4> QED BY <4>1, CodesCat
    <3> QED BY <3>1, <2>2
  <2>5. Enumerates(sh, {a + t : t \in Codes(W)})
    BY <2>2, <1>5, EnumShift
  <2>6. ASSUME NEW p \in Codes(R) \ {L}, NEW q \in {a + t : t \in Codes(W)}
        PROVE  p < q
    <3>1. PICK t \in Codes(W) : q = a + t
      BY <2>6
    <3>2. t \in Nat \ {0}
      BY <1>2, CodeInside
    <3>3. p \in Nat /\ p <= L /\ p # L
      BY <2>1, CodeInside
    <3>4. p < L /\ L <= a + t
      BY <3>2, <3>3, <2>2
    <3> QED BY <3>1, <3>2, <3>3, <3>4, <2>2
  <2>7. d = fr \o sh
    <3>1. Enumerates(fr \o sh, Codes(U))
      <4> HIDE DEF fr, sh, L, a
      <4> QED BY <2>1, <2>4, <2>5, <2>6, EnumCat
    <3> QED BY <3>1, <1>5, EnumOnce
  <2>8. n - 1 \in 1 .. n /\ n \in 1 .. n /\ n - 1 \in 0 .. n
    BY <1>5, <1>7
  <2>9. fr \in Seq(Nat) /\ Len(fr) = n - 1 /\ \A j \in 1 .. n - 1 : fr[j] = c[j]
    <3> DEFINE m == n - 1
    <3>1. m \in 0 .. Len(c)
      BY <2>8 DEF n
    <3> HIDE DEF m
    <3>2. SubSeq(c, 1, m) \in Seq(Nat) /\ Len(SubSeq(c, 1, m)) = m
          /\ \A i \in 1 .. m : SubSeq(c, 1, m)[i] = c[i]
      BY <3>1, <1>5, Pieces
    <3> QED BY <3>2 DEF m
  <2>10. sh \in Seq(Nat) /\ Len(sh) = Len(e) /\ \A k \in 1 .. Len(e) : sh[k] = a + e[k]
    <3>1. \A k \in 1 .. Len(e) : e[k] \in Nat
      BY <1>2, PositionsTyped DEF e
    <3>2. \A k \in 1 .. Len(e) : a + e[k] \in Nat
      BY <3>1, <2>2
    <3>3. sh \in [1 .. Len(e) -> Nat]
      BY <3>2
    <3>4. sh \in Seq(Nat) /\ Len(sh) = Len(e)
      <4>1. Len(e) \in Nat
        BY <1>5
      <4> HIDE DEF sh
      <4> QED BY <3>3, <4>1
    <3> QED BY <3>4
  <2> HIDE DEF fr, sh
  <2>11. /\ Len(d) = (n - 1) + Len(e)
         /\ \A j \in 1 .. n - 1 : d[j] = c[j]
         /\ \A k \in 1 .. Len(e) : d[(n - 1) + k] = a + e[k]
    <3>1. /\ Len(d) = (n - 1) + Len(e)
          /\ \A j \in 1 .. (n - 1) + Len(e) : d[j] = IF j <= n - 1 THEN fr[j] ELSE sh[j - (n - 1)]
      <4>1. /\ Len(fr \o sh) = Len(fr) + Len(sh)
            /\ \A j \in 1 .. Len(fr) + Len(sh) :
                  (fr \o sh)[j] = IF j <= Len(fr) THEN fr[j] ELSE sh[j - Len(fr)]
        <5>1. fr \in Seq(Nat) /\ sh \in Seq(Nat)
          BY <2>9, <2>10
        <5> QED BY <5>1, ConcatProperties, Zenon
      <4> QED BY <4>1, <2>7, <2>9, <2>10
    <3>2. ASSUME NEW j \in 1 .. n - 1 PROVE d[j] = c[j]
      <4>1. j \in 1 .. (n - 1) + Len(e) /\ j <= n - 1
        BY <1>5
      <4> QED BY <4>1, <3>1, <2>9
    <3>3. ASSUME NEW k \in 1 .. Len(e) PROVE d[(n - 1) + k] = a + e[k]
      <4>1. /\ (n - 1) + k \in 1 .. (n - 1) + Len(e) /\ ~((n - 1) + k <= n - 1)
            /\ ((n - 1) + k) - (n - 1) = k
        BY <1>5, <2>8
      <4> QED BY <4>1, <3>1, <2>10
    <3> QED BY <3>1, <3>2, <3>3
  <2>12. Len(e) >= 1 /\ 1 \in 1 .. Len(e) /\ e[1] = 1
    <3>1. PICK k \in 1 .. Len(e) : e[k] = 1
      BY <2>4, <1>2, PositionsTyped DEF e
    <3>a. 1 \in 1 .. Len(e)
      BY <3>1, <1>5
    <3>2. 1 \in 1 .. Len(e) /\ e[1] \in Nat \ {0}
      BY <3>a, <1>2, PositionsTyped DEF e
    <3>3. 1 < k => e[1] < e[k]
      BY <3>1, <3>2, <1>2, PositionsTyped DEF e
    <3> QED BY <3>1, <3>2, <3>3, <1>5
  <2>13. d[n] = L
    <3>1. (n - 1) + 1 = n
      BY <1>5
    <3>2. d[n] = a + e[1]
      BY <3>1, <2>11, <2>12
    <3> QED BY <3>2, <2>2, <2>12
  <2>14. \A x \in 1 .. Len(R) : x \in 1 .. Len(U) /\ R[x] = U[x]
    <3>1. /\ Len(D) \in Nat /\ Len(U) = Len(R) + Len(D)
          /\ \A i \in 1 .. Len(R) + Len(D) : U[i] = IF i <= Len(R) THEN R[i] ELSE D[i - Len(R)]
      BY ConcatProperties, LenProperties DEF U
    <3> SUFFICES ASSUME NEW x \in 1 .. Len(R) PROVE x \in 1 .. Len(U) /\ R[x] = U[x]
      OBVIOUS
    <3>2. x \in 1 .. Len(R) + Len(D) /\ x <= Len(R)
      BY <3>1, <1>2
    <3> QED BY <3>1, <3>2
  <2>15. /\ Len(Split(R).nals) = n - 1 /\ Len(Split(W).nals) = Len(e) - 1
         /\ Len(Split(U).nals) = (n - 1) + (Len(e) - 1)
    <3>1. Len(Split(R).nals) = n - 1
      BY <1>1, <1>7 DEF c, n
    <3>2. Len(Split(W).nals) = Len(e) - 1
      <4>1. ~(Len(e) < 2) \/ Len(e) = 1
        <5> DEFINE m == Len(e)
        <5>1. m \in Nat /\ m >= 1
          BY <2>12, <1>5
        <5> HIDE DEF m
        <5>2. ~(m < 2) \/ m = 1
          BY <5>1
        <5> QED BY <5>2 DEF m
      <4>2. Len(e) = 1 => Len(e) - 1 = 0 /\ Len(e) < 2
        OBVIOUS
      <4>3. Len(Split(W).nals) = IF Len(e) < 2 THEN 0 ELSE Len(e) - 1
        BY <1>3 DEF e, W
      <4> QED BY <4>1, <4>2, <4>3
    <3>3. ~(Len(d) < 2)
      BY <2>11, <2>12, <1>7, <1>5
    <3>4. Len(Split(U).nals) = (n - 1) + (Len(e) - 1)
      <4>1. Len(Split(U).nals) = Len(d) - 1
        BY <1>4, <3>3 DEF d, U
      <4> QED BY <4>1, <2>11, <1>5
    <3> QED BY <3>1, <3>2, <3>4
  <2>16. ASSUME NEW j \in 1 .. n - 1
         PROVE  Split(U).nals[j] = Split(R).nals[j]
    <3>1. /\ j \in 1 .. n /\ j + 1 \in 1 .. n /\ j \in 1 .. (n - 1) + (Len(e) - 1)
      BY <1>5, <2>12
    <3>2. d[j] = c[j] /\ d[j + 1] = c[j + 1]
      <4>1. j + 1 = n \/ j + 1 \in 1 .. n - 1
        BY <1>5
      <4>2. d[j] = c[j] /\ (j + 1 \in 1 .. n - 1 => d[j + 1] = c[j + 1])
        BY <2>11
      <4> QED BY <4>1, <4>2, <2>2, <2>13, Zenon
    <3>3. Split(U).nals[j] = SubSeq(U, c[j] + 4, c[j + 1] - 1)
      BY <3>1, <3>2, <2>15, <1>4 DEF d, U
    <3>4. Split(R).nals[j] = SubSeq(R, c[j] + 4, c[j + 1] - 1)
      BY <2>15, <1>1 DEF c, n
    <3>5. c[j] \in Nat \ {0} /\ c[j + 1] \in Nat \ {0} /\ c[j + 1] + 3 <= Len(R)
      BY <3>1, PositionsTyped DEF c, n
    <3> DEFINE x == c[j] + 4
               y == c[j + 1] - 1
    <3>6. x \in Int /\ y \in Int /\ 0 + x = x /\ 0 + y = y
      <4> DEFINE v == c[j]
                 w == c[j + 1]
      <4>1. v \in Nat \ {0} /\ w \in Nat \ {0}
        BY <3>5
      <4> HIDE DEF v, w
      <4>2. v + 4 \in Int /\ w - 1 \in Int /\ 0 + (v + 4) = v + 4 /\ 0 + (w - 1) = w - 1
        BY <4>1
      <4> QED BY <4>2 DEF v, w
    <3>a. x >= 1 /\ y <= Len(R)
      <4> DEFINE v == c[j]
                 w == c[j + 1]
      <4>1. v \in Nat \ {0} /\ w \in Nat \ {0} /\ w + 3 <= Len(R)
        BY <3>5
      <4> HIDE DEF v, w
      <4>2. v + 4 >= 1 /\ w - 1 <= Len(R)
        BY <4>1, <1>2
      <4> QED BY <4>2 DEF v, w
    <3>7. \A i \in x .. y : i \in 1 .. Len(R) /\ 0 + i = i
      <4> HIDE DEF x, y
      <4> QED BY <3>6, <3>a, <1>2
    <3> HIDE DEF x, y
    <3>8. SubSeq(R, x, y) = SubSeq(U, 0 + x, 0 + y)
      <4>1. \A i \in x .. y : i \in 1 .. Len(R) /\ 0 + i \in 1 .. Len(U) /\ R[i] = U[0 + i]
        BY <3>7, <2>14
      <4>2. 0 \in Nat
        OBVIOUS
      <4> QED BY <4>1, <4>2, <3>6, <1>2, SamePiece
    <3> QED BY <3>3, <3>4, <3>6, <3>8 DEF x, y
  <2>17. ASSUME NEW k \in 1 .. Len(e) - 1
         PROVE  Split(U).nals[(n - 1) + k] = Split(W).nals[k]
    <3>1. /\ k \in 1 .. Len(e) /\ k + 1 \in 1 .. Len(e)
          /\ (n - 1) + k \in 1 .. (n - 1) + (Len(e) - 1) /\ (n - 1) + k + 1 = (n - 1) + (k + 1)
      BY <1>5, <2>8
    <3>2. d[(n - 1) + k] = a + e[k] /\ d[(n - 1) + k + 1] = a + e[k + 1]
      BY <3>1, <2>11
    <3>3. Split(U).nals[(n - 1) + k] = SubSeq(U, (a + e[k]) + 4, (a + e[k + 1]) - 1)
      <4>1. Split(U).nals[(n - 1) + k] = SubSeq(U, d[(n - 1) + k] + 4, d[(n - 1) + k + 1] - 1)
        BY <3>1, <2>15, <1>4 DEF d, U
      <4> QED BY <4>1, <3>2
    <3>4. Split(W).nals[k] = SubSeq(W, e[k] + 4, e[k + 1] - 1)
      BY <2>15, <1>3 DEF e, W
    <3>5. e[k] \in Nat \ {0} /\ e[k + 1] \in Nat \ {0} /\ e[k + 1] + 3 <= Len(W)
      BY <3>1, <1>2, PositionsTyped DEF e
    <3> DEFINE x == e[k] + 4
               y == e[k + 1] - 1
    <3>6. x \in Int /\ y \in Int /\ a + x = (a + e[k]) + 4 /\ a + y = (a + e[k + 1]) - 1
      <4> DEFINE v == e[k]
                 w == e[k + 1]
      <4>1. v \in Nat \ {0} /\ w \in Nat \ {0}
        BY <3>5
      <4> HIDE DEF v, w
      <4>2. /\ v + 4 \in Int /\ w - 1 \in Int
            /\ a + (v + 4) = (a + v) + 4 /\ a + (w - 1) = (a + w) - 1
        BY <4>1, <2>2
      <4> QED BY <4>2 DEF v, w
    <3>a. x >= 1 /\ y <= Len(W)
      <4> DEFINE v == e[k]
                 w == e[k + 1]
      <4>1. v \in Nat \ {0} /\ w \in Nat \ {0} /\ w + 3 <= Len(W)
        BY <3>5
      <4> HIDE DEF v, w
      <4>2. v + 4 >= 1 /\ w - 1 <= Len(W)
        BY <4>1, <1>2
      <4> QED BY <4>2 DEF v, w
    <3>7. \A i \in x .. y : i \in 1 .. Len(W)
      <4> HIDE DEF x, y
      <4> QED BY <3>6, <3>a, <1>2
    <3> HIDE DEF x, y
    <3>8. SubSeq(W, x, y) = SubSeq(U, a + x, a + y)
      <4>1. \A i \in x .. y : i \in 1 .. Len(W) /\ a + i \in 1 .. Len(U) /\ W[i] = U[a + i]
        BY <3>7, <2>4
      <4> HIDE DEF a
      <4> QED BY <4>1, <3>6, <2>2, <1>2, SamePiece
    <3> QED BY <3>3, <3>4, <3>6, <3>8 DEF x, y
  <2>18. Split(U).nals = Split(R).nals \o Split(W).nals
    <3> DEFINE A == Split(R).nals
               B == Split(W).nals
               C == Split(U).nals
    <3>1. A \in Seq(Seq(Nat)) /\ B \in Seq(Seq(Nat)) /\ C \in Seq(Seq(Nat))
      BY <1>1, <1>3, <1>4 DEF U, W
    <3>2. Len(A) = n - 1 /\ Len(B) = Len(e) - 1 /\ Len(C) = Len(A) + Len(B)
      BY <2>15
    <3>3. \A j \in 1 .. n - 1 : C[j] = A[j]
      BY <2>16
    <3>4. \A k \in 1 .. Len(e) - 1 : C[(n - 1) + k] = B[k]
      BY <2>17
    <3> HIDE DEF A, B, C
    <3>5. /\ A \o B \in Seq(Seq(Nat)) /\ Len(A \o B) = Len(A) + Len(B)
          /\ \A j \in 1 .. Len(A) + Len(B) : (A \o B)[j] = IF j <= Len(A) THEN A[j] ELSE B[j - Len(A)]
      BY <3>1, ConcatProperties
    <3>6. ASSUME NEW j \in 1 .. Len(C) PROVE C[j] = (A \o B)[j]
      <4>1. j \in 1 .. Len(A) + Len(B)
        BY <3>2
      <4>2. CASE j <= Len(A)
        <5>1. j \in 1 .. n - 1
          BY <4>1, <4>2, <3>2
        <5> QED BY <4>1, <4>2, <5>1, <3>3, <3>5
      <4>3. CASE ~(j <= Len(A))
        <5>1. j - Len(A) \in 1 .. Len(e) - 1 /\ (n - 1) + (j - Len(A)) = j
          BY <4>1, <4>3, <3>2, <1>5, <2>8
        <5> QED BY <4>1, <4>3, <5>1, <3>4, <3>5
      <4> QED BY <4>2, <4>3
    <3>7. C = A \o B
      BY <3>1, <3>2, <3>5, <3>6, SeqEqual
    <3> QED BY <3>7 DEF A, B, C
  <2>19. Split(U).rest = Split(W).rest
    <3>1. /\ Len(e) \in 1 .. Len(e) /\ ~(Len(d) < 2) /\ Len(d) = (n - 1) + Len(e)
      BY <1>5, <1>7, <2>11, <2>12
    <3>2. d[Len(d)] = a + e[Len(e)]
      BY <3>1, <2>11
    <3>3. Split(U).rest = SubSeq(U, a + e[Len(e)], Len(U))
      BY <1>4, <3>1, <3>2 DEF d, U
    <3>4. Split(W).rest = SubSeq(W, e[Len(e)], Len(W))
      <4>1. CASE Len(e) < 2
        <5>1. Len(e) = 1
          <6> DEFINE m == Len(e)
          <6>1. m \in Nat /\ m < 2 /\ m >= 1
            BY <4>1, <2>12, <1>5
          <6> HIDE DEF m
          <6>2. m = 1
            BY <6>1
          <6> QED BY <6>2 DEF m
        <5>2. Split(W).rest = W
          BY <4>1, <1>3 DEF e, W
        <5>3. SubSeq(W, 1, Len(W)) = W
          BY <1>2, SubSeqFull
        <5> QED BY <5>1, <5>2, <5>3, <2>12
      <4>2. CASE ~(Len(e) < 2)
        BY <4>2, <1>3 DEF e, W
      <4> QED BY <4>1, <4>2
    <3>5. e[Len(e)] \in Nat \ {0}
      BY <3>1, <1>2, PositionsTyped DEF e
    <3>6. Len(U) = a + Len(W)
      <4>1. Len(T) = Len(R) - L + 1
        <5>1. Behind(R, D, L, T, U, W)
          BY <2>1, <2>3 DEF Behind, U, W
        <5> QED BY <5>1, CodesCat
      <4>2. Len(W) = Len(T) + Len(D) /\ Len(U) = Len(R) + Len(D) /\ Len(D) \in Nat
        BY <1>1, ConcatProperties, LenProperties DEF U, W, T
      <4> DEFINE lr == Len(R)
                 ld == Len(D)
      <4>3. Len(W) = (lr - L + 1) + ld /\ lr \in Nat /\ ld \in Nat /\ L \in Nat /\ Len(U) = lr + ld
        BY <4>1, <4>2, <2>2, <1>2
      <4> HIDE DEF lr, ld
      <4>4. lr + ld = (L - 1) + ((lr - L + 1) + ld)
        BY <4>3
      <4> QED BY <4>3, <4>4, <2>2
    <3> DEFINE x == e[Len(e)]
               y == Len(W)
    <3>7. x \in Int /\ y \in Int /\ \A i \in x .. y : i \in 1 .. Len(W)
      BY <3>5, <1>2
    <3> HIDE DEF x, y
    <3>8. SubSeq(W, x, y) = SubSeq(U, a + x, a + y)
      <4>1. \A i \in x .. y : i \in 1 .. Len(W) /\ a + i \in 1 .. Len(U) /\ W[i] = U[a + i]
        BY <3>7, <2>4
      <4> HIDE DEF a
      <4> QED BY <4>1, <3>7, <2>2, <1>2, SamePiece
    <3> QED BY <3>3, <3>4, <3>6, <3>8 DEF x, y
  <2> QED BY <2>18, <2>19, <1>1 DEF T, U, W
<1> QED BY <1>6, <1>7

-----------------------------------------------------------------------------
(* The drone's stream *)

\* The units are those of the drone.
LEMMA UnitTyped ==
  ASSUME units \in Seq(Units)
  PROVE  /\ Len(units) \in Nat
         /\ \A i \in 1 .. Len(units) :
               units[i] \in Units /\ units[i] \in Seq(Nat) /\ Len(units[i]) \in Nat \ {0}
<1>1. Len(units) \in Nat
  BY LenProperties
<1>2. ASSUME NEW i \in 1 .. Len(units)
      PROVE  units[i] \in Units /\ units[i] \in Seq(Nat) /\ Len(units[i]) \in Nat \ {0}
  <2>1. units[i] \in Units
    BY ElementOfSeq
  <2>2. units[i] \in Seq(0 .. 255) /\ units[i] # << >>
    BY <2>1, UnitAssumption
  <2>3. \A n \in 0 .. 255 : n \in Nat
    OBVIOUS
  <2>4. units[i] \in Seq(Nat)
    BY <2>2, <2>3, SeqMonotonic
  <2> QED BY <2>1, <2>2, <2>4, EmptySeq
<1> QED BY <1>1, <1>2

\* A unit behind its code, and the first k of them.
Coded(i) == START_CODE \o units[i]
First(k) == FlattenSeq([j \in 1 .. k |-> START_CODE \o units[j]])

\* How many bytes are before unit i and its code.
Off(i) == Len(First(i - 1))

\* One sequence more.
LEMMA FlattenMore ==
  ASSUME NEW S, NEW ss \in Seq(Seq(S)), NEW tt \in Seq(Seq(S)), NEW n \in Nat,
         Len(ss) = n, Len(tt) = n + 1, \A i \in 1 .. n : ss[i] = tt[i]
  PROVE  FlattenSeq(tt) = (IF n = 0 THEN << >> ELSE FlattenSeq(ss)) \o tt[n + 1]
<1>1. PICK f : /\ FlattenSeq(ss) = IF Len(ss) = 0 THEN ss ELSE f[Len(ss)]
               /\ \A i \in 1 .. Len(ss) : f[i] = IF i = 1 THEN ss[i] ELSE f[i - 1] \o ss[i]
  BY FlattenSteps
<1>2. PICK g : /\ FlattenSeq(tt) = IF Len(tt) = 0 THEN tt ELSE g[Len(tt)]
               /\ \A i \in 1 .. Len(tt) : g[i] = IF i = 1 THEN tt[i] ELSE g[i - 1] \o tt[i]
  BY FlattenSteps
<1>3. n + 1 \in 1 .. Len(tt) /\ FlattenSeq(tt) = g[n + 1]
  BY <1>2
<1>4. CASE n = 0
  <2>1. g[n + 1] = tt[n + 1]
    BY <1>2, <1>3, <1>4
  <2>2. tt[n + 1] \in Seq(S)
    BY <1>3, ElementOfSeq
  <2> QED BY <1>3, <1>4, <2>1, <2>2, ConcatEmptySeq
<1>5. CASE n # 0
  <2> DEFINE A == {i \in 1 .. n : f[i] = g[i]}
  <2>1. ASSUME NEW i \in 1 .. n, i = 1 \/ i - 1 \in A
        PROVE  i \in A
    <3>1. i \in 1 .. Len(ss) /\ i \in 1 .. Len(tt)
      OBVIOUS
    <3>2. f[i] = IF i = 1 THEN ss[i] ELSE f[i - 1] \o ss[i]
      BY <3>1, <1>1
    <3>3. g[i] = IF i = 1 THEN tt[i] ELSE g[i - 1] \o tt[i]
      BY <3>1, <1>2
    <3>4. i # 1 => f[i - 1] = g[i - 1]
      BY <2>1
    <3>5. ss[i] = tt[i]
      OBVIOUS
    <3>6. f[i] = g[i]
      BY <3>2, <3>3, <3>4, <3>5
    <3> QED BY <3>6
  <2>2. \A i \in 1 .. n : i \in A
    <3> HIDE DEF A
    <3> QED BY <2>1, Ascent
  <2>3. n \in 1 .. n
    BY <1>5
  <2>4. f[n] = g[n]
    BY <2>2, <2>3
  <2>5. FlattenSeq(ss) = f[n]
    BY <1>1, <1>5
  <2>6. n + 1 # 1 /\ (n + 1) - 1 = n
    BY <1>5
  <2>7. g[n + 1] = g[n] \o tt[n + 1]
    BY <1>2, <1>3, <2>6
  <2> QED BY <1>3, <1>5, <2>4, <2>5, <2>7
<1> QED BY <1>4, <1>5

\* A unit behind its code is typed.
LEMMA CodedIs ==
  ASSUME units \in Seq(Units), NEW i \in 1 .. Len(units)
  PROVE  /\ Coded(i) \in Seq(Nat) /\ Len(Coded(i)) = 4 + Len(units[i])
         /\ Coded(i)[1] = 0 /\ Coded(i)[2] = 0 /\ Coded(i)[3] = 0 /\ Coded(i)[4] = 1
         /\ \A k \in 1 .. Len(units[i]) : Coded(i)[4 + k] = units[i][k]
<1>1. units[i] \in Seq(Nat) /\ Len(units[i]) \in Nat \ {0}
  BY UnitTyped
<1>2. /\ START_CODE \in Seq(Nat) /\ Len(START_CODE) = 4
      /\ START_CODE[1] = 0 /\ START_CODE[2] = 0 /\ START_CODE[3] = 0 /\ START_CODE[4] = 1
  BY DEF START_CODE
<1> DEFINE c == Coded(i)
           u == units[i]
<1>3. /\ c \in Seq(Nat) /\ Len(c) = Len(START_CODE) + Len(u)
      /\ \A k \in 1 .. Len(START_CODE) + Len(u) :
            c[k] = IF k <= Len(START_CODE) THEN START_CODE[k] ELSE u[k - Len(START_CODE)]
  BY <1>1, <1>2, ConcatProperties DEF Coded
<1> HIDE DEF c, u
<1>4. \A k \in 1 .. 4 + Len(u) : c[k] = IF k <= 4 THEN START_CODE[k] ELSE u[k - 4]
  BY <1>2, <1>3
<1>5. Len(u) \in Nat
  BY <1>1 DEF u
<1>6. c[1] = 0 /\ c[2] = 0 /\ c[3] = 0 /\ c[4] = 1
  <2>1. 1 \in 1 .. 4 + Len(u) /\ 2 \in 1 .. 4 + Len(u) /\ 3 \in 1 .. 4 + Len(u) /\ 4 \in 1 .. 4 + Len(u)
    BY <1>5
  <2> QED BY <2>1, <1>4, <1>2
<1>7. ASSUME NEW k \in 1 .. Len(u) PROVE c[4 + k] = u[k]
  <2>1. 4 + k \in 1 .. 4 + Len(u) /\ ~(4 + k <= 4) /\ (4 + k) - 4 = k
    BY <1>5
  <2> QED BY <2>1, <1>4
<1> QED BY <1>2, <1>3, <1>6, <1>7 DEF c, u

\* The first units one by one.
LEMMA FirstIs ==
  ASSUME units \in Seq(Units)
  PROVE  /\ First(0) = << >> /\ Stream = First(Len(units))
         /\ \A k \in 0 .. Len(units) : First(k) \in Seq(Nat)
         /\ \A k \in 1 .. Len(units) : First(k) = First(k - 1) \o Coded(k)
<1> DEFINE n == Len(units)
           Row(k) == [j \in 1 .. k |-> START_CODE \o units[j]]
<1>1. n \in Nat
  BY UnitTyped
<1>2. ASSUME NEW k \in 0 .. n
      PROVE  /\ Row(k) \in Seq(Seq(Nat)) /\ Len(Row(k)) = k
             /\ \A j \in 1 .. k : Row(k)[j] = Coded(j)
  <2>1. \A j \in 1 .. k : START_CODE \o units[j] \in Seq(Nat)
    <3>1. \A j \in 1 .. k : j \in 1 .. n
      BY <1>1
    <3> QED BY <3>1, CodedIs DEF Coded
  <2> DEFINE row == Row(k)
  <2>2. row \in [1 .. k -> Seq(Nat)]
    BY <2>1
  <2>3. \A j \in 1 .. k : row[j] = Coded(j)
    BY DEF Coded
  <2> HIDE DEF row
  <2>4. row \in Seq(Seq(Nat)) /\ Len(row) = k
    BY <2>2
  <2> QED BY <2>3, <2>4 DEF row
<1>3. \A k : First(k) = FlattenSeq(Row(k))
  BY DEF First
<1>4. Stream = First(n)
  BY DEF Stream, First
<1> HIDE DEF Row, n
<1>5. First(0) = << >>
  <2>1. PICK f : FlattenSeq(Row(0)) = IF Len(Row(0)) = 0 THEN Row(0) ELSE f[Len(Row(0))]
    <3>1. 0 \in 0 .. n
      BY <1>1
    <3> QED BY <3>1, <1>2, FlattenSteps
  <2>2. Row(0) \in Seq(Seq(Nat)) /\ Len(Row(0)) = 0
    <3>1. 0 \in 0 .. n
      BY <1>1
    <3> QED BY <3>1, <1>2
  <2>3. Row(0) = << >>
    BY <2>2, EmptySeq
  <2> QED BY <1>3, <2>1, <2>2, <2>3
<1>6. ASSUME NEW k \in 1 .. n
      PROVE  First(k) = First(k - 1) \o Coded(k)
  <2>1. k - 1 \in 0 .. n /\ k \in 0 .. n /\ k - 1 \in Nat /\ (k - 1) + 1 = k
    BY <1>1
  <2> DEFINE m == k - 1
             ss == Row(m)
             tt == Row(k)
  <2>2. /\ ss \in Seq(Seq(Nat)) /\ tt \in Seq(Seq(Nat)) /\ Len(ss) = m /\ Len(tt) = m + 1
        /\ m \in Nat /\ m + 1 = k
    BY <2>1, <1>2
  <2>3. ASSUME NEW i \in 1 .. m PROVE ss[i] = tt[i]
    <3>1. i \in 1 .. k
      BY <2>1
    <3> QED BY <3>1, <2>1, <1>2
  <2>4. tt[m + 1] = Coded(k)
    BY <2>1, <1>2
  <2> HIDE DEF m, ss, tt
  <2>5. FlattenSeq(tt) = (IF m = 0 THEN << >> ELSE FlattenSeq(ss)) \o tt[m + 1]
    BY <2>2, <2>3, FlattenMore
  <2>6. (IF m = 0 THEN << >> ELSE FlattenSeq(ss)) = First(k - 1)
    BY <1>3, <1>5 DEF m, ss
  <2> QED BY <2>4, <2>5, <2>6, <1>3 DEF tt
<1>7. \A k \in 0 .. n : First(k) \in Seq(Nat)
  <2> DEFINE A == {k \in 1 .. n : First(k) \in Seq(Nat)}
  <2>0. First(0) \in Seq(Nat)
    BY <1>5, EmptySeq
  <2>1. ASSUME NEW k \in 1 .. n, k = 1 \/ k - 1 \in A
        PROVE  k \in A
    <3>1. First(k - 1) \in Seq(Nat)
      <4>1. k = 1 => k - 1 = 0
        OBVIOUS
      <4> QED BY <4>1, <2>0, <2>1
    <3>2. Coded(k) \in Seq(Nat)
      BY CodedIs DEF n
    <3>3. First(k) \in Seq(Nat)
      BY <3>1, <3>2, <1>6, ConcatProperties
    <3> QED BY <3>3
  <2>2. \A k \in 1 .. n : k \in A
    <3> HIDE DEF A
    <3> QED BY <1>1, <2>1, Ascent
  <2>3. \A k \in 0 .. n : k = 0 \/ k \in 1 .. n
    BY <1>1
  <2> QED BY <2>0, <2>2, <2>3
<1> QED BY <1>4, <1>5, <1>6, <1>7 DEF n

\* Where in the stream the units and their codes are.
LEMMA OffIs ==
  ASSUME units \in Seq(Units)
  PROVE  /\ Off(1) = 0 /\ Off(Len(units) + 1) = Len(Stream)
         /\ Stream \in Seq(Nat) /\ Len(Stream) \in Nat
         /\ \A i \in 1 .. Len(units) + 1 : Off(i) \in Nat
         /\ \A i \in 1 .. Len(units) : Off(i + 1) = Off(i) + 4 + Len(units[i])
<1> DEFINE n == Len(units)
<1>1. n \in Nat
  BY UnitTyped
<1>2. /\ First(0) = << >> /\ Stream = First(n)
      /\ \A k \in 0 .. n : First(k) \in Seq(Nat)
      /\ \A k \in 1 .. n : First(k) = First(k - 1) \o Coded(k)
  BY FirstIs
<1>3. Off(1) = 0
  <2>1. 1 - 1 = 0
    OBVIOUS
  <2> QED BY <2>1, <1>2, EmptySeq DEF Off
<1>4. Off(n + 1) = Len(Stream)
  <2>1. (n + 1) - 1 = n
    BY <1>1
  <2> QED BY <2>1, <1>2 DEF Off
<1>5. Stream \in Seq(Nat) /\ Len(Stream) \in Nat
  <2>1. n \in 0 .. n
    BY <1>1
  <2> QED BY <2>1, <1>2, LenProperties
<1> HIDE DEF n
<1>6. ASSUME NEW i \in 1 .. n + 1 PROVE Off(i) \in Nat
  <2>1. i - 1 \in 0 .. n
    BY <1>1
  <2>2. First(i - 1) \in Seq(Nat)
    BY <2>1, <1>2
  <2> QED BY <2>2, LenProperties DEF Off
<1>7. ASSUME NEW i \in 1 .. n
      PROVE  Off(i + 1) = Off(i) + 4 + Len(units[i])
  <2>1. (i + 1) - 1 = i /\ i - 1 \in 0 .. n
    BY <1>1
  <2>2. First(i) = First(i - 1) \o Coded(i) /\ First(i - 1) \in Seq(Nat)
    BY <2>1, <1>2
  <2>3. Coded(i) \in Seq(Nat) /\ Len(Coded(i)) = 4 + Len(units[i]) /\ Len(units[i]) \in Nat
    BY CodedIs, UnitTyped DEF n
  <2>4. Len(First(i)) = Len(First(i - 1)) + Len(Coded(i)) /\ Len(First(i - 1)) \in Nat
    BY <2>2, <2>3, ConcatProperties, LenProperties
  <2>5. Off(i + 1) = Len(First(i)) /\ Off(i) = Len(First(i - 1))
    BY <2>1 DEF Off
  <2> DEFINE x == Len(First(i - 1))
             y == Len(units[i])
  <2>6. x \in Nat /\ y \in Nat /\ Off(i + 1) = x + (4 + y) /\ Off(i) = x
    BY <2>3, <2>4, <2>5
  <2> HIDE DEF x, y
  <2>7. Off(i + 1) = Off(i) + 4 + y
    BY <2>6
  <2> QED BY <2>7 DEF y
<1> QED BY <1>3, <1>4, <1>5, <1>6, <1>7 DEF n

\* What stands there.
LEMMA StreamAt ==
  ASSUME units \in Seq(Units), NEW i \in 1 .. Len(units)
  PROVE  \A k \in 1 .. 4 + Len(units[i]) : Stream[Off(i) + k] = Coded(i)[k]
<1> DEFINE n == Len(units)
           Holds(k) == \A x \in 1 .. 4 + Len(units[i]) : First(k)[Off(i) + x] = Coded(i)[x]
           A == {k \in 1 .. n : k >= i => Holds(k)}
<1>1. /\ n \in Nat /\ Stream = First(n)
      /\ \A k \in 0 .. n : First(k) \in Seq(Nat)
      /\ \A k \in 1 .. n : First(k) = First(k - 1) \o Coded(k)
  BY FirstIs, UnitTyped
<1>2. /\ Coded(i) \in Seq(Nat) /\ Len(Coded(i)) = 4 + Len(units[i]) /\ Len(units[i]) \in Nat
  BY CodedIs, UnitTyped
<1>3. Off(i) \in Nat /\ Off(i) = Len(First(i - 1))
  <2>1. i \in 1 .. n + 1
    BY <1>1
  <2> QED BY <2>1, OffIs DEF Off
<1> HIDE DEF n
<1>4. ASSUME NEW k \in 1 .. n, k = 1 \/ k - 1 \in A
      PROVE  k \in A
  <2> SUFFICES ASSUME k >= i PROVE Holds(k)
    OBVIOUS
  <2>1. k - 1 \in 0 .. n
    BY <1>1
  <2>2. /\ First(k) = First(k - 1) \o Coded(k)
        /\ First(k - 1) \in Seq(Nat) /\ Coded(k) \in Seq(Nat)
        /\ Len(First(k - 1)) \in Nat /\ Len(Coded(k)) \in Nat
    BY <1>1, <2>1, CodedIs, LenProperties DEF n
  <2>3. \A x \in 1 .. Len(First(k - 1)) + Len(Coded(k)) :
          First(k)[x] = IF x <= Len(First(k - 1)) THEN First(k - 1)[x] ELSE Coded(k)[x - Len(First(k - 1))]
    BY <2>2, ConcatProperties
  <2>4. CASE k = i
    <3> SUFFICES ASSUME NEW x \in 1 .. 4 + Len(units[i])
                 PROVE  First(k)[Off(i) + x] = Coded(i)[x]
      OBVIOUS
    <3> DEFINE a == Len(First(k - 1))
               b == Len(Coded(k))
    <3>1. a = Off(i) /\ b = 4 + Len(units[i]) /\ a \in Nat
      BY <2>4, <1>2, <1>3
    <3>2. \A y \in 1 .. a + b : First(k)[y] = IF y <= a THEN First(k - 1)[y] ELSE Coded(k)[y - a]
      BY <2>3
    <3> HIDE DEF a, b
    <3>3. a + x \in 1 .. a + b /\ ~(a + x <= a) /\ (a + x) - a = x
      <4>1. x \in 1 .. b /\ a \in Nat /\ b \in Nat
        BY <3>1, <1>2
      <4> QED BY <4>1
    <3>4. First(k)[a + x] = Coded(k)[x]
      BY <3>2, <3>3
    <3> QED BY <3>1, <3>4, <2>4
  <2>5. CASE k > i
    <3>1. k # 1 /\ k - 1 \in 1 .. n /\ k - 1 >= i
      BY <2>5, <1>1
    <3>2. Holds(k - 1)
      BY <3>1, <1>4
    <3>3. Off(i) + 4 + Len(units[i]) <= Len(First(k - 1))
      <4> DEFINE B == {j \in 1 .. n : j > i => Off(i) + 4 + Len(units[i]) <= Off(j)}
      <4>1. ASSUME NEW j \in 1 .. n, j = 1 \/ j - 1 \in B
            PROVE  j \in B
        <5> SUFFICES ASSUME j > i PROVE Off(i) + 4 + Len(units[i]) <= Off(j)
          OBVIOUS
        <5>1. j - 1 \in 1 .. n /\ (j - 1) + 1 = j /\ j # 1 /\ j \in 1 .. n + 1 /\ j - 1 \in 1 .. n + 1
          BY <1>1
        <5>2. Off(j) = Off(j - 1) + 4 + Len(units[j - 1]) /\ Len(units[j - 1]) \in Nat /\ Off(j - 1) \in Nat
          BY <5>1, OffIs, UnitTyped DEF n
        <5>3. CASE j - 1 = i
          <6>1. Off(j) = Off(i) + 4 + Len(units[i])
            BY <5>2, <5>3
          <6> DEFINE u == Len(units[i])
          <6>2. u \in Nat /\ Off(j) = Off(i) + 4 + u
            BY <6>1, <1>2
          <6> HIDE DEF u
          <6>3. Off(i) + 4 + u <= Off(j)
            BY <6>2, <1>3
          <6> QED BY <6>3 DEF u
        <5>4. CASE j - 1 > i
          <6>1. Off(i) + 4 + Len(units[i]) <= Off(j - 1)
            BY <5>4, <5>1, <4>1
          <6> DEFINE u == Len(units[i])
                     w == Len(units[j - 1])
          <6>2. u \in Nat /\ w \in Nat /\ Off(j) = Off(j - 1) + 4 + w /\ Off(i) + 4 + u <= Off(j - 1)
            BY <5>2, <6>1, <1>2
          <6> HIDE DEF u, w
          <6>3. Off(i) + 4 + u <= Off(j)
            BY <6>2, <5>2, <1>3
          <6> QED BY <6>3 DEF u
        <5> QED BY <5>3, <5>4
      <4>2. \A j \in 1 .. n : j \in B
        <5> HIDE DEF B
        <5> QED BY <1>1, <4>1, Ascent
      <4>3. Off(i) + 4 + Len(units[i]) <= Off(k)
        BY <4>2, <2>5
      <4> QED BY <4>3 DEF Off
    <3> SUFFICES ASSUME NEW x \in 1 .. 4 + Len(units[i])
                 PROVE  First(k)[Off(i) + x] = Coded(i)[x]
      OBVIOUS
    <3> DEFINE a == Len(First(k - 1))
               b == Len(Coded(k))
               u == Len(units[i])
    <3>4. a \in Nat /\ b \in Nat /\ u \in Nat /\ Off(i) + 4 + u <= a
      BY <3>3, <2>2, <1>2
    <3>5. \A y \in 1 .. a + b : First(k)[y] = IF y <= a THEN First(k - 1)[y] ELSE Coded(k)[y - a]
      BY <2>3
    <3>6. x \in 1 .. 4 + u
      OBVIOUS
    <3> HIDE DEF a, b, u
    <3>7. Off(i) + x \in 1 .. a + b /\ Off(i) + x <= a
      BY <3>4, <3>6, <1>3
    <3>8. First(k)[Off(i) + x] = First(k - 1)[Off(i) + x]
      BY <3>5, <3>7
    <3> QED BY <3>8, <3>2
  <2> QED BY <2>4, <2>5
<1>5. \A k \in 1 .. n : k \in A
  <2> HIDE DEF A
  <2> QED BY <1>1, <1>4, Ascent
<1>6. n \in 1 .. n /\ n >= i
  BY <1>1 DEF n
<1>7. Holds(n)
  BY <1>5, <1>6
<1> QED BY <1>1, <1>7

\* The units follow each other, and each byte of the stream is one of a unit or its code.
LEMMA OffRises ==
  ASSUME units \in Seq(Units)
  PROVE  /\ \A i, j \in 1 .. Len(units) + 1 : i < j => Off(i) < Off(j)
         /\ \A i \in 1 .. Len(units), j \in 1 .. Len(units) + 1 : i < j => Off(i + 1) <= Off(j)
<1> DEFINE n == Len(units)
<1>1. n \in Nat
  BY UnitTyped
<1>2. \A i \in 1 .. n + 1 : Off(i) \in Nat
  BY OffIs
<1>3. \A i \in 1 .. n : Off(i) + 4 < Off(i + 1)
  <2> SUFFICES ASSUME NEW i \in 1 .. n PROVE Off(i) + 4 < Off(i + 1)
    OBVIOUS
  <2> DEFINE w == Len(units[i])
  <2>1. w \in Nat \ {0} /\ Off(i + 1) = Off(i) + 4 + w
    BY OffIs, UnitTyped
  <2>2. i \in 1 .. n + 1
    BY <1>1
  <2> HIDE DEF w, n
  <2> QED BY <2>1, <2>2, <1>2
<1> HIDE DEF n
<1>4. ASSUME NEW i \in 1 .. n, NEW j \in 1 .. n + 1, i < j
      PROVE  Off(i + 1) <= Off(j)
  <2> DEFINE B == {k \in 1 .. n + 1 : k > i => Off(i + 1) <= Off(k)}
  <2>1. ASSUME NEW k \in 1 .. n + 1, k = 1 \/ k - 1 \in B
        PROVE  k \in B
    <3> SUFFICES ASSUME k > i PROVE Off(i + 1) <= Off(k)
      OBVIOUS
    <3>1. k - 1 \in 1 .. n /\ (k - 1) + 1 = k /\ k # 1 /\ k - 1 \in 1 .. n + 1 /\ i + 1 \in 1 .. n + 1
      BY <1>1
    <3>2. Off(k - 1) + 4 < Off(k) /\ Off(k - 1) \in Nat /\ Off(k) \in Nat /\ Off(i + 1) \in Nat
      BY <3>1, <1>2, <1>3
    <3>3. CASE k - 1 = i
      BY <3>1, <3>2, <3>3
    <3>4. CASE k - 1 > i
      <4>1. Off(i + 1) <= Off(k - 1)
        BY <3>1, <3>4, <2>1
      <4> QED BY <4>1, <3>2
    <3> QED BY <3>3, <3>4
  <2>2. n + 1 \in Nat
    BY <1>1
  <2>3. \A k \in 1 .. n + 1 : k \in B
    <3> HIDE DEF B
    <3> QED BY <2>1, <2>2, Ascent
  <2> QED BY <2>3, <1>4
<1>5. ASSUME NEW i \in 1 .. n + 1, NEW j \in 1 .. n + 1, i < j
      PROVE  Off(i) < Off(j)
  <2>1. i \in 1 .. n /\ i + 1 \in 1 .. n + 1
    BY <1>1, <1>5
  <2>2. Off(i + 1) <= Off(j) /\ Off(i) + 4 < Off(i + 1)
    BY <2>1, <1>3, <1>4, <1>5
  <2> QED BY <2>1, <2>2, <1>2
<1> QED BY <1>4, <1>5 DEF n

LEMMA Cover ==
  ASSUME units \in Seq(Units), NEW q \in 1 .. Len(Stream)
  PROVE  \E i \in 1 .. Len(units) : \E k \in 1 .. 4 + Len(units[i]) : q = Off(i) + k
<1> DEFINE n == Len(units)
           A == {i \in 1 .. n : Off(i) < q}
<1>1. n \in Nat /\ Off(1) = 0 /\ Off(n + 1) = Len(Stream) /\ q \in Nat /\ q >= 1 /\ q <= Len(Stream)
  BY UnitTyped, OffIs
<1>2. \A i \in 1 .. n + 1 : Off(i) \in Nat
  BY OffIs
<1>3. \A i \in 1 .. n : Off(i + 1) = Off(i) + 4 + Len(units[i]) /\ Len(units[i]) \in Nat
  BY OffIs, UnitTyped
<1>4. n # 0
  BY <1>1
<1> HIDE DEF n
<1>5. 1 \in A
  BY <1>1, <1>4
<1>6. Max(A) \in A /\ \A k \in A : k <= Max(A)
  BY <1>1, <1>5, Greatest
<1> DEFINE m == Max(A)
<1> HIDE DEF m
<1>7. m \in 1 .. n /\ Off(m) < q /\ m + 1 \in 1 .. n + 1 /\ m \in 1 .. n + 1
  BY <1>1, <1>6 DEF m
<1>8. q <= Off(m + 1)
  <2>1. CASE m = n
    BY <2>1, <1>1
  <2>2. CASE m # n
    <3>1. m + 1 \in 1 .. n /\ ~(m + 1 <= m)
      BY <2>2, <1>1, <1>7
    <3>2. ~(Off(m + 1) < q)
      BY <3>1, <1>6 DEF m
    <3> QED BY <3>2, <1>1, <1>2, <1>7
  <2> QED BY <2>1, <2>2
<1>9. q - Off(m) \in 1 .. 4 + Len(units[m]) /\ q = Off(m) + (q - Off(m))
  <2> DEFINE w == Len(units[m])
  <2>1. w \in Nat /\ Off(m + 1) = Off(m) + 4 + w /\ Off(m) \in Nat
    BY <1>2, <1>3, <1>7
  <2> HIDE DEF w
  <2>2. q - Off(m) \in 1 .. 4 + w /\ q = Off(m) + (q - Off(m))
    BY <2>1, <1>1, <1>7, <1>8
  <2> QED BY <2>2 DEF w
<1> QED BY <1>7, <1>9 DEF n

\* There is no code in the stream but those in front of the units.
LEMMA StreamCodes ==
  ASSUME units \in Seq(Units), NEW q \in Codes(Stream)
  PROVE  \E i \in 1 .. Len(units) : q = Off(i) + 1
<1>1. q \in Nat \ {0} /\ Len(Stream) \in Nat /\ q + 3 <= Len(Stream) /\ Stream \in Seq(Nat)
  BY OffIs, CodeInside
<1>2. Stream[q] = 0 /\ Stream[q + 1] = 0 /\ Stream[q + 2] = 0 /\ Stream[q + 3] = 1
  BY <1>1, CodeIs DEF Codes
<1>3. PICK i \in 1 .. Len(units) : \E k \in 1 .. 4 + Len(units[i]) : q = Off(i) + k
  <2>1. q \in 1 .. Len(Stream)
    BY <1>1
  <2> QED BY <2>1, Cover
<1>4. PICK k \in 1 .. 4 + Len(units[i]) : q = Off(i) + k
  BY <1>3
<1> DEFINE u == units[i]
           m == Len(u)
           c == Coded(i)
<1>5. /\ u \in Seq(Nat) /\ m \in Nat \ {0} /\ Last(u) # 0 /\ \A p \in 1 .. m : ~CodeAt(u, p)
  <2>1. u \in Units /\ u \in Seq(Nat) /\ m \in Nat \ {0}
    BY UnitTyped
  <2> QED BY <2>1, UnitAssumption
<1>6. /\ \A x \in 1 .. 4 + m : Stream[Off(i) + x] = c[x]
      /\ c[1] = 0 /\ c[2] = 0 /\ c[3] = 0 /\ c[4] = 1
      /\ \A x \in 1 .. m : c[4 + x] = u[x]
  BY StreamAt, CodedIs
<1>7. Off(i) \in Nat
  <2>1. i \in 1 .. Len(units) + 1
    BY UnitTyped
  <2> QED BY <2>1, OffIs
<1>8. k \in 1 .. 4 + m /\ u[m] # 0
  BY <1>5 DEF Last
<1> HIDE DEF u, m, c
<1>a. 0 # 1
  OBVIOUS
<1>9. ASSUME NEW y \in 0 .. 3, k + y <= 4 + m
      PROVE  Stream[q + y] = c[k + y]
  <2>1. k + y \in 1 .. 4 + m /\ Off(i) + (k + y) = q + y
    <3>1. k \in Nat /\ k >= 1 /\ m \in Nat
      BY <1>5, <1>8
    <3>2. k + y \in 1 .. 4 + m
      BY <3>1, <1>9
    <3>3. Off(i) + (k + y) = q + y
      BY <3>1, <1>4, <1>7
    <3> QED BY <3>2, <3>3
  <2> QED BY <2>1, <1>6
<1>10. k # 4
  <2>1. k = 4 => k + 0 = 4 /\ k + 0 <= 4 + m /\ q + 0 = q
    BY <1>1, <1>5
  <2>2. 0 \in 0 .. 3
    OBVIOUS
  <2> QED BY <2>1, <2>2, <1>9, <1>a, <1>2, <1>6
<1>11. k # 3
  <2>1. k = 3 => k + 1 = 4 /\ k + 1 <= 4 + m
    BY <1>5
  <2>2. 1 \in 0 .. 3
    OBVIOUS
  <2> QED BY <2>1, <2>2, <1>9, <1>a, <1>2, <1>6
<1>12. k # 2
  <2>1. k = 2 => k + 2 = 4 /\ k + 2 <= 4 + m
    BY <1>5
  <2>2. 2 \in 0 .. 3
    OBVIOUS
  <2> QED BY <2>1, <2>2, <1>9, <1>a, <1>2, <1>6
<1>13. ~(k > 4)
  <2> SUFFICES ASSUME k > 4 PROVE FALSE
    OBVIOUS
  <2> DEFINE x == k - 4
  <2>1. x \in 1 .. m /\ x \in Nat \ {0}
    BY <1>5, <1>8
  <2>2. ASSUME NEW y \in 0 .. 3, x + y <= m
        PROVE  Stream[q + y] = u[x + y]
    <3>1. k + y <= 4 + m /\ x + y \in 1 .. m /\ 4 + (x + y) = k + y
      BY <2>2, <1>5, <1>8
    <3>2. Stream[q + y] = c[k + y]
      BY <3>1, <1>9
    <3>3. c[4 + (x + y)] = u[x + y]
      BY <3>1, <1>6
    <3> QED BY <3>1, <3>2, <3>3
  <2> HIDE DEF x
  <2>3. 0 \in 0 .. 3 /\ 1 \in 0 .. 3 /\ 2 \in 0 .. 3 /\ 3 \in 0 .. 3 /\ x + 0 = x /\ q + 0 = q
    BY <2>1, <1>1
  <2>4. CASE x + 3 <= m
    <3>1. x + 0 <= m /\ x + 1 <= m /\ x + 2 <= m
      BY <2>1, <2>4, <1>5
    <3>2. u[x] = 0 /\ u[x + 1] = 0 /\ u[x + 2] = 0 /\ u[x + 3] = 1
      BY <2>2, <2>3, <2>4, <3>1, <1>2
    <3>3. CodeAt(u, x)
      BY <2>1, <2>4, <3>2, <1>5, CodeIs DEF m
    <3> QED BY <3>3, <2>1, <1>5
  <2>5. CASE x + 3 > m
    <3>1. m = x + 0 \/ m = x + 1 \/ m = x + 2
      BY <2>1, <2>5, <1>5
    <3>2. ASSUME NEW y \in 0 .. 2, m = x + y PROVE FALSE
      <4>1. y \in 0 .. 3 /\ x + y <= m
        BY <3>2, <1>5
      <4>2. Stream[q + y] = u[m]
        BY <4>1, <3>2, <2>2
      <4>3. y = 0 \/ y = 1 \/ y = 2
        OBVIOUS
      <4>4. Stream[q + y] = 0
        BY <4>3, <2>3, <1>2
      <4> QED BY <4>2, <4>4, <1>8
    <3>3. 0 \in 0 .. 2 /\ 1 \in 0 .. 2 /\ 2 \in 0 .. 2
      OBVIOUS
    <3> QED BY <3>1, <3>2, <3>3
  <2> QED BY <2>1, <2>4, <2>5, <1>5
<1>14. k = 1
  BY <1>5, <1>8, <1>10, <1>11, <1>12, <1>13
<1> QED BY <1>4, <1>14

-----------------------------------------------------------------------------
(* What is received *)

\* Of the stream, R has come: the bytes at the positions S, which r enumerates.
Received(R, r, S) == /\ Enumerates(r, S)
                     /\ R \in Seq(Nat) /\ Len(R) = Len(r)
                     /\ \A p \in 1 .. Len(R) : R[p] = Stream[r[p]]

\* From a on, m + 1 numbers that follow each other are in S, or are listed at p.
Unbroken(S, a, m)  == \A t \in 0 .. m : a + t \in S
InRow(r, p, a, m) == \A t \in 0 .. m : r[p + t] = a + t

\* Numbers that follow each other are enumerated one behind the other.
LEMMA EnumUnbroken ==
  ASSUME NEW S, NEW r, Enumerates(r, S), NEW a \in Nat, NEW m \in Nat, Unbroken(S, a, m)
  PROVE  \E p \in 1 .. Len(r) : p + m \in 1 .. Len(r) /\ InRow(r, p, a, m)
<1>1. /\ Len(r) \in Nat /\ \A k \in 1 .. Len(r) : r[k] \in Nat
      /\ S = {r[k] : k \in 1 .. Len(r)}
      /\ \A j, k \in 1 .. Len(r) : j < k => r[j] < r[k]
  BY LenProperties, ElementOfSeq DEF Enumerates
<1>2. PICK p \in 1 .. Len(r) : r[p] = a
  <2>1. 0 \in 0 .. m /\ a + 0 = a
    OBVIOUS
  <2>2. a \in S
    BY <2>1 DEF Unbroken
  <2> QED BY <2>2, <1>1
<1> DEFINE A == {t \in 1 .. m : p + t \in 1 .. Len(r) /\ r[p + t] = a + t}
<1>3. ASSUME NEW t \in 1 .. m, t = 1 \/ t - 1 \in A
      PROVE  t \in A
  <2>1. p + (t - 1) \in 1 .. Len(r) /\ r[p + (t - 1)] = a + (t - 1)
    <3>1. CASE t = 1
      <4>1. p + (t - 1) = p /\ a + (t - 1) = a
        BY <3>1, <1>1
      <4> QED BY <4>1, <1>2
    <3>2. CASE t - 1 \in A
      BY <3>2
    <3> QED BY <3>1, <3>2, <1>3
  <2> DEFINE x == p + (t - 1)
  <2>2. x \in 1 .. Len(r) /\ r[x] = a + (t - 1) /\ p + t = x + 1
    BY <2>1, <1>1
  <2> HIDE DEF x
  <2>3. PICK y \in 1 .. Len(r) : r[y] = a + t
    <3>1. t \in 0 .. m
      OBVIOUS
    <3>2. a + t \in S
      BY <3>1 DEF Unbroken
    <3> QED BY <3>2, <1>1
  <2>4. y > x
    <3> SUFFICES ASSUME ~(y > x) PROVE FALSE
      OBVIOUS
    <3>1. y = x \/ y < x
      BY <2>2, <1>1
    <3>2. CASE y = x
      BY <3>2, <2>2, <2>3
    <3>3. CASE y < x
      <4>1. r[y] < r[x]
        BY <3>3, <2>2, <1>1
      <4> QED BY <4>1, <2>2, <2>3
    <3> QED BY <3>1, <3>2, <3>3
  <2>5. x + 1 \in 1 .. Len(r) /\ x < x + 1
    BY <2>2, <2>4, <1>1
  <2>6. r[x] < r[x + 1] /\ r[x + 1] \in Nat
    BY <2>2, <2>5, <1>1
  <2>7. r[x + 1] <= r[y]
    <3>1. y = x + 1 \/ x + 1 < y
      BY <2>2, <2>4, <1>1
    <3>2. x + 1 < y => r[x + 1] < r[y]
      BY <2>5, <1>1
    <3> QED BY <3>1, <3>2, <2>6, <1>1
  <2>8. r[x + 1] = a + t
    <3> DEFINE v == r[x + 1]
    <3>1. v \in Nat /\ a + (t - 1) < v /\ v <= a + t
      BY <2>2, <2>3, <2>6, <2>7
    <3> HIDE DEF v
    <3>2. v = a + t
      BY <3>1
    <3> QED BY <3>2 DEF v
  <2>9. p + t \in 1 .. Len(r) /\ r[p + t] = a + t
    BY <2>2, <2>5, <2>8
  <2> QED BY <2>9
<1>4. \A t \in 1 .. m : t \in A
  <2> HIDE DEF A
  <2> QED BY <1>3, Ascent
<1>5. ASSUME NEW t \in 0 .. m
      PROVE  p + t \in 1 .. Len(r) /\ r[p + t] = a + t
  <2>1. CASE t = 0
    <3>1. p + t = p /\ a + t = a
      BY <2>1, <1>1
    <3> QED BY <3>1, <1>2
  <2>2. CASE t # 0
    <3>1. t \in 1 .. m
      BY <2>2
    <3> QED BY <3>1, <1>4
  <2> QED BY <2>1, <2>2
<1>6. m \in 0 .. m
  OBVIOUS
<1> QED BY <1>5, <1>6 DEF InRow

\* A code of the stream of which nothing is lost is one of what is received ...
LEMMA CodeKept ==
  ASSUME NEW R, NEW r, NEW S, Received(R, r, S), NEW q \in Codes(Stream), units \in Seq(Units),
         NEW p \in 1 .. Len(r), p + 3 \in 1 .. Len(r), InRow(r, p, q, 3)
  PROVE  p \in Codes(R)
<1>1. /\ q \in Nat \ {0} /\ Stream[q] = 0 /\ Stream[q + 1] = 0 /\ Stream[q + 2] = 0 /\ Stream[q + 3] = 1
  <2>1. Stream \in Seq(Nat)
    BY OffIs
  <2>2. q \in Nat \ {0} /\ CodeAt(Stream, q)
    BY <2>1, CodeInside DEF Codes
  <2> QED BY <2>1, <2>2, CodeIs
<1>2. /\ R \in Seq(Nat) /\ Len(R) = Len(r) /\ Len(r) \in Nat
      /\ \A x \in 1 .. Len(R) : R[x] = Stream[r[x]]
  BY LenProperties DEF Received
<1>3. ASSUME NEW t \in 0 .. 3
      PROVE  R[p + t] = Stream[q + t]
  <2>1. p + t \in 1 .. Len(R)
    <3>1. \A x \in Nat : p \in 1 .. x /\ p + 3 \in 1 .. x => p + t \in 1 .. x
      OBVIOUS
    <3> QED BY <3>1, <1>2
  <2> QED BY <2>1, <1>2 DEF InRow
<1>4. R[p] = 0 /\ R[p + 1] = 0 /\ R[p + 2] = 0 /\ R[p + 3] = 1
  <2>1. 0 \in 0 .. 3 /\ 1 \in 0 .. 3 /\ 2 \in 0 .. 3 /\ 3 \in 0 .. 3 /\ p + 0 = p /\ q + 0 = q
    BY <1>1, <1>2
  <2>2. /\ R[p + 0] = Stream[q + 0] /\ R[p + 1] = Stream[q + 1]
        /\ R[p + 2] = Stream[q + 2] /\ R[p + 3] = Stream[q + 3]
    BY <2>1, <1>3
  <2> QED BY <2>1, <2>2, <1>1
<1>5. p \in Nat \ {0} /\ p + 3 <= Len(R) /\ p \in 1 .. Len(R)
  BY <1>2
<1>6. CodeAt(R, p)
  BY <1>2, <1>4, <1>5, CodeIs
<1> QED BY <1>5, <1>6 DEF Codes

\* ... and the other way round.
LEMMA CodeWhere ==
  ASSUME NEW R, NEW r, NEW S \in SUBSET (1 .. Len(Stream)), Received(R, r, S), units \in Seq(Units),
         NEW p \in Codes(R), NEW q \in Nat, InRow(r, p, q, 3)
  PROVE  \E i \in 1 .. Len(units) : q = Off(i) + 1
<1>1. /\ R \in Seq(Nat) /\ Len(R) = Len(r) /\ Len(r) \in Nat
      /\ \A x \in 1 .. Len(R) : R[x] = Stream[r[x]] /\ r[x] \in S
  BY LenProperties DEF Received, Enumerates
<1>2. p \in Nat \ {0} /\ p + 3 <= Len(R) /\ CodeAt(R, p)
  BY <1>1, CodeInside DEF Codes
<1>3. R[p] = 0 /\ R[p + 1] = 0 /\ R[p + 2] = 0 /\ R[p + 3] = 1
  BY <1>1, <1>2, CodeIs
<1>4. Stream \in Seq(Nat) /\ Len(Stream) \in Nat
  BY OffIs
<1>5. ASSUME NEW t \in 0 .. 3
      PROVE  R[p + t] = Stream[q + t] /\ q + t \in 1 .. Len(Stream)
  <2>1. p + t \in 1 .. Len(R)
    BY <1>1, <1>2
  <2> QED BY <2>1, <1>1 DEF InRow
<1>6. /\ 0 \in 0 .. 3 /\ 1 \in 0 .. 3 /\ 2 \in 0 .. 3 /\ 3 \in 0 .. 3 /\ p + 0 = p /\ q + 0 = q
  BY <1>2
<1>7. Stream[q] = 0 /\ Stream[q + 1] = 0 /\ Stream[q + 2] = 0 /\ Stream[q + 3] = 1
  <2>2. /\ R[p + 0] = Stream[q + 0] /\ R[p + 1] = Stream[q + 1]
        /\ R[p + 2] = Stream[q + 2] /\ R[p + 3] = Stream[q + 3]
    BY <1>5, <1>6
  <2> QED BY <2>2, <1>3, <1>6
<1>8. q \in 1 .. Len(Stream) /\ q \in Nat \ {0} /\ q + 3 <= Len(Stream)
  <2>1. q + 0 \in 1 .. Len(Stream) /\ q + 3 \in 1 .. Len(Stream)
    BY <1>5, <1>6
  <2> QED BY <2>1, <1>4, <1>6
<1>9. q \in Codes(Stream)
  BY <1>4, <1>7, <1>8, CodeIs DEF Codes
<1> QED BY <1>9, StreamCodes

\* The codes before the units are codes.
LEMMA OffCode ==
  ASSUME units \in Seq(Units), NEW i \in 1 .. Len(units)
  PROVE  Off(i) + 1 \in Codes(Stream)
<1> DEFINE o == Off(i)
           m == Len(units[i])
           c == Coded(i)
<1>1. m \in Nat \ {0} /\ Len(units) \in Nat
  BY UnitTyped
<1>2. \A k \in 1 .. 4 + m : Stream[o + k] = c[k]
  BY StreamAt
<1>3. c[1] = 0 /\ c[2] = 0 /\ c[3] = 0 /\ c[4] = 1
  BY CodedIs
<1>4. o \in Nat /\ Stream \in Seq(Nat) /\ Len(Stream) \in Nat /\ o + 4 <= Len(Stream)
  <2>1. i \in 1 .. Len(units) + 1 /\ Len(units) + 1 \in 1 .. Len(units) + 1 /\ i < Len(units) + 1
    BY <1>1
  <2>2. Off(i + 1) <= Off(Len(units) + 1) /\ Off(Len(units) + 1) = Len(Stream)
    BY <2>1, OffRises, OffIs
  <2>3. o \in Nat /\ Stream \in Seq(Nat) /\ Len(Stream) \in Nat /\ Off(i + 1) = o + 4 + m
    BY <2>1, OffIs
  <2> HIDE DEF o, m
  <2> QED BY <2>2, <2>3, <1>1
<1> HIDE DEF o, m, c
<1>5. /\ 1 \in 1 .. 4 + m /\ 2 \in 1 .. 4 + m /\ 3 \in 1 .. 4 + m /\ 4 \in 1 .. 4 + m
  BY <1>1
<1>6. Stream[o + 1] = 0 /\ Stream[o + 2] = 0 /\ Stream[o + 3] = 0 /\ Stream[o + 4] = 1
  BY <1>2, <1>3, <1>5
<1>7. /\ (o + 1) + 1 = o + 2 /\ (o + 1) + 2 = o + 3 /\ (o + 1) + 3 = o + 4
      /\ o + 1 \in Nat \ {0} /\ o + 1 \in 1 .. Len(Stream)
  BY <1>4
<1>8. CodeAt(Stream, o + 1)
  BY <1>4, <1>6, <1>7, CodeIs
<1> QED BY <1>7, <1>8 DEF Codes, o

\* The bytes of a unit and of the two codes.
LEMMA ExtentIs ==
  ASSUME units \in Seq(Units), NEW i \in 1 .. Len(units)
  PROVE  /\ Extent(i) = Off(i) + 1 .. Off(i + 1) + 4
         /\ Off(i) \in Nat /\ Off(i + 1) \in Nat /\ Off(i + 1) = Off(i) + 4 + Len(units[i])
         /\ Ends(i) = Off(i + 1) + 4
<1>1. i \in 1 .. Len(units) + 1 /\ i + 1 \in 1 .. Len(units) + 1
  BY UnitTyped
<1>2. Off(i) \in Nat /\ Off(i + 1) \in Nat /\ Off(i + 1) = Off(i) + 4 + Len(units[i])
  BY <1>1, OffIs
<1>3. Extent(i) = Off(i) + 1 .. Off(i) + 4 + Len(units[i]) + 4
  BY DEF Extent, Off, First
<1>4. Extent(i) = Off(i) + 1 .. Off(i + 1) + 4
  BY <1>2, <1>3
<1> DEFINE n == Off(i + 1) + 4
<1>5. Max(Extent(i)) = n
  <2>1. n \in Extent(i) /\ \A k \in Extent(i) : k <= n
    <3> DEFINE w == Len(units[i])
               a == Off(i)
               b == Off(i + 1)
    <3>1. w \in Nat /\ b = a + 4 + w /\ a \in Nat /\ b \in Nat /\ Extent(i) = a + 1 .. b + 4
      BY <1>2, <1>4, UnitTyped
    <3> HIDE DEF w, a, b
    <3>2. b + 4 \in Extent(i) /\ \A k \in Extent(i) : k <= b + 4
      BY <3>1
    <3> QED BY <3>2 DEF b
  <2>2. Extent(i) \in SUBSET (1 .. n) /\ Extent(i) # {} /\ n \in Nat
    BY <2>1, <1>2, <1>4
  <2>3. Max(Extent(i)) \in Extent(i) /\ \A k \in Extent(i) : k <= Max(Extent(i))
    <3> HIDE DEF n
    <3> QED BY <2>2, Greatest
  <2>4. Max(Extent(i)) \in Nat
    BY <2>2, <2>3
  <2> HIDE DEF n
  <2> QED BY <2>1, <2>2, <2>3, <2>4
<1> QED BY <1>2, <1>4, <1>5 DEF Ends

-----------------------------------------------------------------------------
(* A whole unit *)

\* Of what is sent all that is not in L was received.  Nothing of unit i or of a code at
\* its ends is lost; p and p2 are codes without one between, and the first byte behind
\* p, or a later one up to p2, is the byte x of the unit.
Around(k, L, R, r, i, x, q, p, p2) ==
  /\ k \in 0 .. Len(Stream) /\ Received(R, r, (1 .. k) \ L)
  /\ i \in 1 .. Len(units) /\ Extent(i) \cap L = {}
  /\ x \in 1 .. Len(units[i]) /\ q \in 1 .. Len(R) /\ r[q] = Off(i) + 4 + x
  /\ p \in Codes(R) /\ p2 \in Codes(R) /\ ~(\E z \in Codes(R) : p < z /\ z < p2)
  /\ p + 4 <= q /\ q <= p2

\* Then the whole unit is between them.
LEMMA UnitWhole ==
  ASSUME units \in Seq(Units), NEW k, NEW L, NEW R, NEW r, NEW i, NEW x, NEW q, NEW p, NEW p2,
         Around(k, L, R, r, i, x, q, p, p2)
  PROVE  SubSeq(R, p + 4, p2 - 1) = units[i]
<1> DEFINE S == (1 .. k) \ L
           o == Off(i)
           m == Len(units[i])
           n == Len(R)
           e == IF o + m + 8 <= k THEN o + m + 8 ELSE k
<1>1. /\ k \in 0 .. Len(Stream) /\ Received(R, r, S)
      /\ i \in 1 .. Len(units) /\ Extent(i) \cap L = {}
      /\ x \in 1 .. m /\ q \in 1 .. n /\ r[q] = o + 4 + x
      /\ p \in Codes(R) /\ p2 \in Codes(R) /\ ~(\E z \in Codes(R) : p < z /\ z < p2)
      /\ p + 4 <= q /\ q <= p2
  BY DEF Around
<1>2. /\ Extent(i) = o + 1 .. o + m + 8 /\ o \in Nat /\ Off(i + 1) = o + 4 + m
      /\ m \in Nat \ {0} /\ Len(units) \in Nat /\ units[i] \in Seq(Nat)
  <2>1. /\ Extent(i) = o + 1 .. Off(i + 1) + 4 /\ o \in Nat /\ Off(i + 1) = o + 4 + m
        /\ m \in Nat \ {0} /\ Len(units) \in Nat /\ units[i] \in Seq(Nat)
    BY <1>1, ExtentIs, UnitTyped
  <2> HIDE DEF o, m
  <2>2. (o + 4 + m) + 4 = o + m + 8
    BY <2>1
  <2> QED BY <2>1, <2>2
<1>3. k \in Nat /\ k <= Len(Stream) /\ Len(Stream) \in Nat /\ Off(Len(units) + 1) = Len(Stream)
  BY <1>1, OffIs
<1>4. /\ R \in Seq(Nat) /\ n \in Nat /\ n = Len(r) /\ Enumerates(r, S)
      /\ \A y \in 1 .. n : R[y] = Stream[r[y]] /\ r[y] \in S
      /\ \A y, z \in 1 .. n : y < z => r[y] < r[z]
  BY <1>1, LenProperties DEF Received, Enumerates
<1>5. \A y \in 1 .. n : r[y] \in Nat /\ r[y] >= 1 /\ r[y] <= k
  <2> SUFFICES ASSUME NEW y \in 1 .. n PROVE r[y] \in Nat /\ r[y] >= 1 /\ r[y] <= k
    OBVIOUS
  <2>1. r[y] \in 1 .. k
    BY <1>4
  <2> QED BY <2>1, <1>3
<1>6. S \in SUBSET (1 .. Len(Stream))
  BY <1>3
<1> HIDE DEF S, o, m, n
<1>7. e \in Nat /\ e <= k /\ e <= o + m + 8 /\ o + 4 + x <= e
  <2>1. o + 4 + x <= k
    BY <1>1, <1>5
  <2>2. o + 4 + x <= o + m + 8
    BY <1>1, <1>2
  <2> QED BY <2>1, <2>2, <1>2, <1>3
<1>8. ASSUME NEW y \in o + 1 .. e PROVE y \in S
  <2>1. y \in 1 .. k /\ y \in o + 1 .. o + m + 8
    BY <1>2, <1>3, <1>7
  <2>2. y \notin L
    BY <2>1, <1>1, <1>2
  <2> QED BY <2>1, <2>2 DEF S
<1> DEFINE l == e - (o + 1)
<1>9. l \in Nat /\ o + 1 + l = e /\ l >= 3 + x
  <2> HIDE DEF e
  <2> QED BY <1>1, <1>2, <1>7
<1> HIDE DEF l, e
<1>10. /\ x \in Nat \ {0} /\ x <= m /\ m \in Nat \ {0} /\ o \in Nat
       /\ l \in Nat /\ l >= 3 + x /\ o + 1 + l = e
  BY <1>1, <1>2, <1>9
<1>11. PICK p0 \in 1 .. n : /\ p0 + l \in 1 .. n /\ \A t \in 0 .. l : r[p0 + t] = o + 1 + t
  <2>1. Unbroken(S, o + 1, l)
    <3> SUFFICES ASSUME NEW t \in 0 .. l PROVE (o + 1) + t \in S
      BY DEF Unbroken
    <3>1. (o + 1) + t \in o + 1 .. e
      BY <1>2, <1>7, <1>9
    <3> QED BY <3>1, <1>8
  <2>2. o + 1 \in Nat /\ l \in Nat
    BY <1>2, <1>9
  <2>3. \E p0 \in 1 .. Len(r) : p0 + l \in 1 .. Len(r) /\ InRow(r, p0, o + 1, l)
    BY <2>1, <2>2, <1>4, EnumUnbroken
  <2> QED BY <2>3, <1>4 DEF InRow
<1>12. p0 \in Nat /\ \A t \in 0 .. l : p0 + t \in 1 .. n
  BY <1>4, <1>9, <1>11
<1>13. q = p0 + 3 + x
  <2> DEFINE y == p0 + (3 + x)
  <2>1. 3 + x \in 0 .. l /\ o + 1 + (3 + x) = o + 4 + x
    BY <1>10
  <2>2. y \in 1 .. n /\ r[y] = r[q]
    BY <2>1, <1>1, <1>11, <1>12
  <2> HIDE DEF y
  <2>3. ~(y < q) /\ ~(q < y)
    BY <2>2, <1>1, <1>4, <1>5
  <2>4. y = q
    BY <2>2, <2>3, <1>1, <1>4
  <2>5. y = p0 + 3 + x
    BY <1>12, <1>10 DEF y
  <2> QED BY <2>4, <2>5
<1>14. p0 \in Codes(R)
  <2>1. o + 1 \in Codes(Stream)
    BY <1>1, OffCode DEF o
  <2>2. p0 \in 1 .. Len(r) /\ p0 + 3 \in 1 .. Len(r)
    <3>1. 3 \in 0 .. l
      BY <1>10
    <3> QED BY <3>1, <1>4, <1>12
  <2>3. ASSUME NEW t \in 0 .. 3 PROVE r[p0 + t] = (o + 1) + t
    <3>1. t \in 0 .. l
      BY <1>10
    <3> QED BY <3>1, <1>11
  <2>4. InRow(r, p0, o + 1, 3)
    BY <2>3 DEF InRow
  <2> QED BY <2>1, <2>2, <2>4, <1>1, CodeKept
<1>15. /\ p \in Nat \ {0} /\ p + 3 <= n /\ p2 \in Nat \ {0} /\ p2 + 3 <= n
  BY <1>1, <1>4, CodeInside DEF n
<1>16. p0 <= p
  <2>1. p0 < p2
    BY <1>1, <1>2, <1>12, <1>13, <1>15
  <2> QED BY <2>1, <1>1, <1>12, <1>14, <1>15
\* A code that lies in the run is that of a unit.
<1>17. ASSUME NEW s \in Nat, s + 3 <= l, p0 + s \in Codes(R)
       PROVE  \E j \in 1 .. Len(units) : o + s = Off(j)
  <2>1. \A t \in 0 .. 3 : r[(p0 + s) + t] = (o + 1 + s) + t
    <3> SUFFICES ASSUME NEW t \in 0 .. 3 PROVE r[(p0 + s) + t] = (o + 1 + s) + t
      OBVIOUS
    <3>1. s + t \in 0 .. l /\ p0 + (s + t) = (p0 + s) + t /\ o + 1 + (s + t) = (o + 1 + s) + t
      BY <1>2, <1>9, <1>12, <1>17
    <3> QED BY <3>1, <1>11
  <2> DEFINE w == o + 1 + s
             v == p0 + s
  <2>2. w \in Nat /\ v \in Codes(R) /\ InRow(r, v, w, 3)
    BY <2>1, <1>2, <1>17 DEF InRow
  <2> HIDE DEF v, w
  <2>3. \E j \in 1 .. Len(units) : w = Off(j) + 1
    BY <2>2, <1>1, <1>6, CodeWhere
  <2>4. \E j \in 1 .. Len(units) : o + 1 + s = Off(j) + 1
    BY <2>3 DEF w
  <2>5. PICK j \in 1 .. Len(units) : o + 1 + s = Off(j) + 1
    BY <2>4
  <2>6. Off(j) \in Nat
    BY ExtentIs
  <2> QED BY <2>5, <2>6, <1>2
\* There is none strictly between those of i and of the next.
<1>18. ASSUME NEW s \in Nat, s + 3 <= l, p0 + s \in Codes(R)
       PROVE  s = 0 \/ s >= 4 + m
  <2>1. PICK j \in 1 .. Len(units) : o + s = Off(j)
    BY <1>17, <1>18
  <2>2. j \in 1 .. Len(units) + 1 /\ i \in 1 .. Len(units) + 1 /\ i \in 1 .. Len(units)
    <3> DEFINE v == Len(units)
    <3>1. v \in Nat /\ i \in 1 .. v /\ j \in 1 .. v
      BY <1>1, <1>2
    <3> HIDE DEF v
    <3>2. j \in 1 .. v + 1 /\ i \in 1 .. v + 1 /\ i \in 1 .. v
      BY <3>1
    <3> QED BY <3>2 DEF v
  <2>3. CASE j < i
    <3>1. Off(j) < o
      BY <2>2, <2>3, OffRises DEF o
    <3> QED BY <3>1, <2>1, <1>2
  <2>4. CASE j = i
    BY <2>1, <2>4, <1>2 DEF o
  <2>5. CASE i < j
    <3>1. o + 4 + m <= Off(j)
      BY <2>2, <2>5, <1>2, OffRises
    <3> QED BY <3>1, <2>1, <1>2
  <2> QED BY <2>2, <2>3, <2>4, <2>5
<1>19. p = p0
  <2> DEFINE s == p - p0
  <2>1. s \in Nat /\ s <= x - 1 /\ p0 + s = p
    <3>1. p + 4 <= q
      BY <1>1
    <3> QED BY <3>1, <1>12, <1>13, <1>15, <1>16, <1>10
  <2> HIDE DEF s
  <2>2. s + 3 <= l /\ ~(s >= 4 + m)
    BY <2>1, <1>10
  <2>3. s = 0
    BY <2>1, <2>2, <1>1, <1>18
  <2> QED BY <2>1, <2>3, <1>12
<1> DEFINE s == p2 - p0
<1>20. s \in Nat /\ p0 + s = p2 /\ s >= 3 + x
  BY <1>1, <1>2, <1>12, <1>13, <1>15
<1> HIDE DEF s
<1>21. ASSUME o + m + 8 <= k PROVE s = 4 + m
  <2>1. l = m + 7 /\ e = o + m + 8
    <3>1. e = o + m + 8
      BY <1>21 DEF e
    <3> QED BY <3>1, <1>2, <1>9
  <2>2. i + 1 \in 1 .. Len(units) /\ Off(i + 1) = o + 4 + m
    <3>1. i # Len(units)
      <4> SUFFICES ASSUME i = Len(units) PROVE FALSE
        OBVIOUS
      <4>1. o + 4 + m = Len(Stream)
        BY <1>2, <1>3
      <4> QED BY <4>1, <1>2, <1>3, <1>21
    <3> QED BY <3>1, <1>1, <1>2
  <2>3. p0 + (4 + m) \in Codes(R)
    <3>1. o + 4 + m + 1 \in Codes(Stream)
      BY <2>2, OffCode
    <3> DEFINE z == p0 + (4 + m)
    <3>2. z \in 1 .. Len(r) /\ z + 3 \in 1 .. Len(r)
      <4>1. 4 + m \in 0 .. l /\ (4 + m) + 3 \in 0 .. l /\ p0 + ((4 + m) + 3) = (p0 + (4 + m)) + 3
        BY <2>1, <1>2, <1>12
      <4> QED BY <4>1, <1>4, <1>12
    <3>3. ASSUME NEW t \in 0 .. 3 PROVE r[z + t] = (o + 4 + m + 1) + t
      <4>1. /\ (4 + m) + t \in 0 .. l /\ p0 + ((4 + m) + t) = (p0 + (4 + m)) + t
            /\ o + 1 + ((4 + m) + t) = (o + 4 + m + 1) + t
        BY <2>1, <1>2, <1>12
      <4> QED BY <4>1, <1>11
    <3> HIDE DEF z
    <3>4. InRow(r, z, o + 4 + m + 1, 3)
      BY <3>3 DEF InRow
    <3>5. z \in Codes(R)
      BY <3>1, <3>2, <3>4, <1>1, CodeKept
    <3> QED BY <3>5 DEF z
  <2>4. s <= 4 + m
    <3>1. p < p0 + (4 + m)
      BY <1>2, <1>12, <1>19
    <3>2. ~(p0 + (4 + m) < p2)
      BY <3>1, <2>3, <1>1
    <3> QED BY <3>2, <1>2, <1>12, <1>15, <1>20
  <2>5. s + 3 <= l
    BY <2>1, <2>4, <1>2, <1>20
  <2>6. s = 0 \/ s >= 4 + m
    BY <2>5, <1>1, <1>18, <1>20
  <2>7. s = 4 + m
    BY <2>4, <2>6, <1>1, <1>2, <1>20
  <2> QED BY <2>7
<1>22. ASSUME ~(o + m + 8 <= k) PROVE FALSE
  <2>1. e = k /\ l < m + 7
    <3>1. e = k
      BY <1>22 DEF e
    <3> QED BY <3>1, <1>2, <1>3, <1>9, <1>22
  <2>2. p2 + 3 <= p0 + l
    <3> SUFFICES ASSUME p0 + l < p2 + 3 PROVE FALSE
      BY <1>9, <1>12, <1>15
    <3>1. p2 + 3 \in 1 .. n /\ p0 + l \in 1 .. n
      BY <1>4, <1>11, <1>15
    <3>2. r[p0 + l] < r[p2 + 3] /\ r[p2 + 3] <= k
      BY <3>1, <1>4, <1>5
    <3>3. r[p0 + l] = k
      <4>1. l \in 0 .. l
        BY <1>9
      <4> QED BY <4>1, <2>1, <1>9, <1>11
    <3> QED BY <3>1, <3>2, <3>3, <1>3, <1>5
  <2>3. s + 3 <= l
    BY <2>2, <1>9, <1>12, <1>20
  <2>4. s = 0 \/ s >= 4 + m
    BY <2>3, <1>1, <1>18, <1>20
  <2> QED BY <2>1, <2>3, <2>4, <1>1, <1>2, <1>9, <1>20
<1>23. s = 4 + m /\ s + 3 <= l
  <2>1. CASE o + m + 8 <= k
    <3>1. s = 4 + m
      BY <2>1, <1>21
    <3>2. e = o + m + 8
      BY <2>1 DEF e
    <3> QED BY <3>1, <3>2, <1>2, <1>9
  <2>2. CASE ~(o + m + 8 <= k)
    BY <2>2, <1>22
  <2> QED BY <2>1, <2>2
<1>24. SubSeq(R, p + 4, p2 - 1) = units[i]
  <2> DEFINE u == units[i]
             z == p0 + 3
  <2>1. u \in Seq(Nat) /\ Len(u) = m /\ z \in Nat
    BY <1>2, <1>12 DEF m
  <2>2. ASSUME NEW y \in 1 .. m PROVE z + y \in 1 .. n /\ u[y] = R[z + y]
    <3>1. /\ 3 + y \in 0 .. l /\ p0 + (3 + y) = z + y
          /\ o + 1 + (3 + y) = o + (4 + y) /\ 4 + y \in 1 .. 4 + m
      BY <1>2, <1>9, <1>12, <1>23
    <3>2. z + y \in 1 .. n /\ r[z + y] = o + (4 + y)
      BY <3>1, <1>11, <1>12
    <3>3. Stream[o + (4 + y)] = Coded(i)[4 + y]
      BY <3>1, <1>1, StreamAt DEF o, m
    <3>4. Coded(i)[4 + y] = u[y]
      BY <1>1, CodedIs DEF m
    <3> QED BY <3>2, <3>3, <3>4, <1>4
  <2>3. p + 4 = z + 1 /\ p2 - 1 = z + m /\ 1 \in Int /\ m \in Int
    BY <1>2, <1>12, <1>15, <1>19, <1>20, <1>23
  <2> HIDE DEF u, z
  <2>4. SubSeq(u, 1, m) = SubSeq(R, z + 1, z + m)
    <3>1. \A y \in 1 .. m : y \in 1 .. Len(u) /\ z + y \in 1 .. Len(R) /\ u[y] = R[z + y]
      BY <2>1, <2>2 DEF n
    <3>2. u \in Seq(Nat) /\ R \in Seq(Nat) /\ z \in Nat /\ 1 \in Int /\ m \in Int
      BY <2>1, <2>3, <1>4
    <3> QED BY ONLY <3>1, <3>2, SamePiece
  <2>5. SubSeq(u, 1, m) = u
    BY <2>1, SubSeqFull
  <2> QED BY <2>3, <2>4, <2>5 DEF u
<1> QED BY <1>24

\* Two of the codes that Positions lists one behind the other have none between.
LEMMA NextCode ==
  ASSUME NEW s \in Seq(Nat), NEW c, c = Positions(s),
         NEW j \in 1 .. Len(c), j + 1 \in 1 .. Len(c)
  PROVE  /\ c[j] \in Codes(s) /\ c[j + 1] \in Codes(s)
         /\ ~(\E z \in Codes(s) : c[j] < z /\ z < c[j + 1])
         /\ c[j] \in Nat \ {0} /\ c[j + 1] \in Nat /\ c[j + 1] + 3 <= Len(s) /\ c[j] + 4 <= c[j + 1]
<1>1. /\ Len(c) \in Nat
      /\ \A x \in 1 .. Len(c) : c[x] \in Nat \ {0} /\ c[x] + 3 <= Len(s) /\ c[x] \in Codes(s)
      /\ \A x \in 1 .. Len(c) : x + 1 \in 1 .. Len(c) => c[x] + 4 <= c[x + 1]
      /\ \A p \in Codes(s) : \E x \in 1 .. Len(c) : c[x] = p
      /\ \A x, y \in 1 .. Len(c) : x < y => c[x] < c[y]
  BY PositionsTyped
<1>2. ASSUME NEW z \in Codes(s), c[j] < z, z < c[j + 1]
      PROVE  FALSE
  <2>1. PICK y \in 1 .. Len(c) : c[y] = z
    BY <1>1
  <2>2. y <= j \/ j + 1 <= y
    BY <1>1
  <2>3. y < j \/ y = j \/ j + 1 < y \/ j + 1 = y
    BY <2>2, <1>1
  <2>4. c[y] \in Nat /\ c[j] \in Nat /\ c[j + 1] \in Nat
    BY <1>1
  <2>5. c[y] < c[j] \/ c[y] = c[j] \/ c[j + 1] < c[y] \/ c[j + 1] = c[y]
    BY <2>3, <1>1
  <2> QED BY <2>1, <2>4, <2>5, <1>2
<1> QED BY <1>1, <1>2

\* Of what is sent all that is not in L was received, and all of unit i and of the
\* codes at its ends.
Intact(k, L, R, r, i) ==
  /\ k \in 0 .. Len(Stream) /\ Received(R, r, (1 .. k) \ L)
  /\ i \in 1 .. Len(units) /\ Extent(i) \cap L = {} /\ Ends(i) <= k

\* Such a unit is found.
LEMMA UnitFound ==
  ASSUME units \in Seq(Units), NEW k, NEW L, NEW R, NEW r, NEW i, Intact(k, L, R, r, i)
  PROVE  \E j \in 1 .. Len(Split(R).nals) :
            Split(R).nals[j] = units[i] /\ r[Positions(R)[j]] = Off(i) + 1
<1> DEFINE S == (1 .. k) \ L
           o == Off(i)
           m == Len(units[i])
           l == m + 7
           c == Positions(R)
           n == Split(R).nals
<1>1. /\ k \in 0 .. Len(Stream) /\ Received(R, r, S)
      /\ i \in 1 .. Len(units) /\ Extent(i) \cap L = {}
  BY DEF Intact
<1>2. /\ Extent(i) = o + 1 .. o + 4 + m + 4 /\ o + 4 + m + 4 <= k /\ o \in Nat /\ Off(i + 1) = o + 4 + m
      /\ m \in Nat \ {0} /\ Len(units) \in Nat
  <2>1. Extent(i) = o + 1 .. Off(i + 1) + 4 /\ Ends(i) = Off(i + 1) + 4 /\ Off(i + 1) = o + 4 + m
        /\ o \in Nat /\ m \in Nat \ {0} /\ Len(units) \in Nat
    BY <1>1, ExtentIs, UnitTyped
  <2>2. Ends(i) <= k
    BY DEF Intact
  <2> HIDE DEF o, m
  <2> QED BY <2>1, <2>2
<1>3. k \in Nat /\ k <= Len(Stream) /\ Len(Stream) \in Nat /\ Off(Len(units) + 1) = Len(Stream)
  BY <1>1, OffIs
<1>4. R \in Seq(Nat) /\ Len(R) \in Nat /\ Len(R) = Len(r) /\ Enumerates(r, S)
  BY <1>1, LenProperties DEF Received
<1> HIDE DEF o, m, c, n
<1>5. Unbroken(S, o + 1, l)
  <2> SUFFICES ASSUME NEW t \in 0 .. l PROVE (o + 1) + t \in S
    BY DEF Unbroken
  <2>1. (o + 1) + t \in o + 1 .. o + 4 + m + 4 /\ (o + 1) + t \in 1 .. k
    BY <1>2, <1>3
  <2> QED BY <2>1, <1>1, <1>2
<1> HIDE DEF S
<1>6. l \in Nat /\ o + 1 \in Nat
  BY <1>2
<1>7. PICK p0 \in 1 .. Len(r) : p0 + l \in 1 .. Len(r) /\ InRow(r, p0, o + 1, l)
  <2> HIDE DEF l
  <2> QED BY <1>4, <1>5, <1>6, EnumUnbroken
<1>8. \A t \in 0 .. l : r[p0 + t] = (o + 1) + t
  BY <1>7 DEF InRow
<1>9. p0 \in Codes(R)
  <2>1. o + 1 \in Codes(Stream)
    BY <1>1, OffCode DEF o
  <2>2. p0 + 3 \in 1 .. Len(r)
    BY <1>2, <1>4, <1>7
  <2>3. InRow(r, p0, o + 1, 3)
    <3> SUFFICES ASSUME NEW t \in 0 .. 3 PROVE r[p0 + t] = (o + 1) + t
      BY DEF InRow
    <3>1. t \in 0 .. l
      BY <1>2
    <3> QED BY <3>1, <1>8
  <2> QED BY <2>1, <2>2, <2>3, <1>1, CodeKept
<1> DEFINE z == p0 + (4 + m)
<1>10. z \in Codes(R)
  <2>1. i + 1 \in 1 .. Len(units) /\ Off(i + 1) = o + 4 + m
    <3>1. i # Len(units)
      <4> SUFFICES ASSUME i = Len(units) PROVE FALSE
        OBVIOUS
      <4>1. o + 4 + m = Len(Stream)
        BY <1>2, <1>3
      <4> QED BY <4>1, <1>2, <1>3
    <3> QED BY <3>1, <1>1, <1>2
  <2>2. o + 4 + m + 1 \in Codes(Stream)
    BY <2>1, OffCode
  <2>3. z \in 1 .. Len(r) /\ z + 3 \in 1 .. Len(r)
    BY <1>2, <1>4, <1>7
  <2>4. InRow(r, z, o + 4 + m + 1, 3)
    <3> SUFFICES ASSUME NEW t \in 0 .. 3 PROVE r[z + t] = (o + 4 + m + 1) + t
      BY DEF InRow
    <3>1. /\ (4 + m) + t \in 0 .. l /\ p0 + ((4 + m) + t) = z + t
          /\ o + 1 + ((4 + m) + t) = (o + 4 + m + 1) + t
      BY <1>2, <1>4, <1>7
    <3> QED BY <3>1, <1>8
  <2> HIDE DEF z
  <2> QED BY <2>2, <2>3, <2>4, <1>1, CodeKept
<1>11. z \in Nat /\ p0 \in Nat /\ p0 < z
  BY <1>2, <1>4
<1> HIDE DEF z, l
<1>12. PICK j \in 1 .. Len(c) : c[j] = p0 /\ j + 1 \in 1 .. Len(c)
  <2>1. /\ Len(c) \in Nat /\ \A p \in Codes(R) : \E x \in 1 .. Len(c) : c[x] = p
        /\ \A x, y \in 1 .. Len(c) : x < y => c[x] < c[y]
        /\ \A x \in 1 .. Len(c) : c[x] \in Nat
    BY <1>4, PositionsTyped DEF c
  <2>2. PICK x \in 1 .. Len(c) : c[x] = p0
    BY <2>1, <1>9
  <2>3. PICK y \in 1 .. Len(c) : c[y] = z
    BY <2>1, <1>10
  <2>4. x < y
    <3> SUFFICES ASSUME y <= x PROVE FALSE
      BY <2>1
    <3>1. y = x \/ y < x
      BY <2>1
    <3> QED BY <3>1, <2>1, <2>2, <2>3, <1>11
  <2>5. x + 1 \in 1 .. Len(c)
    BY <2>1, <2>4
  <2> QED BY <2>2, <2>5
<1>13. /\ c[j] \in Codes(R) /\ c[j + 1] \in Codes(R)
       /\ ~(\E y \in Codes(R) : c[j] < y /\ y < c[j + 1])
       /\ c[j] \in Nat \ {0} /\ c[j + 1] \in Nat /\ c[j + 1] + 3 <= Len(R) /\ c[j] + 4 <= c[j + 1]
  BY <1>4, <1>12, NextCode DEF c
<1>14. SubSeq(R, c[j] + 4, c[j + 1] - 1) = units[i]
  <2> DEFINE q == p0 + 4
  <2>1. q \in 1 .. Len(R) /\ r[q] = o + 4 + 1 /\ 1 \in 1 .. m
    <3>1. 4 \in 0 .. l /\ (o + 1) + 4 = o + 4 + 1
      BY <1>2 DEF l
    <3>2. q \in 1 .. Len(R)
      BY <1>2, <1>4, <1>7, <1>11 DEF l
    <3> QED BY <3>1, <3>2, <1>2, <1>8
  <2>2. c[j] + 4 <= q /\ q <= c[j + 1]
    BY <1>11, <1>12, <1>13
  <2> HIDE DEF q
  <2>3. r[q] = Off(i) + 4 + 1 /\ 1 \in 1 .. Len(units[i])
    BY <2>1 DEF o, m
  <2>4. Received(R, r, (1 .. k) \ L)
    BY <1>1 DEF S
  <2>5. Around(k, L, R, r, i, 1, q, c[j], c[j + 1])
    BY <2>1, <2>2, <2>3, <2>4, <1>1, <1>13 DEF Around
  <2> QED BY <2>5, UnitWhole
<1>15. j \in 1 .. Len(n) /\ n[j] = SubSeq(R, c[j] + 4, c[j + 1] - 1)
  <2>1. /\ Len(n) = (IF Len(c) < 2 THEN 0 ELSE Len(c) - 1)
        /\ \A x \in 1 .. Len(n) : n[x] = SubSeq(R, c[x] + 4, c[x + 1] - 1)
    BY <1>4, SplitIs DEF n, c
  <2>2. Len(c) \in Nat
    BY <1>4, PositionsTyped DEF c
  <2>3. j \in 1 .. Len(n)
    BY <2>1, <2>2, <1>12
  <2> QED BY <2>1, <2>3
<1>16. r[c[j]] = o + 1
  <2>1. 0 \in 0 .. l /\ p0 + 0 = p0 /\ o + 1 + 0 = o + 1
    BY <1>2, <1>6, <1>11
  <2> QED BY <2>1, <1>8, <1>12
<1> QED BY <1>14, <1>15, <1>16 DEF n, c, o

\* Of what is sent all that is not in L was received, and j is a unit found in it, which
\* is not empty.
UnitAt(k, L, R, r, j) ==
  /\ k \in 0 .. Len(Stream) /\ Received(R, r, (1 .. k) \ L)
  /\ j \in 1 .. Len(Split(R).nals) /\ Split(R).nals[j] # << >>

\* It begins in a start code or in a unit, and is that unit when nothing of it is lost.
LEMMA UnitOrigin ==
  ASSUME units \in Seq(Units), NEW k, NEW L, NEW R, NEW r, NEW j, UnitAt(k, L, R, r, j)
  PROVE  \/ Split(R).nals[j][1] \in {0, 1}
         \/ \E i \in 1 .. Len(units) : \E x \in 1 .. Len(units[i]) :
              /\ Split(R).nals[j][1] = units[i][x]
              /\ Extent(i) \cap L = {} => Split(R).nals[j] = units[i]
<1> DEFINE S == (1 .. k) \ L
           c == Positions(R)
           n == Split(R).nals
           q == c[j] + 4
<1>1. /\ k \in 0 .. Len(Stream) /\ Received(R, r, S) /\ j \in 1 .. Len(n) /\ n[j] # << >>
  BY DEF UnitAt
<1>2. /\ R \in Seq(Nat) /\ Len(R) \in Nat /\ Len(R) = Len(r)
      /\ \A y \in 1 .. Len(R) : R[y] = Stream[r[y]] /\ r[y] \in S
  BY <1>1, LenProperties DEF Received, Enumerates
<1>3. Len(Stream) \in Nat
  BY OffIs
<1>4. j \in 1 .. Len(c) /\ j + 1 \in 1 .. Len(c) /\ n[j] = SubSeq(R, q, c[j + 1] - 1)
  BY <1>1, <1>2, SplitIs
<1> HIDE DEF c, n
<1>5. /\ c[j] \in Codes(R) /\ c[j + 1] \in Codes(R)
      /\ ~(\E y \in Codes(R) : c[j] < y /\ y < c[j + 1])
      /\ c[j] \in Nat \ {0} /\ c[j + 1] \in Nat /\ c[j + 1] + 3 <= Len(R) /\ c[j] + 4 <= c[j + 1]
  BY <1>2, <1>4, NextCode DEF c
<1>6. q \in 1 .. Len(R) /\ q <= c[j + 1] /\ n[j][1] = R[q]
  <2> DEFINE a == c[j]
             d == c[j + 1]
             b == d - 1
  <2>1. q \in Nat \ {0} /\ b \in Nat /\ b <= Len(R) /\ b <= d /\ d \in Nat
    <3>1. a \in Nat \ {0} /\ d \in Nat /\ d + 3 <= Len(R) /\ a + 4 <= d /\ q = a + 4
      BY <1>5
    <3> HIDE DEF a, d, q
    <3> QED BY <3>1, <1>2
  <2> HIDE DEF q, b
  <2>2. q <= b
    <3> SUFFICES ASSUME q > b PROVE FALSE
      BY <2>1
    <3>1. SubSeq(R, q, b) = << >>
      BY <2>1, <1>2, SubSeqProperties, EmptySeq
    <3> QED BY <3>1, <1>1, <1>4 DEF b
  <2>3. n[j][1] = R[q]
    <3>1. n[j] = SubSeq(R, q, b)
      BY <1>4 DEF b
    <3>2. 1 \in 1 .. b - q + 1 /\ q + 1 - 1 = q
      BY <2>1, <2>2
    <3> QED BY <3>1, <3>2, <2>1, <1>2, SubSeqProperties
  <2>4. q \in 1 .. Len(R) /\ q <= d
    <3> HIDE DEF d
    <3> QED BY <2>1, <2>2, <1>2
  <2> QED BY <2>3, <2>4
<1> HIDE DEF q
<1>7. r[q] \in 1 .. Len(Stream)
  <2>1. r[q] \in 1 .. k
    BY <1>2, <1>6
  <2> QED BY <2>1, <1>1, <1>3
<1>8. PICK i \in 1 .. Len(units) : \E x \in 1 .. 4 + Len(units[i]) : r[q] = Off(i) + x
  BY <1>7, Cover
<1>9. PICK x \in 1 .. 4 + Len(units[i]) : r[q] = Off(i) + x
  BY <1>8
<1>10. R[q] = Coded(i)[x]
  <2>1. Stream[Off(i) + x] = Coded(i)[x]
    BY StreamAt
  <2> QED BY <2>1, <1>2, <1>6, <1>9
<1>11. Len(units[i]) \in Nat /\ Off(i) \in Nat
  BY UnitTyped, ExtentIs
<1>12. CASE x <= 4
  <2>1. x = 1 \/ x = 2 \/ x = 3 \/ x = 4
    <3> DEFINE m == Len(units[i])
    <3>1. x \in 1 .. 4 + m /\ m \in Nat
      BY <1>11
    <3> HIDE DEF m
    <3> QED BY <3>1, <1>12
  <2>2. Coded(i)[1] = 0 /\ Coded(i)[2] = 0 /\ Coded(i)[3] = 0 /\ Coded(i)[4] = 1
    BY CodedIs
  <2>3. R[q] \in {0, 1}
    BY <2>1, <2>2, <1>10
  <2> QED BY <2>3, <1>6 DEF n
<1>13. CASE ~(x <= 4)
  <2> DEFINE y == x - 4
             m == Len(units[i])
  <2>1. y \in 1 .. m /\ x = 4 + y /\ r[q] = Off(i) + 4 + y
    <3> DEFINE o == Off(i)
    <3>1. x \in 1 .. 4 + m /\ m \in Nat /\ o \in Nat /\ r[q] = o + x
      BY <1>9, <1>11
    <3> HIDE DEF m, o
    <3>2. y \in 1 .. m /\ x = 4 + y /\ r[q] = o + 4 + y
      BY <3>1, <1>13
    <3> QED BY <3>2 DEF o
  <2> HIDE DEF y
  <2>2. n[j][1] = units[i][y]
    <3>1. Coded(i)[4 + y] = units[i][y]
      BY <2>1, CodedIs
    <3> QED BY <3>1, <2>1, <1>6, <1>10
  <2>3. ASSUME Extent(i) \cap L = {} PROVE n[j] = units[i]
    <3>1. c[j] + 4 <= q
      BY <1>5 DEF q
    <3>2. Around(k, L, R, r, i, y, q, c[j], c[j + 1])
      BY <3>1, <2>1, <2>3, <1>1, <1>5, <1>6 DEF Around
    <3> QED BY <3>2, <1>4, UnitWhole DEF q
  <2> QED BY <2>1, <2>2, <2>3 DEF n
<1> QED BY <1>11, <1>12, <1>13

\* What is taken for a parameter set begins in a unit, with that byte of it.
LEMMA SetOrigin ==
  ASSUME units \in Seq(Units), NEW k, NEW L, NEW R, NEW r, NEW j, UnitAt(k, L, R, r, j),
         NEW type \in {SPS, PPS}, Is(Split(R).nals[j], type)
  PROVE  \E i \in 1 .. Len(units) :
            /\ \E x \in DOMAIN units[i] : units[i][x] % 32 \in {SPS, PPS}
            /\ Extent(i) \cap L = {} => Split(R).nals[j] = units[i]
<1>1. Split(R).nals[j][1] % 32 = type
  BY DEF Is, Type
<1>2. ~(Split(R).nals[j][1] \in {0, 1})
  <2>1. 0 % 32 = 0 /\ 1 % 32 = 1 /\ type # 0 /\ type # 1
    BY DEF SPS, PPS
  <2> QED BY <2>1, <1>1
<1>3. PICK i \in 1 .. Len(units) : \E x \in 1 .. Len(units[i]) :
              /\ Split(R).nals[j][1] = units[i][x]
              /\ Extent(i) \cap L = {} => Split(R).nals[j] = units[i]
  BY <1>2, UnitOrigin
<1>4. DOMAIN units[i] = 1 .. Len(units[i])
  BY UnitTyped, LenProperties
<1> QED BY <1>1, <1>3, <1>4

-----------------------------------------------------------------------------
(* What comes with a packet, and what raises *)

\* Of a unit in which a byte may be taken for the first of a parameter set something
\* is in L.
Spoilt(L) == \E i \in 1 .. Len(units) : /\ Extent(i) \cap L # {}
                                        /\ \E x \in DOMAIN units[i] : units[i][x] % 32 \in {SPS, PPS}

\* A unit that raises is not as it was sent.
LEMMA RaisesSpoilt ==
  ASSUME units \in Seq(Units), NEW k \in 0 .. Len(Stream), NEW L, NEW R, NEW r,
         Received(R, r, (1 .. k) \ L), NEW n, n = Split(R).nals,
         NEW j \in 1 .. Len(n), Raises(n[j], SubSeq(n, 1, j - 1))
  PROVE  Spoilt(L)
<1>1. n \in Seq(Seq(Nat)) /\ Len(n) \in Nat /\ j \in Nat \ {0} /\ j <= Len(n)
  <2>1. R \in Seq(Nat)
    BY DEF Received
  <2>2. n \in Seq(Seq(Nat))
    BY <2>1, SplitIs
  <2> QED BY <2>2, LenProperties
<1>2. ASSUME NEW t \in 1 .. Len(n), NEW type \in {SPS, PPS}, Is(n[t], type), ~Spoilt(L)
      PROVE  n[t] \in Units /\ Is(n[t], type)
  <2>1. UnitAt(k, L, R, r, t)
    BY <1>2 DEF UnitAt, Is
  <2>2. PICK i \in 1 .. Len(units) :
            /\ \E x \in DOMAIN units[i] : units[i][x] % 32 \in {SPS, PPS}
            /\ Extent(i) \cap L = {} => n[t] = units[i]
    <3>1. Is(Split(R).nals[t], type)
      BY <1>2
    <3>2. \E i \in 1 .. Len(units) :
            /\ \E x \in DOMAIN units[i] : units[i][x] % 32 \in {SPS, PPS}
            /\ Extent(i) \cap L = {} => Split(R).nals[t] = units[i]
      BY <2>1, <3>1, SetOrigin
    <3> QED BY <3>2
  <2>3. n[t] = units[i]
    BY <2>2, <1>2 DEF Spoilt
  <2> QED BY <2>3, <1>2, UnitTyped
<1>3. \A u \in Units : /\ Type(u) = SPS => Len(u) \in 4 .. MaxSet
                       /\ Type(u) = PPS => Len(u) <= MaxSet
  BY UnitAssumption
<1>4. MaxSet \in Nat
  BY UnitAssumption
<1>5. CASE Is(n[j], SPS) /\ Len(n[j]) < 4
  <2> SUFFICES ASSUME ~Spoilt(L) PROVE FALSE
    OBVIOUS
  <2>1. n[j] \in Units /\ Type(n[j]) = SPS
    BY <1>2, <1>5 DEF Is
  <2> DEFINE l == Len(n[j])
  <2>2. l \in 4 .. MaxSet /\ l < 4
    BY <2>1, <1>3, <1>5
  <2> HIDE DEF l
  <2> QED BY <2>2, <1>4
<1>6. CASE /\ Is(n[j], PPS)
           /\ \E i \in DOMAIN SubSeq(n, 1, j - 1) :
                /\ Is(SubSeq(n, 1, j - 1)[i], SPS)
                /\ Len(n[j]) > MaxSet \/ Len(SubSeq(n, 1, j - 1)[i]) > MaxSet
  <2> SUFFICES ASSUME ~Spoilt(L) PROVE FALSE
    OBVIOUS
  <2> DEFINE b == SubSeq(n, 1, j - 1)
  <2>1. PICK i \in DOMAIN b : Is(b[i], SPS) /\ (Len(n[j]) > MaxSet \/ Len(b[i]) > MaxSet)
    BY <1>6
  <2>2. i \in 1 .. Len(n) /\ b[i] = n[i]
    <3> DEFINE z == j - 1
    <3>1. z \in Nat /\ z <= Len(n) /\ 1 \in Nat
      BY <1>1
    <3>2. b = SubSeq(n, 1, z)
      OBVIOUS
    <3> HIDE DEF z, b
    <3>3. Len(b) = z /\ b \in Seq(Seq(Nat)) /\ \A t \in 1 .. z : b[t] = n[t]
      <4>1. n \in Seq(Seq(Nat)) /\ z \in 0 .. Len(n)
        BY <3>1, <1>1
      <4>2. /\ SubSeq(n, 1, z) \in Seq(Seq(Nat)) /\ Len(SubSeq(n, 1, z)) = z
            /\ \A t \in 1 .. z : SubSeq(n, 1, z)[t] = n[t]
        BY ONLY <4>1, Pieces
      <4> QED BY <4>2, <3>2
    <3>4. i \in 1 .. z
      BY <3>3, LenProperties
    <3>5. i \in 1 .. Len(n)
      <4> DEFINE w == Len(n)
      <4>1. z \in Nat /\ w \in Nat /\ z <= w
        BY <3>1, <1>1
      <4> HIDE DEF w
      <4>2. i \in 1 .. w
        BY <4>1, <3>4
      <4> QED BY <4>2 DEF w
    <3> QED BY <3>3, <3>4, <3>5
  <2>3. n[i] \in Units /\ Type(n[i]) = SPS
    BY <2>1, <2>2, <1>2 DEF Is
  <2>4. n[j] \in Units /\ Type(n[j]) = PPS
    BY <1>2, <1>6 DEF Is
  <2> DEFINE l == Len(n[j])
             m == Len(n[i])
  <2>5. l <= MaxSet /\ m \in 4 .. MaxSet /\ (l > MaxSet \/ m > MaxSet) /\ l \in Nat
    <3>1. n[j] \in Seq(Nat)
      BY <1>1, ElementOfSeq
    <3> QED BY <3>1, <2>1, <2>2, <2>3, <2>4, <1>3, LenProperties
  <2> HIDE DEF l, m
  <2> QED BY <2>5, <1>4
<1> QED BY <1>5, <1>6 DEF Raises

\* What comes with a packet.
LEMMA ReceiveMore ==
  ASSUME units \in Seq(Units), NEW k \in Nat, NEW n \in Nat, k + n <= Len(Stream),
         NEW L \in SUBSET (1 .. k), NEW R, NEW r, Received(R, r, (1 .. k) \ L),
         NEW D, D = SubSeq(Stream, k + 1, k + n)
  PROVE  D \in Seq(Nat) /\ \E q : Received(R \o D, q, (1 .. k + n) \ L)
<1>1. Stream \in Seq(Nat) /\ Len(Stream) \in Nat
  BY OffIs
<1>2. D \in Seq(Nat) /\ Len(D) = n /\ \A t \in 1 .. n : D[t] = Stream[k + t]
  <2> DEFINE a == k + 1
             b == k + n
  <2>1. /\ a \in 1 .. Len(Stream) + 1 /\ b \in a - 1 .. Len(Stream) /\ b - a + 1 = n
        /\ \A t \in 1 .. n : a + t - 1 = k + t
    BY <1>1
  <2>2. D = SubSeq(Stream, a, b)
    OBVIOUS
  <2>3. a \in Nat /\ b \in Nat
    OBVIOUS
  <2>4. ASSUME NEW y \in a .. b PROVE Stream[y] \in Nat
    <3> DEFINE z == Len(Stream)
    <3>1. y \in 1 .. z
      BY <1>1
    <3> QED BY <3>1, <1>1, ElementOfSeq
  <2>5. n = 0 \/ a <= b
    OBVIOUS
  <2>6. n = 0 => ~(a <= b)
    OBVIOUS
  <2> HIDE DEF a, b
  <2>7. D \in Seq(Nat) /\ Len(D) = IF a <= b THEN n ELSE 0
    <3> DEFINE E == SubSeq(Stream, a, b)
    <3>1. E \in Seq(Nat) /\ Len(E) = IF a <= b THEN b - a + 1 ELSE 0
      BY <2>3, <2>4, SubSeqProperties
    <3> HIDE DEF E
    <3>2. D = E
      BY <2>2 DEF E
    <3> QED BY <2>1, <3>1, <3>2
  <2>8. ASSUME NEW t \in 1 .. n PROVE D[t] = Stream[a + t - 1]
    <3>1. t \in 1 .. b - a + 1
      BY <2>1
    <3>2. \A i \in 1 .. b - a + 1 : SubSeq(Stream, a, b)[i] = Stream[a + i - 1]
      BY <2>3, <2>4, SubSeqProperties
    <3> QED BY <3>1, <3>2, <2>2
  <2>9. Len(D) = n
    BY <2>5, <2>6, <2>7
  <2> QED BY <2>1, <2>7, <2>8, <2>9
<1> DEFINE d == [t \in 1 .. n |-> k + t]
           q == r \o d
           S == (1 .. k) \ L
<1>3. Enumerates(d, k + 1 .. k + n) /\ d \in Seq(Nat) /\ Len(d) = n
  <2>1. Enumerates(d, k + 1 .. k + n)
    BY EnumInterval
  <2>2. Len(d) = n
    OBVIOUS
  <2> HIDE DEF d
  <2> QED BY <2>1, <2>2 DEF Enumerates
<1>4. /\ Enumerates(r, S) /\ r \in Seq(Nat) /\ R \in Seq(Nat) /\ Len(R) = Len(r) /\ Len(r) \in Nat
      /\ \A y \in 1 .. Len(R) : R[y] = Stream[r[y]]
  BY LenProperties DEF Received, Enumerates
<1>5. Enumerates(q, S \cup (k + 1 .. k + n))
  <2>1. \A a \in S, b \in k + 1 .. k + n : a < b
    OBVIOUS
  <2> HIDE DEF S, d
  <2> QED BY <2>1, <1>3, <1>4, EnumCat
<1>6. S \cup (k + 1 .. k + n) = (1 .. k + n) \ L
  OBVIOUS
<1>7. \A t \in 1 .. n : d[t] = k + t
  OBVIOUS
<1> HIDE DEF d, S
<1>8. /\ R \o D \in Seq(Nat) /\ Len(R \o D) = Len(r) + n /\ Len(q) = Len(r) + n
  <2>1. R \in Seq(Nat) /\ D \in Seq(Nat)
    BY <1>2, <1>4
  <2>3. R \o D \in Seq(Nat) /\ Len(R \o D) = Len(R) + Len(D)
    BY ONLY <2>1, ConcatProperties
  <2>2. Len(r \o d) = Len(r) + Len(d)
    BY <1>3, <1>4, ConcatProperties
  <2> QED BY <2>3, <2>2, <1>2, <1>3, <1>4
<1>9. ASSUME NEW y \in 1 .. Len(R \o D)
      PROVE  (R \o D)[y] = Stream[q[y]]
  <2>1. CASE y <= Len(r)
    <3>1. y \in 1 .. Len(R)
      BY <2>1, <1>4, <1>8
    <3>2. (R \o D)[y] = R[y]
      <4>1. R \in Seq(Nat) /\ D \in Seq(Nat) /\ y \in 1 .. Len(R) + Len(D) /\ y <= Len(R)
        BY <2>1, <1>2, <1>4, <1>8
      <4>2. (R \o D)[y] = IF y <= Len(R) THEN R[y] ELSE D[y - Len(R)]
        BY ONLY <4>1, ConcatProperties
      <4> QED BY <4>1, <4>2
    <3>3. q[y] = r[y]
      <4>1. r \in Seq(Nat) /\ d \in Seq(Nat) /\ y \in 1 .. Len(r) + Len(d)
        BY <1>3, <1>4, <1>8
      <4>2. (r \o d)[y] = IF y <= Len(r) THEN r[y] ELSE d[y - Len(r)]
        BY ONLY <4>1, ConcatProperties
      <4> QED BY <4>2, <2>1
    <3> QED BY <3>1, <3>2, <3>3, <1>4
  <2>2. CASE ~(y <= Len(r))
    <3> DEFINE t == y - Len(r)
    <3>1. t \in 1 .. n
      BY <2>2, <1>4, <1>8
    <3>2. (R \o D)[y] = D[t]
      <4>1. y \in 1 .. Len(R) + Len(D) /\ ~(y <= Len(R)) /\ t = y - Len(R)
        BY <2>2, <1>2, <1>4, <1>8
      <4> HIDE DEF t
      <4>2. R \in Seq(Nat) /\ D \in Seq(Nat)
        BY <1>2, <1>4
      <4>3. \A z \in 1 .. Len(R) + Len(D) : (R \o D)[z] = IF z <= Len(R) THEN R[z] ELSE D[z - Len(R)]
        BY ONLY <4>2, ConcatProperties
      <4> QED BY <4>1, <4>3
    <3>3. q[y] = d[t]
      <4>1. y \in 1 .. Len(r) + Len(d) /\ ~(y <= Len(r))
        BY <2>2, <1>3, <1>8
      <4> HIDE DEF q
      <4>2. q = r \o d
        BY DEF q
      <4> QED BY <4>1, <4>2, <1>3, <1>4, ConcatProperties
    <3> QED BY <3>1, <3>2, <3>3, <1>2, <1>7
  <2> QED BY <2>1, <2>2
<1>10. Received(R \o D, q, (1 .. k + n) \ L)
  BY <1>4, <1>5, <1>6, <1>8, <1>9 DEF Received
<1> QED BY <1>2, <1>10

-----------------------------------------------------------------------------
(* What is handled, whatever comes when *)

\* R has come, and what was handled is what Split finds in all of it at once.
Handled(R, r) == /\ Received(R, r, (1 .. sent) \ lost)
                 /\ handled = Split(R).nals /\ nalBuf = Split(R).rest

\* As long as the thread runs the packets could have come in one; it has only ended of
\* a spoilt unit.
NalInv == /\ units \in [1 .. MaxUnits -> Units]
          /\ sent \in 0 .. Len(Stream) /\ lost \in SUBSET (1 .. sent)
          /\ alive \in BOOLEAN
          /\ alive => \E R, r : Handled(R, r)
          /\ ~alive => Spoilt(lost)

\* A function on 1 .. n is a sequence.
LEMMA UnitsSeq ==
  ASSUME units \in [1 .. MaxUnits -> Units]
  PROVE  units \in Seq(Units) /\ Len(units) = MaxUnits /\ MaxUnits \in Nat
<1>1. MaxUnits \in Nat
  BY UnitAssumption
<1> QED BY <1>1

\* There is nothing in nothing.
LEMMA SplitNothing == Split(<< >>).nals = << >> /\ Split(<< >>).rest = << >>
<1>1. << >> \in Seq(Nat) /\ Len(<< >>) = 0
  OBVIOUS
<1>2. Codes(<< >>) = {}
  BY <1>1 DEF Codes
<1>3. Positions(<< >>) = << >>
  <2>1. Enumerates(Positions(<< >>), {})
    BY <1>1, <1>2, PositionsAre
  <2> QED BY <2>1, EnumEmpty, EnumOnce
<1>4. /\ Split(<< >>).nals \in Seq(Seq(Nat))
      /\ Len(Split(<< >>).nals) = (IF Len(Positions(<< >>)) < 2 THEN 0 ELSE Len(Positions(<< >>)) - 1)
      /\ Split(<< >>).rest = IF Len(Positions(<< >>)) < 2 THEN << >>
                             ELSE SubSeq(<< >>, Positions(<< >>)[Len(Positions(<< >>))], Len(<< >>))
  BY <1>1, SplitIs
<1>5. Len(Split(<< >>).nals) = 0 /\ Split(<< >>).rest = << >>
  BY <1>1, <1>3, <1>4
<1> QED BY <1>4, <1>5, EmptySeq

LEMMA NalInitInv == NalInit => NalInv
<1> SUFFICES ASSUME NalInit PROVE NalInv
  OBVIOUS
<1>1. units \in [1 .. MaxUnits -> Units] /\ sent = 0 /\ lost = {} /\ alive = TRUE
      /\ nalBuf = << >> /\ handled = << >>
  BY DEF NalInit
<1>2. Len(Stream) \in Nat
  BY <1>1, UnitsSeq, OffIs
<1>3. sent \in 0 .. Len(Stream) /\ lost \in SUBSET (1 .. sent)
  BY <1>1, <1>2
<1>4. Handled(<< >>, << >>)
  <2>1. (1 .. sent) \ lost = {}
    BY <1>1
  <2>2. Received(<< >>, << >>, {})
    BY EnumEmpty DEF Received
  <2> QED BY <2>1, <2>2, <1>1, SplitNothing DEF Handled
<1> QED BY <1>1, <1>3, <1>4 DEF NalInv

\* A packet comes.
LEMMA NalPacket ==
  ASSUME NalInv, Packet
  PROVE  NalInv'
<1>1. /\ units \in Seq(Units) /\ sent \in 0 .. Len(Stream) /\ lost \in SUBSET (1 .. sent)
      /\ units \in [1 .. MaxUnits -> Units] /\ alive
  BY UnitsSeq DEF NalInv, Packet
<1>2. Stream \in Seq(Nat) /\ Len(Stream) \in Nat
  BY <1>1, OffIs
<1>3. PICK n \in 1 .. MaxPacket :
         LET data   == nalBuf \o SubSeq(Stream, sent + 1, sent + n)
             split  == Split(data)
             upTo(j) == handled \o SubSeq(split.nals, 1, j)
             bad    == {j \in DOMAIN split.nals : Raises(split.nals[j], upTo(j - 1))}
         IN  /\ sent + n <= Len(Stream)
             /\ sent' = sent + n
             /\ alive' = (bad = {})
             /\ nalBuf' = IF bad = {} THEN split.rest ELSE data
             /\ handled' = IF bad = {} THEN upTo(Len(split.nals)) ELSE upTo(Min(bad) - 1)
  BY DEF Packet
<1>4. units' = units /\ lost' = lost
  BY DEF Packet
<1> DEFINE D    == SubSeq(Stream, sent + 1, sent + n)
           data == nalBuf \o D
           nals == Split(data).nals
           bad  == {j \in DOMAIN nals : Raises(nals[j], handled \o SubSeq(nals, 1, j - 1))}
<1>5. /\ sent + n <= Len(Stream) /\ sent' = sent + n /\ alive' = (bad = {})
      /\ bad = {} => nalBuf' = Split(data).rest /\ handled' = handled \o SubSeq(nals, 1, Len(nals))
  BY <1>3
<1>6. PICK R, r : Handled(R, r)
  BY <1>1 DEF NalInv
<1>7. n \in Nat /\ sent \in Nat
  BY <1>1, <1>2, UnitAssumption
<1>8. D \in Seq(Nat) /\ \E q : Received(R \o D, q, (1 .. sent + n) \ lost)
  <2>1. Received(R, r, (1 .. sent) \ lost)
    BY <1>6 DEF Handled
  <2> QED BY <2>1, <1>1, <1>5, <1>7, ReceiveMore
<1>9. PICK q : Received(R \o D, q, (1 .. sent + n) \ lost)
  BY <1>8
<1> HIDE DEF D
<1>10. R \in Seq(Nat) /\ R \o D \in Seq(Nat) /\ handled = Split(R).nals /\ nalBuf = Split(R).rest
  BY <1>6, <1>9 DEF Handled, Received
<1> DEFINE all == Split(R \o D).nals
<1>11. all = handled \o nals /\ Split(R \o D).rest = Split(data).rest /\ nalBuf \in Seq(Nat)
  <2>1. R \in Seq(Nat) /\ D \in Seq(Nat)
    BY <1>8, <1>10
  <2>2. /\ Split(R).rest \in Seq(Nat)
        /\ Split(R \o D).nals = Split(R).nals \o Split(Split(R).rest \o D).nals
        /\ Split(R \o D).rest = Split(Split(R).rest \o D).rest
    BY <2>1, SplitCat
  <2> QED BY <2>2, <1>10
<1>12. /\ handled \in Seq(Seq(Nat)) /\ nals \in Seq(Seq(Nat)) /\ all \in Seq(Seq(Nat))
       /\ Len(handled) \in Nat /\ Len(nals) \in Nat /\ Len(all) = Len(handled) + Len(nals)
       /\ DOMAIN nals = 1 .. Len(nals)
  <2>1. data \in Seq(Nat)
    BY <1>8, <1>11, ConcatProperties
  <2> HIDE DEF data
  <2>2. Split(R).nals \in Seq(Seq(Nat)) /\ nals \in Seq(Seq(Nat)) /\ all \in Seq(Seq(Nat))
    BY <2>1, <1>10, SplitIs
  <2> HIDE DEF nals, all
  <2>3. handled \in Seq(Seq(Nat))
    BY <2>2, <1>10
  <2>4. Len(handled \o nals) = Len(handled) + Len(nals)
    BY <2>2, <2>3, ConcatProperties
  <2>5. Len(handled) \in Nat /\ Len(nals) \in Nat /\ DOMAIN nals = 1 .. Len(nals)
    BY <2>2, <2>3, LenProperties
  <2> QED BY <2>2, <2>3, <2>4, <2>5, <1>11
<1>13. sent' \in 0 .. Len(Stream) /\ lost \in SUBSET (1 .. sent')
  <2> DEFINE z == sent'
             l == Len(Stream)
  <2>1. z = sent + n /\ sent \in Nat /\ n \in Nat /\ z <= l /\ lost \in SUBSET (1 .. sent)
    BY <1>1, <1>5, <1>7
  <2> HIDE DEF z, l
  <2>2. z \in 0 .. l /\ lost \in SUBSET (1 .. z)
    BY <2>1, <1>2
  <2> QED BY <2>2 DEF z, l
<1>14. Stream' = Stream
  BY <1>4 DEF Stream
<1> HIDE DEF data, nals, all
<1>15. CASE bad = {}
  <2> HIDE DEF bad
  <2>1. handled' = all /\ nalBuf' = Split(R \o D).rest /\ alive' = TRUE
    <3>1. SubSeq(nals, 1, Len(nals)) = nals
      BY <1>12, SubSeqFull
    <3> QED BY <3>1, <1>5, <1>11, <1>15
  <2>2. PICK X : X = R \o D
    OBVIOUS
  <2>3. Received(X, q, (1 .. sent + n) \ lost)
    BY <2>2, <1>9
  <2>4. Received(X, q, (1 .. sent) \ lost)'
    BY <2>3, <1>14, <1>5, <1>4 DEF Received
  <2>5. handled' = Split(X).nals /\ nalBuf' = Split(X).rest
    BY <2>1, <2>2 DEF all
  <2>6. Handled(X, q)'
    BY <2>4, <2>5 DEF Handled
  <2> QED BY <2>1, <2>6, <1>1, <1>4, <1>13, <1>14 DEF NalInv
<1>16. CASE bad # {}
  <2>1. PICK j \in 1 .. Len(nals) : Raises(nals[j], handled \o SubSeq(nals, 1, j - 1))
    BY <1>12, <1>16
  <2> HIDE DEF bad
  <2> DEFINE h == Len(handled)
             z == h + j
             w == j - 1
  <2>2. /\ h \in Nat /\ j \in Nat /\ z \in 1 .. Len(all) /\ ~(z <= h) /\ z - h = j /\ z - 1 = h + w
        /\ w \in Nat /\ w <= Len(nals) /\ j <= Len(nals) /\ z \in 1 .. h + Len(nals)
    <3>1. h \in Nat /\ j \in 1 .. Len(nals) /\ Len(nals) \in Nat /\ Len(all) = h + Len(nals)
      BY <1>12
    <3> HIDE DEF h
    <3> QED BY <3>1
  <2>3. all[z] = nals[j]
    <3> HIDE DEF z, h
    <3>1. (handled \o nals)[z] = nals[z - Len(handled)]
      BY <2>2, <1>12, ConcatProperties DEF h
    <3> QED BY <3>1, <2>2, <1>11 DEF h
  <2>4. SubSeq(all, 1, z - 1) = handled \o SubSeq(nals, 1, w)
    <3> DEFINE a == handled \o SubSeq(nals, 1, w)
               b == SubSeq(all, 1, h + w)
               c == SubSeq(nals, 1, w)
    <3> HIDE DEF z, w
    <3>1. c \in Seq(Seq(Nat)) /\ Len(c) = w /\ \A t \in 1 .. w : c[t] = nals[t]
      <4>1. w \in 1 - 1 .. Len(nals)
        BY <2>2, <1>12
      <4>2. \A t \in 1 .. w : nals[t] \in Seq(Nat)
        <5>1. \A t \in 1 .. w : t \in 1 .. Len(nals)
          BY <2>2, <1>12
        <5> QED BY <5>1, <1>12, ElementOfSeq
      <4>3. Len(c) = w
        <5>1. Len(c) = IF 1 <= w THEN w - 1 + 1 ELSE 0
          BY <4>2, <2>2, SubSeqProperties
        <5> HIDE DEF c
        <5> QED BY <5>1, <2>2
      <4>4. c \in Seq(Seq(Nat))
        BY <4>2, <2>2, SubSeqProperties
      <4>5. ASSUME NEW t \in 1 .. w PROVE c[t] = nals[t]
        <5>1. t \in 1 .. w - 1 + 1 /\ 1 + t - 1 = t
          BY <2>2
        <5>2. \A i \in 1 .. w - 1 + 1 : c[i] = nals[1 + i - 1]
          BY <4>2, <2>2, SubSeqProperties
        <5> HIDE DEF c
        <5> QED BY <5>1, <5>2
      <4> QED BY <4>3, <4>4, <4>5
    <3>2. b \in Seq(Seq(Nat)) /\ Len(b) = h + w /\ \A t \in 1 .. h + w : b[t] = all[t]
      <4> DEFINE g == h + w
      <4>1. g \in Nat /\ g <= Len(all)
        <5> HIDE DEF h
        <5> QED BY <2>2, <1>12 DEF z
      <4>2. b = SubSeq(all, 1, g)
        OBVIOUS
      <4> HIDE DEF g
      <4>3. \A t \in 1 .. g : all[t] \in Seq(Nat)
        <5>1. Len(all) \in Nat
          BY <1>12
        <5>2. \A t \in 1 .. g : t \in 1 .. Len(all)
          BY <4>1, <5>1
        <5> QED BY <5>2, <1>12, ElementOfSeq
      <4> HIDE DEF b
      <4>4. b \in Seq(Seq(Nat)) /\ Len(b) = IF 1 <= g THEN g - 1 + 1 ELSE 0
        BY <4>1, <4>2, <4>3, SubSeqProperties
      <4>5. Len(b) = g
        BY <4>1, <4>4
      <4>6. \A i \in 1 .. g - 1 + 1 : b[i] = all[1 + i - 1]
        BY <4>1, <4>2, <4>3, SubSeqProperties
      <4>7. ASSUME NEW t \in 1 .. g PROVE b[t] = all[t]
        <5>1. t \in 1 .. g - 1 + 1 /\ 1 + t - 1 = t
          BY <4>1
        <5> QED BY <5>1, <4>6
      <4> QED BY <4>4, <4>5, <4>7 DEF g
    <3> HIDE DEF b, c
    <3>3. a \in Seq(Seq(Nat)) /\ Len(a) = h + w
      <4>1. a = handled \o c
        BY DEF c
      <4> HIDE DEF a
      <4>2. handled \in Seq(Seq(Nat)) /\ c \in Seq(Seq(Nat))
        BY <3>1, <1>12
      <4>3. handled \o c \in Seq(Seq(Nat)) /\ Len(handled \o c) = Len(handled) + Len(c)
        BY ONLY <4>2, ConcatProperties
      <4> QED BY <4>1, <4>3, <3>1
    <3>4. ASSUME NEW t \in 1 .. h + w PROVE a[t] = b[t]
      <4>1. a = handled \o c /\ Len(c) = w
        BY <3>1 DEF c
      <4> HIDE DEF a
      <4>2. a[t] = IF t <= Len(handled) THEN handled[t] ELSE c[t - Len(handled)]
        <5>1. handled \in Seq(Seq(Nat)) /\ c \in Seq(Seq(Nat))
          BY <3>1, <1>12
        <5>2. \A i \in 1 .. Len(handled) + Len(c) :
                (handled \o c)[i] = IF i <= Len(handled) THEN handled[i] ELSE c[i - Len(handled)]
          BY ONLY <5>1, ConcatProperties
        <5> QED BY <5>2, <4>1
      <4>3. t \in 1 .. Len(handled) + Len(nals) /\ t \in Nat
        <5> DEFINE l == Len(nals)
        <5>1. h \in Nat /\ w \in Nat /\ w <= l /\ l \in Nat
          BY <2>2, <1>12
        <5> HIDE DEF h, l
        <5>2. t \in 1 .. h + l /\ t \in Nat
          BY <5>1
        <5> QED BY <5>2 DEF h, l
      <4>4. all[t] = IF t <= Len(handled) THEN handled[t] ELSE nals[t - Len(handled)]
        BY <4>3, <1>11, <1>12, ConcatProperties
      <4>5. ~(t <= Len(handled)) => t - Len(handled) \in 1 .. w
        <5>1. h \in Nat /\ w \in Nat
          BY <2>2
        <5> HIDE DEF h
        <5>2. ~(t <= h) => t - h \in 1 .. w
          BY <5>1
        <5> QED BY <5>2 DEF h
      <4> QED BY <4>2, <4>4, <4>5, <3>1, <3>2
    <3>5. a = b
      <4> HIDE DEF a
      <4> QED BY <3>2, <3>3, <3>4, SeqEqual
    <3> QED BY <3>5, <2>2 DEF b
  <2>5. Raises(all[z], SubSeq(all, 1, z - 1))
    BY <2>1, <2>3, <2>4
  <2>6. Spoilt(lost)
    <3>1. sent + n \in 0 .. Len(Stream)
      BY <1>5, <1>13
    <3> HIDE DEF z
    <3> QED BY <3>1, <2>2, <2>5, <1>1, <1>9, RaisesSpoilt DEF all
  <2>7. Spoilt(lost)'
    <3>1. \A i : Extent(i)' = Extent(i)
      BY <1>4 DEF Extent
    <3> QED BY <2>6, <3>1, <1>4 DEF Spoilt
  <2>8. alive' = FALSE
    BY <1>5, <1>16
  <2> QED BY <2>7, <2>8, <1>1, <1>4, <1>13, <1>14 DEF NalInv
<1> QED BY <1>15, <1>16

\* A packet is lost.
LEMMA NalLose ==
  ASSUME NalInv, Lose
  PROVE  NalInv'
<1>1. /\ units \in Seq(Units) /\ sent \in 0 .. Len(Stream) /\ lost \in SUBSET (1 .. sent)
      /\ units \in [1 .. MaxUnits -> Units] /\ alive \in BOOLEAN
  BY UnitsSeq DEF NalInv
<1>2. Stream \in Seq(Nat) /\ Len(Stream) \in Nat
  BY <1>1, OffIs
<1>3. PICK n \in 1 .. MaxPacket : /\ sent + n <= Len(Stream) /\ sent' = sent + n
                                  /\ lost' = lost \cup (sent + 1 .. sent + n)
  BY DEF Lose
<1>4. units' = units /\ nalBuf' = nalBuf /\ handled' = handled /\ alive' = alive
  BY DEF Lose
<1>5. n \in Nat /\ sent \in Nat
  BY <1>1, <1>2, UnitAssumption
<1>6. Stream' = Stream
  BY <1>4 DEF Stream
<1>7. sent' \in 0 .. Len(Stream) /\ lost' \in SUBSET (1 .. sent')
  <2> DEFINE l == Len(Stream)
  <2>1. sent + n <= l /\ l \in Nat
    BY <1>2, <1>3
  <2> HIDE DEF l
  <2>2. sent + n \in 0 .. l /\ (lost \cup (sent + 1 .. sent + n)) \in SUBSET (1 .. sent + n)
    BY <2>1, <1>1, <1>5
  <2> QED BY <2>2, <1>3 DEF l
<1>8. ASSUME alive PROVE \E R, r : Handled(R, r)'
  <2>1. PICK R, r : Handled(R, r)
    BY <1>8 DEF NalInv
  <2>2. (1 .. sent + n) \ (lost \cup (sent + 1 .. sent + n)) = (1 .. sent) \ lost
    BY <1>1, <1>5
  <2>3. Handled(R, r)'
    BY <2>1, <2>2, <1>3, <1>4, <1>6 DEF Handled, Received
  <2> QED BY <2>3
<1>9. ASSUME ~alive PROVE Spoilt(lost)'
  <2>1. Spoilt(lost)
    BY <1>9 DEF NalInv
  <2>2. \A i : Extent(i)' = Extent(i)
    BY <1>4 DEF Extent
  <2>3. lost \subseteq lost'
    BY <1>3
  <2>4. PICK i \in 1 .. Len(units) :
            /\ Extent(i) \cap lost # {}
            /\ \E x \in DOMAIN units[i] : units[i][x] % 32 \in {SPS, PPS}
    BY <2>1 DEF Spoilt
  <2>5. Extent(i) \cap lost' # {}
    BY <2>3, <2>4
  <2> QED BY <2>2, <2>4, <2>5, <1>4 DEF Spoilt
<1> QED BY <1>1, <1>4, <1>6, <1>7, <1>8, <1>9 DEF NalInv

LEMMA NalStutter ==
  ASSUME NalInv, UNCHANGED nalVars
  PROVE  NalInv'
<1>1. /\ units' = units /\ sent' = sent /\ lost' = lost /\ nalBuf' = nalBuf /\ handled' = handled
      /\ alive' = alive
  BY DEF nalVars
<1>2. Stream' = Stream /\ \A i : Extent(i)' = Extent(i)
  BY <1>1 DEF Stream, Extent
<1>3. ASSUME alive PROVE \E R, r : Handled(R, r)'
  <2>1. PICK R, r : Handled(R, r)
    BY <1>3 DEF NalInv
  <2>2. Handled(R, r)'
    BY <2>1, <1>1, <1>2 DEF Handled, Received
  <2> QED BY <2>2
<1>4. ASSUME ~alive PROVE Spoilt(lost)'
  BY <1>1, <1>2, <1>4 DEF NalInv, Spoilt
<1> QED BY <1>1, <1>2, <1>3, <1>4 DEF NalInv

\* Every reachable state satisfies the invariant.
THEOREM NalInvariance == NalSpec => []NalInv
<1>1. NalInit => NalInv
  BY NalInitInv
<1>2. NalInv /\ [NalNext]_nalVars => NalInv'
  BY NalPacket, NalLose, NalStutter DEF NalNext
<1> QED BY <1>1, <1>2, PTL DEF NalSpec

-----------------------------------------------------------------------------
(* What a loss harms *)

\* What is lost harms its own units: they are found at places that rise with them.
LEMMA WholeFound ==
  ASSUME NalInv, alive
  PROVE  WholeHandled
<1> DEFINE whole == {i \in 1 .. Len(units) : Ends(i) <= sent /\ Extent(i) \cap lost = {}}
<1>1. units \in Seq(Units) /\ sent \in 0 .. Len(Stream) /\ Len(units) \in Nat
  BY UnitsSeq, UnitTyped DEF NalInv
<1>2. PICK R, r : Handled(R, r)
  BY DEF NalInv
<1>3. /\ Received(R, r, (1 .. sent) \ lost) /\ handled = Split(R).nals
  BY <1>2 DEF Handled
<1> DEFINE c == Positions(R)
           PlaceOf(i) == CHOOSE j \in 1 .. Len(handled) : handled[j] = units[i] /\ r[c[j]] = Off(i) + 1
           place == [i \in whole |-> PlaceOf(i)]
<1>4. ASSUME NEW i \in whole
      PROVE  /\ place[i] \in 1 .. Len(handled)
             /\ handled[place[i]] = units[i] /\ r[c[place[i]]] = Off(i) + 1
  <2>1. Intact(sent, lost, R, r, i)
    BY <1>1, <1>3, <1>4 DEF Intact
  <2>2. \E j \in 1 .. Len(handled) : handled[j] = units[i] /\ r[c[j]] = Off(i) + 1
    BY <2>1, <1>1, <1>3, UnitFound
  <2>3. PlaceOf(i) \in 1 .. Len(handled) /\ handled[PlaceOf(i)] = units[i] /\ r[c[PlaceOf(i)]] = Off(i) + 1
    BY <2>2
  <2> HIDE DEF PlaceOf, c, whole
  <2>4. place[i] = PlaceOf(i)
    BY <1>4
  <2> QED BY <2>3, <2>4
<1>5. /\ R \in Seq(Nat) /\ Len(R) \in Nat /\ Len(R) = Len(r)
      /\ \A x, y \in 1 .. Len(r) : x < y => r[x] < r[y]
      /\ \A x \in 1 .. Len(r) : r[x] \in Nat
  BY <1>3, LenProperties, ElementOfSeq DEF Received, Enumerates
<1>6. /\ \A x, y \in 1 .. Len(c) : x < y => c[x] < c[y]
      /\ \A x \in 1 .. Len(c) : c[x] \in 1 .. Len(r)
      /\ \A x \in 1 .. Len(handled) : x \in 1 .. Len(c)
      /\ Len(c) \in Nat
  <2>1. /\ \A x, y \in 1 .. Len(c) : x < y => c[x] < c[y]
        /\ \A x \in 1 .. Len(c) : c[x] \in Nat \ {0} /\ c[x] + 3 <= Len(R)
        /\ Len(c) \in Nat
    BY <1>5, PositionsTyped
  <2>2. \A x \in 1 .. Len(handled) : x \in 1 .. Len(c)
    BY <1>3, <1>5, SplitIs
  <2> HIDE DEF c
  <2>3. ASSUME NEW x \in 1 .. Len(c) PROVE c[x] \in 1 .. Len(r)
    <3> DEFINE y == c[x]
    <3>1. y \in Nat \ {0} /\ y + 3 <= Len(R)
      BY <2>1
    <3> HIDE DEF y
    <3>2. y \in 1 .. Len(r)
      BY <3>1, <1>5
    <3> QED BY <3>2 DEF y
  <2> QED BY <2>1, <2>2, <2>3
<1>7. ASSUME NEW i \in whole, NEW j \in whole, i < j
      PROVE  place[i] < place[j]
  <2> DEFINE a == place[i]
             b == place[j]
  <2>1. /\ a \in 1 .. Len(c) /\ b \in 1 .. Len(c) /\ r[c[a]] = Off(i) + 1 /\ r[c[b]] = Off(j) + 1
    BY <1>4, <1>6
  <2>2. Off(i) < Off(j) /\ Off(i) \in Nat /\ Off(j) \in Nat
    <3>1. i \in 1 .. Len(units) + 1 /\ j \in 1 .. Len(units) + 1
      BY <1>1
    <3> QED BY <3>1, <1>1, <1>7, OffIs, OffRises
  <2> HIDE DEF a, b, c, place, whole
  <2>3. ASSUME ~(a < b) PROVE FALSE
    <3>1. a = b \/ b < a
      BY <2>1, <2>3, <1>6
    <3>2. a # b
      BY <2>1, <2>2
    <3>3. c[b] < c[a] /\ c[b] \in 1 .. Len(r) /\ c[a] \in 1 .. Len(r)
      BY <3>1, <3>2, <2>1, <1>6
    <3>4. r[c[b]] < r[c[a]]
      BY <3>3, <1>5
    <3> QED BY <3>4, <2>1, <2>2
  <2> QED BY <2>3 DEF a, b
<1>8. place \in [whole -> 1 .. Len(handled)]
  BY <1>4
<1> HIDE DEF place, whole, c
<1>9. /\ \A i, j \in whole : i < j => place[i] < place[j]
      /\ \A i \in whole : handled[place[i]] = units[i]
  BY <1>4, <1>7
<1> QED BY <1>8, <1>9 DEF WholeHandled, whole

\* Only the units that lose a byte of theirs or of a code at their ends may be missed,
\* and only of a spoilt one the thread ends.
THEOREM LossStaysLocal == NalSpec => []LossIsLocal
<1>1. NalInv => LossIsLocal
  <2> SUFFICES ASSUME NalInv PROVE LossIsLocal
    OBVIOUS
  <2>1. CASE alive
    BY <2>1, WholeFound DEF LossIsLocal
  <2>2. CASE ~alive
    <3>1. Spoilt(lost)
      BY <2>2 DEF NalInv
    <3> QED BY <3>1, <2>2 DEF LossIsLocal, Spoilt
  <2> QED BY <2>1, <2>2
<1> QED BY <1>1, NalInvariance, PTL

-----------------------------------------------------------------------------
(* What cuts do *)

\* What is received of a stream of which nothing is lost is its beginning.
LEMMA AllReceived ==
  ASSUME NEW R, NEW r, NEW k \in Nat, Received(R, r, (1 .. k) \ {})
  PROVE  Len(R) = k /\ Len(r) = k /\ \A p \in 1 .. k : r[p] = p
<1> DEFINE d == [i \in 1 .. k |-> 0 + i]
<1>1. Enumerates(d, 0 + 1 .. 0 + k)
  BY EnumInterval
<1>2. (1 .. k) \ {} = 0 + 1 .. 0 + k
  OBVIOUS
<1>3. Len(d) = k /\ \A p \in 1 .. k : d[p] = p
  OBVIOUS
<1> HIDE DEF d
<1>4. Enumerates(r, 0 + 1 .. 0 + k)
  BY <1>2 DEF Received
<1>5. r = d
  BY <1>1, <1>4, EnumOnce
<1> QED BY <1>3, <1>5 DEF Received

\* Its codes are those of the units of which four bytes have come.
LEMMA CodesOfSent ==
  ASSUME units \in Seq(Units), NEW k \in 0 .. Len(Stream), NEW R, NEW r, Received(R, r, (1 .. k) \ {})
  PROVE  Codes(R) = {Off(i) + 1 : i \in {j \in 1 .. Len(units) : Off(j) + 4 <= k}}
<1> DEFINE A == {j \in 1 .. Len(units) : Off(j) + 4 <= k}
<1>1. Len(Stream) \in Nat /\ k \in Nat
  BY OffIs
<1>2. Len(R) = k /\ Len(r) = k /\ R \in Seq(Nat) /\ \A p \in 1 .. k : r[p] = p
  BY <1>1, AllReceived DEF Received
<1>3. ASSUME NEW p \in Codes(R) PROVE p \in {Off(i) + 1 : i \in A}
  <2>1. p \in Nat \ {0} /\ p + 3 <= k
    BY <1>2, CodeInside
  <2>2. InRow(r, p, p, 3)
    <3> SUFFICES ASSUME NEW t \in 0 .. 3 PROVE r[p + t] = p + t
      BY DEF InRow
    <3>1. p + t \in 1 .. k
      BY <2>1, <1>1
    <3> QED BY <3>1, <1>2
  <2>3. (1 .. k) \ {} \in SUBSET (1 .. Len(Stream))
    BY <1>1
  <2>4. PICK i \in 1 .. Len(units) : p = Off(i) + 1
    BY <2>1, <2>2, <2>3, CodeWhere
  <2>5. Off(i) \in Nat
    BY ExtentIs
  <2>6. Off(i) + 4 <= k
    <3> DEFINE o == Off(i)
    <3>1. p = o + 1 /\ o \in Nat
      BY <2>4, <2>5
    <3> HIDE DEF o
    <3>2. o + 4 <= k
      BY <3>1, <2>1, <1>1
    <3> QED BY <3>2 DEF o
  <2> QED BY <2>4, <2>6
<1>4. ASSUME NEW i \in A PROVE Off(i) + 1 \in Codes(R)
  <2> DEFINE p == Off(i) + 1
  <2>1. Off(i) \in Nat /\ Off(i) + 4 <= k
    BY ExtentIs
  <2>2. p \in 1 .. Len(r) /\ p + 3 \in 1 .. Len(r) /\ p \in Nat
    <3> DEFINE o == Off(i)
    <3>1. o \in Nat /\ o + 4 <= k
      BY <2>1
    <3> HIDE DEF o
    <3>2. o + 1 \in 1 .. k /\ (o + 1) + 3 \in 1 .. k /\ o + 1 \in Nat
      BY <3>1, <1>1
    <3> QED BY <3>2, <1>2 DEF o
  <2>3. p \in Codes(Stream)
    BY OffCode
  <2> HIDE DEF p
  <2>4. InRow(r, p, p, 3)
    <3> SUFFICES ASSUME NEW t \in 0 .. 3 PROVE r[p + t] = p + t
      BY DEF InRow
    <3>1. p + t \in 1 .. k
      BY <2>2, <1>1, <1>2
    <3> QED BY <3>1, <1>2
  <2>5. p \in Codes(R)
    BY <2>2, <2>3, <2>4, CodeKept
  <2> QED BY <2>5 DEF p
<1> QED BY <1>3, <1>4

\* So the units that are handled are the first ones.
LEMMA HandledFirst ==
  ASSUME NalInv, lost = {}, alive
  PROVE  \E k \in 0 .. Len(units) : /\ handled = SubSeq(units, 1, k)
                                    /\ \A i \in 1 .. Len(units) : i <= k <=> Ends(i) <= sent
<1> DEFINE A == {j \in 1 .. Len(units) : Off(j) + 4 <= sent}
           N == Len(units)
<1>1. /\ units \in Seq(Units) /\ sent \in 0 .. Len(Stream) /\ N \in Nat /\ Len(Stream) \in Nat
      /\ Off(N + 1) = Len(Stream) /\ sent \in Nat
  BY UnitsSeq, UnitTyped, OffIs DEF NalInv
<1>2. PICK R, r : Received(R, r, (1 .. sent) \ {}) /\ handled = Split(R).nals
  BY DEF NalInv, Handled
<1>3. Len(R) = sent /\ Len(r) = sent /\ R \in Seq(Nat) /\ \A p \in 1 .. sent : r[p] = p
  <2>1. Len(R) = sent /\ Len(r) = sent /\ \A p \in 1 .. sent : r[p] = p
    BY <1>1, <1>2, AllReceived
  <2>2. R \in Seq(Nat)
    BY <1>2 DEF Received
  <2> QED BY <2>1, <2>2
<1>4. \A i \in 1 .. N : /\ Off(i) \in Nat /\ Off(i + 1) = Off(i) + 4 + Len(units[i]) /\ Off(i + 1) \in Nat
                        /\ Len(units[i]) \in Nat \ {0} /\ units[i] \in Seq(Nat) /\ Ends(i) = Off(i + 1) + 4
  BY <1>1, ExtentIs, UnitTyped
<1>5. \A i, j \in 1 .. N : i < j => Off(i) < Off(j)
  <2>1. \A i \in 1 .. N : i \in 1 .. N + 1
    BY <1>1
  <2> QED BY <2>1, <1>1, OffRises
<1>6. \E K \in 0 .. N : A = 1 .. K
  <2>1. CASE A = {}
    <3>1. A = 1 .. 0 /\ 0 \in 0 .. N
      BY <2>1, <1>1
    <3> QED BY <3>1
  <2>2. CASE A # {}
    <3> DEFINE K == Max(A)
    <3>1. K \in A /\ \A j \in A : j <= K
      <4>1. A \in SUBSET (1 .. N)
        OBVIOUS
      <4> HIDE DEF A, N
      <4> QED BY <4>1, <2>2, <1>1, Greatest
    <3> HIDE DEF K
    <3>2. ASSUME NEW j \in 1 .. K PROVE j \in A
      <4>1. j \in 1 .. N /\ (j = K \/ j < K) /\ K \in 1 .. N
        BY <3>1, <1>1
      <4>2. CASE j < K
        <5>1. Off(j) < Off(K) /\ Off(K) + 4 <= sent /\ Off(j) \in Nat /\ Off(K) \in Nat
          BY <4>1, <4>2, <3>1, <1>4, <1>5
        <5> DEFINE a == Off(j)
                   b == Off(K)
        <5>2. a < b /\ b + 4 <= sent /\ a \in Nat /\ b \in Nat
          BY <5>1
        <5> HIDE DEF a, b
        <5>3. a + 4 <= sent
          BY <5>2, <1>1
        <5> QED BY <5>3, <4>1 DEF a
      <4> QED BY <4>1, <4>2, <3>1
    <3>3. A = 1 .. K /\ K \in 0 .. N
      BY <3>1, <3>2, <1>1
    <3> QED BY <3>3
  <2> QED BY <2>1, <2>2
<1>7. PICK K \in 0 .. N : A = 1 .. K
  BY <1>6
<1> DEFINE c == Positions(R)
           e == [i \in 1 .. K |-> Off(i) + 1]
<1>8. c = e
  <2>1. Enumerates(c, Codes(R))
    BY <1>3, PositionsAre
  <2>2. Codes(R) = {Off(i) + 1 : i \in 1 .. K}
    <3>1. Codes(R) = {Off(i) + 1 : i \in A}
      BY <1>1, <1>2, CodesOfSent
    <3> HIDE DEF A
    <3> QED BY <3>1, <1>7
  <2>3. Enumerates(e, {Off(i) + 1 : i \in 1 .. K})
    <3>1. K \in Nat /\ \A i \in 1 .. K : i \in 1 .. N
      BY <1>1
    <3>2. \A i \in 1 .. K : Off(i) + 1 \in Nat
      BY <3>1, <1>4
    <3>3. e \in Seq(Nat) /\ Len(e) = K /\ \A i \in 1 .. K : e[i] = Off(i) + 1
      BY <3>1, <3>2
    <3> HIDE DEF e
    <3>4. ASSUME NEW i \in 1 .. K, NEW j \in 1 .. K, i < j PROVE e[i] < e[j]
      <4> DEFINE a == Off(i)
                 b == Off(j)
      <4>1. a < b /\ a \in Nat /\ b \in Nat
        BY <3>1, <3>4, <1>4, <1>5
      <4> HIDE DEF a, b
      <4>2. a + 1 < b + 1
        BY <4>1
      <4> QED BY <4>2, <3>3 DEF a, b
    <3> QED BY <3>3, <3>4 DEF Enumerates
  <2> HIDE DEF c, e
  <2> QED BY <2>1, <2>2, <2>3, EnumOnce
<1>9. Len(c) = K /\ \A i \in 1 .. K : c[i] = Off(i) + 1
  <2>1. Len(e) = K /\ \A i \in 1 .. K : e[i] = Off(i) + 1
    BY <1>1
  <2> HIDE DEF c, e
  <2> QED BY <2>1, <1>8
<1> HIDE DEF c, e
<1> DEFINE k == IF K < 2 THEN 0 ELSE K - 1
<1>10. k \in 0 .. N /\ k \in Nat /\ \A i \in 1 .. N : i <= k <=> i + 1 <= K
  BY <1>1
<1>11. /\ handled \in Seq(Seq(Nat)) /\ Len(handled) = k
       /\ \A j \in 1 .. k : /\ j \in 1 .. K /\ j + 1 \in 1 .. K
                            /\ handled[j] = SubSeq(R, c[j] + 4, c[j + 1] - 1)
  <2>1. /\ handled \in Seq(Seq(Nat)) /\ Len(handled) = (IF Len(c) < 2 THEN 0 ELSE Len(c) - 1)
        /\ \A j \in 1 .. Len(handled) : /\ j \in 1 .. Len(c) /\ j + 1 \in 1 .. Len(c)
                                        /\ handled[j] = SubSeq(R, c[j] + 4, c[j + 1] - 1)
    BY <1>2, <1>3, SplitIs DEF c
  <2> QED BY <2>1, <1>9
<1> HIDE DEF k
<1>12. ASSUME NEW j \in 1 .. k PROVE handled[j] = units[j]
  <2> DEFINE q == c[j] + 4
             o == Off(j)
  <2>1. j \in 1 .. Len(c) /\ j + 1 \in 1 .. Len(c) /\ j \in 1 .. N /\ c[j] = o + 1
    BY <1>1, <1>7, <1>9, <1>11
  <2>2. /\ c[j] \in Codes(R) /\ c[j + 1] \in Codes(R)
        /\ ~(\E y \in Codes(R) : c[j] < y /\ y < c[j + 1])
        /\ c[j] \in Nat \ {0} /\ c[j + 1] \in Nat /\ c[j + 1] + 3 <= Len(R) /\ c[j] + 4 <= c[j + 1]
    BY <2>1, <1>3, NextCode DEF c
  <2>3. q \in 1 .. sent /\ q <= c[j + 1] /\ q = o + 4 + 1
    <3> DEFINE d == c[j + 1]
    <3>1. d \in Nat /\ d + 3 <= sent /\ q <= d /\ o \in Nat /\ q = o + 1 + 4
      BY <2>1, <2>2, <1>3, <1>4
    <3> HIDE DEF d, o, q
    <3>2. q \in 1 .. sent /\ q <= d /\ q = o + 4 + 1
      BY <3>1, <1>1
    <3> QED BY <3>2 DEF d
  <2>4. 1 \in 1 .. Len(units[j])
    <3> DEFINE w == Len(units[j])
    <3>1. w \in Nat \ {0}
      BY <2>1, <1>4
    <3> HIDE DEF w
    <3>2. 1 \in 1 .. w
      BY <3>1
    <3> QED BY <3>2 DEF w
  <2>5. Around(sent, {}, R, r, j, 1, q, c[j], c[j + 1])
    <3>1. Extent(j) \cap {} = {} /\ c[j] + 4 <= q
      BY <2>2
    <3> HIDE DEF q
    <3>2. r[q] = Off(j) + 4 + 1 /\ q \in 1 .. Len(R)
      BY <2>3, <1>3 DEF o
    <3> QED BY <3>1, <3>2, <2>1, <2>2, <2>3, <2>4, <1>1, <1>2 DEF Around
  <2>6. SubSeq(R, c[j] + 4, c[j + 1] - 1) = units[j]
    BY <2>5, <1>1, UnitWhole
  <2> QED BY <2>6, <1>11
<1>13. handled = SubSeq(units, 1, k)
  <2>1. \A i \in 1 .. k : i \in 1 .. N
    BY <1>1, <1>10
  <2>2. \A i \in 1 .. k : units[i] \in Seq(Nat)
    BY <2>1, <1>4
  <2> DEFINE b == SubSeq(units, 1, k)
  <2>3. b \in Seq(Seq(Nat)) /\ Len(b) = (IF 1 <= k THEN k - 1 + 1 ELSE 0)
    BY <2>2, <1>10, SubSeqProperties
  <2>4. \A i \in 1 .. k - 1 + 1 : b[i] = units[1 + i - 1]
    BY <2>2, <1>10, SubSeqProperties
  <2> HIDE DEF b
  <2>5. Len(b) = k
    BY <2>3, <1>10
  <2>6. ASSUME NEW i \in 1 .. k PROVE handled[i] = b[i]
    <3>1. i \in 1 .. k - 1 + 1 /\ 1 + i - 1 = i
      BY <1>10
    <3>2. b[i] = units[i]
      BY <3>1, <2>4
    <3> QED BY <3>2, <1>12
  <2>7. handled = b
    BY <2>3, <2>5, <2>6, <1>11, SeqEqual
  <2> QED BY <2>7 DEF b
<1>14. ASSUME NEW i \in 1 .. N
       PROVE  i <= k <=> Ends(i) <= sent
  <2>1. i <= k <=> i + 1 <= K
    BY <1>10
  <2>2. i + 1 <= K => Ends(i) <= sent
    <3>1. i + 1 <= K => i + 1 \in 1 .. K
      BY <1>1
    <3>2. i + 1 \in A => Off(i + 1) + 4 <= sent
      OBVIOUS
    <3> QED BY <3>1, <3>2, <1>4, <1>7
  <2>3. Ends(i) <= sent => i + 1 <= K
    <3> SUFFICES ASSUME Ends(i) <= sent PROVE i + 1 <= K
      OBVIOUS
    <3>1. Off(i + 1) + 4 <= sent /\ Off(i + 1) \in Nat
      BY <1>4
    <3>2. i # N
      <4> SUFFICES ASSUME i = N PROVE FALSE
        OBVIOUS
      <4> DEFINE w == Off(N + 1)
      <4>1. w + 4 <= sent /\ w = Len(Stream) /\ w \in Nat /\ sent <= Len(Stream)
        BY <3>1, <1>1
      <4> HIDE DEF w
      <4> QED BY <4>1, <1>1
    <3>3. i + 1 \in 1 .. N
      BY <3>2, <1>1
    <3>4. i + 1 \in A
      BY <3>1, <3>3
    <3>5. i + 1 \in 1 .. K
      BY <3>4, <1>7
    <3> QED BY <3>5, <1>1
  <2> QED BY <2>1, <2>2, <2>3
<1> QED BY <1>10, <1>13, <1>14

\* Where the stream is cut makes no difference.
THEOREM CutsAreHarmless == NalSpec => []CutsDontMatter
<1>1. NalInv => CutsDontMatter
  <2> SUFFICES ASSUME NalInv, lost = {}
               PROVE  /\ alive
                      /\ \E k \in 0 .. Len(units) :
                           /\ handled = SubSeq(units, 1, k)
                           /\ \A i \in 1 .. Len(units) : i <= k <=> Ends(i) <= sent
    BY DEF CutsDontMatter
  <2>1. alive
    <3> SUFFICES ASSUME ~alive PROVE FALSE
      OBVIOUS
    <3>1. Spoilt({})
      BY DEF NalInv
    <3> QED BY <3>1 DEF Spoilt
  <2> QED BY <2>1, HandledFirst
<1> QED BY <1>1, NalInvariance, PTL

-----------------------------------------------------------------------------
(* Sums *)

\* The element a fold takes next.
One(s) == CHOOSE x \in s : TRUE

\* g tells the sums of f over the subsets of S.
Sums(f, S, g) == g = [s \in SUBSET S |-> IF s = {} THEN 0 ELSE f[One(s)] + g[s \ {One(s)}]]

\* The subsets of S with less than k elements.
Level(S, k) == {s \in SUBSET S : Cardinality(s) < k}

\* Without one element a set is one smaller.
LEMMA LevelDown ==
  ASSUME NEW S, IsFiniteSet(S), NEW k \in Nat, NEW s \in Level(S, k)
  PROVE  /\ k = 1 => s = {}
         /\ s # {} => One(s) \in s /\ s \ {One(s)} \in Level(S, k - 1)
<1>1. s \in SUBSET S /\ IsFiniteSet(s) /\ Cardinality(s) < k
  BY FS_Subset DEF Level
<1>2. Cardinality(s) \in Nat
  BY <1>1, FS_CardinalityType
<1>3. k = 1 => s = {}
  <2>1. k = 1 => Cardinality(s) = 0
    BY <1>1, <1>2
  <2> QED BY <2>1, <1>1, FS_EmptySet
<1>4. ASSUME s # {} PROVE One(s) \in s /\ s \ {One(s)} \in Level(S, k - 1)
  <2>1. One(s) \in s
    BY <1>4 DEF One
  <2>2. Cardinality(s \ {One(s)}) = Cardinality(s) - 1
    BY <2>1, <1>1, FS_RemoveElement
  <2>3. s \ {One(s)} \in SUBSET S
    BY <1>1
  <2>4. Cardinality(s \ {One(s)}) < k - 1
    BY <2>2, <1>1, <1>2
  <2> QED BY <2>1, <2>3, <2>4 DEF Level
<1> QED BY <1>3, <1>4

\* Induction over the subsets of a finite set.
LEMMA SetInduction ==
  ASSUME NEW S, IsFiniteSet(S), NEW A,
         \A T \in SUBSET S : (T = {} \/ (One(T) \in T /\ T \ {One(T)} \in A)) => T \in A
  PROVE  \A T \in SUBSET S : T \in A
<1> DEFINE n == Cardinality(S) + 1
           B == {k \in 1 .. n : \A T \in Level(S, k) : T \in A}
<1>1. Cardinality(S) \in Nat /\ n \in Nat
  BY FS_CardinalityType
<1>2. ASSUME NEW k \in 1 .. n, k = 1 \/ k - 1 \in B PROVE k \in B
  <2>1. ASSUME NEW T \in Level(S, k) PROVE T \in A
    <3>0. k \in Nat /\ T \in SUBSET S
      BY <1>1 DEF Level
    <3>1. CASE T = {}
      BY <3>0, <3>1
    <3>2. CASE T # {}
      <4>1. k # 1 /\ One(T) \in T /\ T \ {One(T)} \in Level(S, k - 1)
        BY <3>0, <3>2, LevelDown
      <4>2. T \ {One(T)} \in A
        BY <4>1, <1>2
      <4> QED BY <3>0, <4>1, <4>2
    <3> QED BY <3>1, <3>2
  <2> QED BY <2>1
<1>3. \A k \in 1 .. n : k \in B
  <2> HIDE DEF B, n
  <2> QED BY <1>1, <1>2, Ascent
<1>4. n \in 1 .. n
  BY <1>1
<1>5. \A T \in Level(S, n) : T \in A
  BY <1>3, <1>4
<1>6. ASSUME NEW T \in SUBSET S PROVE T \in Level(S, n)
  <2>1. Cardinality(T) <= Cardinality(S) /\ IsFiniteSet(T)
    BY FS_Subset
  <2>2. Cardinality(T) \in Nat
    BY <2>1, FS_CardinalityType
  <2>3. Cardinality(T) < n
    BY <2>1, <2>2, <1>1
  <2> QED BY <2>3 DEF Level
<1> QED BY <1>5, <1>6

\* The fold that SumFunctionOnSet is.
LEMMA SumExists ==
  ASSUME NEW S, IsFiniteSet(S), NEW f
  PROVE  \E g : Sums(f, S, g) /\ SumFunctionOnSet(f, S) = g[S]
<1> DEFINE n == Cardinality(S) + 1
           B == {k \in 1 .. n : \E g : g = [s \in Level(S, k) |->
                                    IF s = {} THEN 0 ELSE f[One(s)] + g[s \ {One(s)}]]}
<1>1. Cardinality(S) \in Nat /\ n \in Nat
  BY FS_CardinalityType
<1>2. ASSUME NEW k \in 1 .. n, k = 1 \/ k - 1 \in B PROVE k \in B
  <2>0. k \in Nat
    BY <1>1
  <2>1. CASE k = 1
    <3> DEFINE g == [s \in Level(S, k) |-> 0]
    <3>1. g = [s \in Level(S, k) |-> IF s = {} THEN 0 ELSE f[One(s)] + g[s \ {One(s)}]]
      BY <2>0, <2>1, LevelDown
    <3> QED BY <3>1
  <2>2. CASE k # 1
    <3>1. PICK h : h = [s \in Level(S, k - 1) |-> IF s = {} THEN 0 ELSE f[One(s)] + h[s \ {One(s)}]]
      BY <1>2, <2>2
    <3> DEFINE g == [s \in Level(S, k) |-> IF s = {} THEN 0 ELSE f[One(s)] + h[s \ {One(s)}]]
    <3>2. ASSUME NEW s \in Level(S, k), s # {} PROVE g[s \ {One(s)}] = h[s \ {One(s)}]
      <4> DEFINE t == s \ {One(s)}
      <4>1. t \in Level(S, k - 1)
        BY <2>0, <3>2, LevelDown
      <4>2. t \in Level(S, k)
        <5>1. Cardinality(t) < k - 1 /\ t \in SUBSET S
          BY <4>1 DEF Level
        <5>2. IsFiniteSet(t)
          BY <5>1, FS_Subset
        <5>3. Cardinality(t) \in Nat
          BY <5>2, FS_CardinalityType
        <5>4. Cardinality(t) < k
          BY <5>1, <5>3, <2>0
        <5> QED BY <5>1, <5>4 DEF Level
      <4> HIDE DEF t
      <4>3. g[t] = IF t = {} THEN 0 ELSE f[One(t)] + h[t \ {One(t)}]
        BY <4>2
      <4>4. h[t] = IF t = {} THEN 0 ELSE f[One(t)] + h[t \ {One(t)}]
        BY <4>1, <3>1
      <4>5. g[t] = h[t]
        BY <4>3, <4>4
      <4> QED BY <4>5 DEF t
    <3>3. \A s \in Level(S, k) : g[s] = IF s = {} THEN 0 ELSE f[One(s)] + g[s \ {One(s)}]
      BY <3>2
    <3>4. g = [s \in Level(S, k) |-> IF s = {} THEN 0 ELSE f[One(s)] + g[s \ {One(s)}]]
      BY <3>3
    <3> QED BY <3>4
  <2> QED BY <2>1, <2>2
<1>3. \A k \in 1 .. n : k \in B
  <2> HIDE DEF B, n
  <2> QED BY <1>1, <1>2, Ascent
<1>4. n \in 1 .. n
  BY <1>1
<1>5. Level(S, n) = SUBSET S
  <2>1. ASSUME NEW T \in SUBSET S PROVE T \in Level(S, n)
    <3>1. Cardinality(T) <= Cardinality(S) /\ IsFiniteSet(T)
      BY FS_Subset
    <3>2. Cardinality(T) \in Nat
      BY <3>1, FS_CardinalityType
    <3>3. Cardinality(T) < n
      BY <3>1, <3>2, <1>1
    <3> QED BY <3>3 DEF Level
  <2> QED BY <2>1 DEF Level
<1>6. \E g : Sums(f, S, g)
  BY <1>3, <1>4, <1>5 DEF Sums
<1> DEFINE it == CHOOSE g : g = [s \in SUBSET S |->
                                 IF s = {} THEN 0 ELSE f[One(s)] + g[s \ {One(s)}]]
<1>7. SumFunctionOnSet(f, S) = it[S]
  BY Zenon DEF SumFunctionOnSet, FoldFunctionOnSet, MapThenFoldSet, One
<1>8. Sums(f, S, it)
  BY <1>6, Zenon DEF Sums
<1> QED BY <1>7, <1>8

\* A sum of numbers is one.  If f and h differ at i alone, their sums differ by as
\* much, where i is among what is added.
LEMMA SumChange ==
  ASSUME NEW S, IsFiniteSet(S), NEW f, NEW h, NEW i,
         \A x \in S : f[x] \in Int /\ h[x] \in Int /\ (x # i => h[x] = f[x])
  PROVE  /\ SumFunctionOnSet(f, S) \in Int
         /\ SumFunctionOnSet(h, S) = SumFunctionOnSet(f, S) + IF i \in S THEN h[i] - f[i] ELSE 0
<1>1. PICK a : Sums(f, S, a) /\ SumFunctionOnSet(f, S) = a[S]
  BY SumExists
<1>2. PICK b : Sums(h, S, b) /\ SumFunctionOnSet(h, S) = b[S]
  BY SumExists
<1> DEFINE A == {T \in SUBSET S : a[T] \in Int /\ b[T] = a[T] + IF i \in T THEN h[i] - f[i] ELSE 0}
<1>3. ASSUME NEW T \in SUBSET S, T = {} \/ (One(T) \in T /\ T \ {One(T)} \in A) PROVE T \in A
  <2>1. CASE T = {}
    <3>1. a[T] = 0 /\ b[T] = 0
      BY <2>1, <1>1, <1>2 DEF Sums
    <3> QED BY <2>1, <3>1
  <2>2. CASE T # {}
    <3> DEFINE x == One(T)
               U == T \ {x}
    <3>1. x \in T /\ U \in A /\ x \in S
      BY <2>2, <1>3
    <3>2. a[T] = f[x] + a[U] /\ b[T] = h[x] + b[U]
      BY <2>2, <1>1, <1>2 DEF Sums
    <3>3. a[U] \in Int /\ b[U] = a[U] + IF i \in U THEN h[i] - f[i] ELSE 0
      BY <3>1
    <3>4. f[x] \in Int /\ h[x] \in Int /\ (x # i => h[x] = f[x])
      BY <3>1
    <3>5. i \in T => f[i] \in Int /\ h[i] \in Int
      OBVIOUS
    <3>6. CASE x = i
      <4>1. i \in T /\ i \notin U
        BY <3>1, <3>6
      <4> QED BY <4>1, <3>2, <3>3, <3>4, <3>6
    <3>7. CASE x # i
      <4>1. i \in T <=> i \in U
        BY <3>7
      <4>2. b[T] = a[T] + IF i \in T THEN h[i] - f[i] ELSE 0
        <5> HIDE DEF x, U
        <5> QED BY <4>1, <3>2, <3>3, <3>4, <3>5, <3>7
      <4>3. a[T] \in Int
        BY <3>2, <3>3, <3>4
      <4> QED BY <4>2, <4>3
    <3> QED BY <3>6, <3>7
  <2> QED BY <2>1, <2>2
<1>4. \A T \in SUBSET S : T \in A
  <2> HIDE DEF A
  <2> QED BY <1>3, SetInduction
<1>5. S \in A
  BY <1>4
<1> QED BY <1>1, <1>2, <1>5

-----------------------------------------------------------------------------
(* Packets *)

\* A byte within a packet.
LEMMA AtIs ==
  ASSUME NEW p \in Seq(Byte), NEW i \in 0 .. Len(p) - 1
  PROVE  At(p, i) = p[i + 1] /\ p[i + 1] \in Byte
<1>1. Len(p) \in Nat
  BY LenProperties
<1>2. i < Len(p) /\ i + 1 \in 1 .. Len(p)
  BY <1>1
<1>3. p[i + 1] \in Byte
  BY <1>2, ElementOfSeq
<1> QED BY <1>2, <1>3 DEF At

\* Sums that differ by less than 256 have different low bytes.
LEMMA LowBytes ==
  ASSUME NEW s \in Int, NEW a \in Byte, NEW b \in Byte, a # b
  PROVE  (s + (b - a)) % 256 # s % 256
<1> DEFINE d == b - a
<1>1. d \in -255 .. 255 /\ d # 0
  BY DEF Byte
<1> HIDE DEF d
<1>2. (s + d) % 256 # s % 256
  BY <1>1
<1> QED BY <1>2 DEF d

\* The length of a packet is a byte.
LEMMA LengthByte == ASSUME NEW n \in Nat, n <= 251 PROVE 4 + n \in Byte
BY DEF Byte

\* What calc_checksum sums up: one byte changed, or none of them.
LEMMA ChecksumChange ==
  ASSUME NEW p \in Seq(Byte), NEW q \in Seq(Byte), Len(q) = Len(p), NEW i \in 1 .. Len(p),
         \A j \in 1 .. Len(p) : j # i => q[j] = p[j]
  PROVE  /\ CalcChecksum(p) \in Byte
         /\ i \in {1, 4} => CalcChecksum(q) = CalcChecksum(p)
         /\ i \notin {1, 4} /\ q[i] # p[i] => CalcChecksum(q) # CalcChecksum(p)
<1> DEFINE S == (1 .. Len(p)) \ {1, 4}
           s == SumFunctionOnSet(p, S)
           t == SumFunctionOnSet(q, S)
<1>1. Len(p) \in Nat /\ \A j \in 1 .. Len(p) : p[j] \in 0 .. 255 /\ q[j] \in 0 .. 255
  <2>1. Len(p) \in Nat /\ \A j \in 1 .. Len(p) : p[j] \in Byte
    BY LenProperties, ElementOfSeq
  <2>2. \A j \in 1 .. Len(q) : q[j] \in Byte
    BY ElementOfSeq
  <2> QED BY <2>1, <2>2 DEF Byte
<1>2. DOMAIN p = 1 .. Len(p) /\ DOMAIN q = 1 .. Len(p)
  BY LenProperties
<1>3. CalcChecksum(p) = s % 256 /\ CalcChecksum(q) = t % 256
  BY <1>2 DEF CalcChecksum
<1>4. IsFiniteSet(S)
  <2>1. IsFiniteSet(1 .. Len(p))
    BY <1>1, FS_Interval
  <2> QED BY <2>1, FS_Subset
<1>5. ASSUME NEW x \in S PROVE p[x] \in Int /\ q[x] \in Int /\ (x # i => q[x] = p[x])
  <2>1. x \in 1 .. Len(p)
    OBVIOUS
  <2>2. p[x] \in 0 .. 255 /\ q[x] \in 0 .. 255
    BY <2>1, <1>1
  <2>3. x # i => q[x] = p[x]
    BY <2>1
  <2>4. 0 .. 255 \subseteq Int
    OBVIOUS
  <2> QED BY <2>2, <2>3, <2>4, Zenon
<1> HIDE DEF S
<1>6. s \in Int /\ t = s + IF i \in S THEN q[i] - p[i] ELSE 0
  BY <1>4, <1>5, SumChange
<1>7. i \in S <=> i \notin {1, 4}
  BY DEF S
<1>8. p[i] \in 0 .. 255 /\ q[i] \in 0 .. 255
  BY <1>1
<1> HIDE DEF s, t
<1>9. i \in S /\ q[i] # p[i] => t % 256 # s % 256
  <2>1. i \in S => t = s + (q[i] - p[i])
    BY <1>6
  <2>2. q[i] # p[i] => (s + (q[i] - p[i])) % 256 # s % 256
    <3>1. p[i] \in Byte /\ q[i] \in Byte
      BY <1>8 DEF Byte
    <3> DEFINE a == p[i]
               b == q[i]
    <3>2. s \in Int /\ a \in Byte /\ b \in Byte
      BY <1>6, <3>1
    <3> HIDE DEF a, b
    <3>3. a # b => (s + (b - a)) % 256 # s % 256
      BY ONLY <3>2, LowBytes, Zenon
    <3> QED BY <3>3 DEF a, b
  <2> QED BY <2>1, <2>2
<1>10. i \notin S => t = s
  BY <1>6
<1>11. s % 256 \in 0 .. 255
  BY <1>6
<1> QED BY <1>3, <1>7, <1>9, <1>10, <1>11 DEF Byte

\* Two pieces of bytes.
LEMMA BytesCat ==
  ASSUME NEW s \in Seq(Byte), NEW t \in Seq(Byte)
  PROVE  /\ s \o t \in Seq(Byte) /\ Len(s \o t) = Len(s) + Len(t)
         /\ \A i \in 1 .. Len(s) : (s \o t)[i] = s[i]
         /\ \A i \in 1 .. Len(t) : (s \o t)[Len(s) + i] = t[i]
<1>1. /\ s \o t \in Seq(Byte) /\ Len(s \o t) = Len(s) + Len(t)
      /\ \A i \in 1 .. Len(s) + Len(t) : (s \o t)[i] = IF i <= Len(s) THEN s[i] ELSE t[i - Len(s)]
      /\ Len(s) \in Nat /\ Len(t) \in Nat
  BY ConcatProperties, LenProperties
<1>2. ASSUME NEW i \in 1 .. Len(s) PROVE (s \o t)[i] = s[i]
  BY <1>1
<1>3. ASSUME NEW i \in 1 .. Len(t) PROVE (s \o t)[Len(s) + i] = t[i]
  <2>1. Len(s) + i \in 1 .. Len(s) + Len(t) /\ ~(Len(s) + i <= Len(s)) /\ (Len(s) + i) - Len(s) = i
    BY <1>1
  <2> QED BY <2>1, <1>1
<1> QED BY <1>1, <1>2, <1>3

\* What build_packet returns is valid, for any id and any load of bytes for which
\* the length is a byte.
LEMMA PacketIs ==
  ASSUME NEW id \in Byte, NEW load \in Seq(Byte), Len(load) <= 251
  PROVE  LET p == BuildPacket(id, load)
         IN  /\ p \in Seq(Byte) /\ Len(p) = 4 + Len(load) /\ ValidatePacket(p)
             /\ p[1] = START_BYTE /\ p[2] = id
             /\ \A i \in 1 .. Len(load) : p[4 + i] = load[i]
<1> DEFINE h == << START_BYTE, id, (4 + Len(load)) % 256, 0 >>
           q == h \o load
           p == BuildPacket(id, load)
<1>1. Len(load) \in Nat /\ Len(load) <= 251
  BY LenProperties
<1>2. h \in Seq(Byte) /\ Len(h) = 4 /\ h[1] = START_BYTE /\ h[2] = id /\ h[3] = 4 + Len(load)
  <2>1. START_BYTE \in Byte /\ 0 \in Byte /\ (4 + Len(load)) % 256 = 4 + Len(load)
    BY <1>1 DEF START_BYTE, Byte
  <2>2. 4 + Len(load) \in Byte
    BY <1>1, LengthByte
  <2> HIDE DEF Byte
  <2> QED BY <2>1, <2>2
<1> HIDE DEF h
<1>3. /\ q \in Seq(Byte) /\ Len(q) = 4 + Len(load)
      /\ \A i \in 1 .. 4 : q[i] = h[i]
      /\ \A i \in 1 .. Len(load) : q[4 + i] = load[i]
  <2>1. /\ q \in Seq(Byte) /\ Len(q) = Len(h) + Len(load)
        /\ \A i \in 1 .. Len(h) : q[i] = h[i]
        /\ \A i \in 1 .. Len(load) : q[Len(h) + i] = load[i]
    BY <1>2, BytesCat
  <2> QED BY <2>1, <1>2
<1>4. p = [q EXCEPT ![4] = CalcChecksum(q)]
  BY DEF BuildPacket, h
<1> HIDE DEF q, p
<1>5. 4 \in 1 .. Len(q) /\ Len(q) \in Nat
  BY <1>1, <1>3
<1>6. CalcChecksum(q) \in Byte
  BY <1>3, <1>5, ChecksumChange
<1>7. /\ p \in Seq(Byte) /\ Len(p) = Len(q) /\ p[4] = CalcChecksum(q)
      /\ \A j \in 1 .. Len(q) : j # 4 => p[j] = q[j]
  BY <1>3, <1>4, <1>5, <1>6, ExceptSeq
<1>8. CalcChecksum(p) = CalcChecksum(q)
  BY <1>3, <1>5, <1>7, ChecksumChange
<1>9. p[1] = START_BYTE /\ p[2] = id /\ p[3] = Len(p)
  BY <1>1, <1>2, <1>3, <1>7
<1>10. ASSUME NEW i \in 1 .. Len(load) PROVE p[4 + i] = load[i]
  <2>1. 4 + i \in 1 .. 4 + Len(load) /\ 4 + i # 4
    BY <1>1
  <2> QED BY <2>1, <1>3, <1>7
<1>11. ValidatePacket(p)
  <2>1. At(p, 0) = p[1] /\ At(p, 2) = p[3] /\ At(p, 3) = p[4] /\ Len(p) >= 4
    BY <1>1, <1>3, <1>7 DEF At
  <2> QED BY <2>1, <1>7, <1>8, <1>9 DEF ValidatePacket
<1> QED BY <1>3, <1>7, <1>9, <1>10, <1>11 DEF p

\* The bytes validate_packet looks at.
LEMMA ValidIs ==
  ASSUME NEW p \in Seq(Byte)
  PROVE  ValidatePacket(p) <=> /\ Len(p) >= 4 /\ p[1] = START_BYTE /\ p[3] = Len(p)
                               /\ p[4] = CalcChecksum(p)
<1>1. Len(p) \in Nat
  BY LenProperties
<1>2. Len(p) >= 4 => At(p, 0) = p[1] /\ At(p, 2) = p[3] /\ At(p, 3) = p[4]
  BY <1>1 DEF At
<1> QED BY <1>2 DEF ValidatePacket

\* A valid packet with one byte changed is not valid.
LEMMA DamageShows ==
  ASSUME NEW p \in Seq(Byte), ValidatePacket(p), NEW i \in 1 .. Len(p), NEW v \in Byte, v # p[i]
  PROVE  ~ValidatePacket([p EXCEPT ![i] = v])
<1> DEFINE q == [p EXCEPT ![i] = v]
<1>1. /\ q \in Seq(Byte) /\ Len(q) = Len(p) /\ q[i] = v
      /\ \A j \in 1 .. Len(p) : j # i => q[j] = p[j]
  BY ExceptSeq
<1> HIDE DEF q
<1>2. Len(p) \in Nat /\ Len(p) >= 4 /\ p[1] = START_BYTE /\ p[3] = Len(p) /\ p[4] = CalcChecksum(p)
  BY ValidIs, LenProperties
<1>3. /\ i \in {1, 4} => CalcChecksum(q) = CalcChecksum(p)
      /\ i \notin {1, 4} => CalcChecksum(q) # CalcChecksum(p)
  BY <1>1, ChecksumChange
<1>4. 1 \in 1 .. Len(p) /\ 3 \in 1 .. Len(p) /\ 4 \in 1 .. Len(p)
  BY <1>2
<1>5. ~ValidatePacket(q)
  <2> SUFFICES ASSUME ValidatePacket(q) PROVE FALSE
    OBVIOUS
  <2>1. q[1] = START_BYTE /\ q[4] = CalcChecksum(q)
    BY <1>1, ValidIs
  <2>2. CASE i = 1
    BY <2>1, <2>2, <1>1, <1>2
  <2>3. CASE i = 4
    BY <2>1, <2>3, <1>1, <1>2, <1>3
  <2>4. CASE i \notin {1, 4}
    BY <2>1, <2>4, <1>1, <1>2, <1>3, <1>4
  <2> QED BY <2>2, <2>3, <2>4
<1> QED BY <1>5 DEF q

\* Neither is one without its end.
LEMMA CutShows ==
  ASSUME NEW p \in Seq(Byte), ValidatePacket(p), NEW n \in 0 .. Len(p) - 1
  PROVE  ~ValidatePacket(SubSeq(p, 1, n))
<1> DEFINE q == SubSeq(p, 1, n)
<1>1. Len(p) \in Nat /\ Len(p) >= 4 /\ p[3] = Len(p)
  BY ValidIs, LenProperties
<1>2. n \in 0 .. Len(p)
  BY <1>1
<1>3. q \in Seq(Byte) /\ Len(q) = n /\ \A i \in 1 .. n : q[i] = p[i]
  BY <1>2, Pieces
<1> HIDE DEF q
<1>4. ~ValidatePacket(q)
  <2> SUFFICES ASSUME ValidatePacket(q) PROVE FALSE
    OBVIOUS
  <2>1. Len(q) >= 4 /\ q[3] = Len(q)
    BY <1>3, ValidIs
  <2>2. 3 \in 1 .. n
    BY <2>1, <1>2, <1>3
  <2>3. q[3] = Len(p)
    BY <2>2, <1>1, <1>3
  <2>4. n = Len(p)
    BY <2>1, <2>3, <1>3
  <2>5. n # Len(p)
    BY <1>1
  <2> QED BY <2>4, <2>5
<1> QED BY <1>4 DEF q

\* The bytes of a stick are between 3 and 253.
LEMMA StickTyped == \A n \in Int : StickVal(n) \in Byte
<1> SUFFICES ASSUME NEW n \in Int PROVE StickVal(n) \in Byte
  OBVIOUS
<1>1. StickRound(n) \in Int
  BY DEF StickRound
<1> QED BY <1>1 DEF StickVal, Byte

\* Functions on the numbers up to n are sequences.
LEMMA TupleIs ==
  ASSUME NEW S, NEW n \in Nat, NEW f \in [1 .. n -> S]
  PROVE  f \in Seq(S) /\ Len(f) = n
<1>1. f \in Seq(S)
  BY SeqDef
<1>2. DOMAIN f = 1 .. n /\ DOMAIN f = 1 .. Len(f) /\ Len(f) \in Nat
  BY <1>1, LenProperties
<1>3. Len(f) = n
  BY <1>2
<1> QED BY <1>1, <1>3

\* The four bytes of a number.
LEMMA PackTyped ==
  ASSUME NEW n \in Int
  PROVE  /\ Pack(n) \in Seq(Byte) /\ Len(Pack(n)) = 4
         /\ Pack(n)[1] = n % 256 /\ Pack(n)[2] = (n \div 256) % 256
         /\ Pack(n)[3] = (n \div 65536) % 256 /\ Pack(n)[4] = (n \div 16777216) % 256
<1>1. /\ n % 256 \in Byte /\ (n \div 256) % 256 \in Byte
      /\ (n \div 65536) % 256 \in Byte /\ (n \div 16777216) % 256 \in Byte
  BY DEF Byte
<1> QED BY <1>1 DEF Pack

\* The payload of a report of the operator's place.
GpsPayload(lon, lat, flag) == Pack(lon) \o Pack(lat) \o << 0, 0, 0, flag % 256 >>

\* It is the two numbers, one behind the other.
LEMMA GpsPayloadIs ==
  ASSUME NEW lon \in Int, NEW lat \in Int, NEW flag \in Int
  PROVE  LET p == GpsPayload(lon, lat, flag)
         IN  /\ p \in Seq(Byte) /\ Len(p) = 12
             /\ \A i \in 1 .. 4 : p[i] = Pack(lon)[i] /\ p[i + 4] = Pack(lat)[i]
<1> DEFINE a == Pack(lon)
           b == Pack(lat)
           c == << 0, 0, 0, flag % 256 >>
           p == GpsPayload(lon, lat, flag)
<1>1. a \in Seq(Byte) /\ Len(a) = 4 /\ b \in Seq(Byte) /\ Len(b) = 4
  BY PackTyped
<1>2. c \in Seq(Byte) /\ Len(c) = 4
  <2>1. 0 \in Byte /\ flag % 256 \in Byte
    BY DEF Byte
  <2> QED BY <2>1
<1>3. p = (a \o b) \o c
  BY DEF GpsPayload
<1> HIDE DEF a, b, c, p
<1> DEFINE d == a \o b
<1>4. d \in Seq(Byte) /\ Len(d) = 8 /\ \A i \in 1 .. 4 : d[i] = a[i] /\ d[4 + i] = b[i]
  <2>1. /\ d \in Seq(Byte) /\ Len(d) = Len(a) + Len(b)
        /\ \A i \in 1 .. Len(a) : d[i] = a[i]
        /\ \A i \in 1 .. Len(b) : d[Len(a) + i] = b[i]
    BY <1>1, BytesCat
  <2> QED BY <2>1, <1>1
<1> HIDE DEF d
<1>5. p = d \o c
  BY <1>3 DEF d
<1>6. p \in Seq(Byte) /\ Len(p) = 12 /\ \A i \in 1 .. 8 : p[i] = d[i]
  <2>1. p \in Seq(Byte) /\ Len(p) = Len(d) + Len(c) /\ \A i \in 1 .. Len(d) : p[i] = d[i]
    BY <1>2, <1>4, <1>5, BytesCat
  <2> QED BY <2>1, <1>2, <1>4
<1>7. ASSUME NEW i \in 1 .. 4 PROVE p[i] = a[i] /\ p[i + 4] = b[i]
  <2>1. i \in 1 .. 8 /\ i + 4 \in 1 .. 8 /\ i + 4 = 4 + i
    OBVIOUS
  <2> QED BY <2>1, <1>4, <1>6
<1> QED BY <1>6, <1>7 DEF p, a, b

\* What is behind the header of build_ctrl_cmd.
LEMMA CtrlPayloadIs ==
  ASSUME NEW s \in [1 .. 4 -> Int], NEW f \in Int
  PROVE  LET p == [i \in 1 .. 4 |-> StickVal(s[i])] \o << f % 256, 0, 0 >>
         IN  p \in Seq(Byte) /\ Len(p) = 7
<1> DEFINE a == [i \in 1 .. 4 |-> StickVal(s[i])]
           c == << f % 256, 0, 0 >>
<1>1. a \in [1 .. 4 -> Byte]
  BY StickTyped
<1>2. c \in Seq(Byte) /\ Len(c) = 3
  <2>1. 0 \in Byte /\ f % 256 \in Byte
    BY DEF Byte
  <2> QED BY <2>1
<1> HIDE DEF a, c
<1>3. a \in Seq(Byte) /\ Len(a) = 4
  <2>1. \A n \in Nat : a \in [1 .. n -> Byte] => a \in Seq(Byte) /\ Len(a) = n
    BY TupleIs
  <2> QED BY <1>1, <2>1
<1>4. a \o c \in Seq(Byte) /\ Len(a \o c) = 7
  <2>1. a \o c \in Seq(Byte) /\ Len(a \o c) = Len(a) + Len(c)
    BY <1>2, <1>3, BytesCat
  <2> QED BY <2>1, <1>2, <1>3
<1> QED BY <1>4 DEF a, c

\* The numbers of four bytes are numbers.
LEMMA SignedTyped == \A x \in Signed32 : x \in Int /\ -2147483647 - 1 <= x /\ x <= 2147483647
BY SMT DEF Signed32

\* What the client builds is bytes and valid.
LEMMA BuiltIs ==
  ASSUME NEW p \in Built
  PROVE  p \in Seq(Byte) /\ ValidatePacket(p)
<1> DEFINE Good(q) == q \in Seq(Byte) /\ Len(q) <= 251
<1>1. \A id \in Byte : \A q : Good(q) => /\ BuildPacket(id, q) \in Seq(Byte)
                                         /\ ValidatePacket(BuildPacket(id, q))
  BY PacketIs
<1>2. /\ MsgId.GPSInFo \in Byte /\ MsgId.SetFence \in Byte /\ MsgId.SetRadius \in Byte
      /\ MsgId.CtrlCmd \in Byte /\ MsgId.SetCmd \in Byte
  BY DEF MsgId, Byte
<1>3. CASE \E s \in Sticks, f \in CtrlFlags : p = BuildCtrlCmd(s, f)
  <2>1. PICK s \in Sticks, f \in CtrlFlags : p = BuildCtrlCmd(s, f)
    BY <1>3
  <2> DEFINE load == [i \in 1 .. 4 |-> StickVal(s[i])] \o << f % 256, 0, 0 >>
  <2>2. s \in [1 .. 4 -> Int] /\ f \in Int
    BY PacketAssumption
  <2>3. load \in Seq(Byte) /\ Len(load) = 7
    BY <2>2, CtrlPayloadIs
  <2>4. p = BuildPacket(MsgId.CtrlCmd, load)
    BY <2>1 DEF BuildCtrlCmd
  <2> HIDE DEF load
  <2>5. Good(load)
    BY <2>3
  <2> HIDE DEF Good
  <2> QED BY <2>4, <2>5, <1>1, <1>2, Zenon
<1>4. CASE \E c \in Commands : p = BuildSetCmd(c)
  <2>1. PICK c \in Commands : p = BuildSetCmd(c)
    BY <1>4
  <2>2. c \in Byte
    BY PacketAssumption
  <2>3. << c >> \in Seq(Byte) /\ Len(<< c >>) = 1
    BY <2>2
  <2>4. Good(<< c >>)
    BY <2>3
  <2> HIDE DEF Good
  <2> QED BY <2>1, <2>4, <1>1, <1>2, Zenon DEF BuildSetCmd
<1>5. CASE \E lon, lat \in Coordinates : p = BuildGpsInfo(lon, lat, 1)
  <2>1. PICK lon \in Coordinates, lat \in Coordinates : p = BuildGpsInfo(lon, lat, 1)
    BY <1>5
  <2>2. lon \in Int /\ lat \in Int
    BY PacketAssumption, SignedTyped
  <2> DEFINE load == GpsPayload(lon, lat, 1)
  <2>3. load \in Seq(Byte) /\ Len(load) = 12
    BY <2>2, GpsPayloadIs
  <2>4. p = BuildPacket(MsgId.GPSInFo, load)
    BY <2>1 DEF BuildGpsInfo, GpsPayload
  <2> HIDE DEF load
  <2>5. Good(load)
    BY <2>3
  <2> HIDE DEF Good
  <2> QED BY <2>4, <2>5, <1>1, <1>2, Zenon
<1>6. CASE p = BuildStatusQuery
  <2>1. << >> \in Seq(Byte) /\ Len(<< >>) = 0
    BY EmptySeq
  <2>2. Good(<< >>)
    BY <2>1
  <2> HIDE DEF Good
  <2> QED BY <2>2, <1>1, <1>2, <1>6, Zenon DEF BuildStatusQuery
<1>7. CASE p = BuildSetFence
  <2>1. << 1 >> \in Seq(Byte) /\ Len(<< 1 >>) = 1
    BY DEF Byte
  <2>2. Good(<< 1 >>)
    BY <2>1
  <2> HIDE DEF Good
  <2> QED BY <2>2, <1>1, <1>2, <1>7, Zenon DEF BuildSetFence
<1> QED BY <1>3, <1>4, <1>5, <1>6, <1>7 DEF Built

-----------------------------------------------------------------------------
(* A packet on its way *)

\* What a packet can become.
PacketInv ==
  /\ \/ sender = "client" /\ packet \in Built
     \/ sender = "drone" /\ packet \in Reports
  /\ \/ fault = << >> /\ got = packet
     \/ /\ sender = "client"
        /\ \E i \in 1 .. Len(packet), v \in Byte : /\ v # packet[i] /\ fault = <<"byte", i>>
                                                   /\ got = [packet EXCEPT ![i] = v]
     \/ /\ sender = "drone"
        /\ \E at \in 4 .. 30, bit \in 0 .. 7 :
             /\ fault = <<"bit", at, bit>>
             /\ got = [packet EXCEPT ![at + 1] = Flipped(packet[at + 1], bit)]
     \/ \E n \in 0 .. Len(packet) - 1 : fault = <<"cut">> /\ got = SubSeq(packet, 1, n)

\* Only a packet that is as it was sent suffers a fault, and only one.
LEMMA PacketInvariance == PacketSpec => []PacketInv
<1>1. PacketInit => PacketInv
  BY DEF PacketInit, PacketInv
<1>2. PacketInv /\ [PacketNext]_packetVars => PacketInv'
  <2> SUFFICES ASSUME PacketInv, [PacketNext]_packetVars PROVE PacketInv'
    OBVIOUS
  <2>1. CASE Damage
    BY <2>1 DEF PacketInv, Damage
  <2>2. CASE Flip
    BY <2>2 DEF PacketInv, Flip
  <2>3. CASE Cut
    BY <2>3 DEF PacketInv, Cut
  <2>4. CASE UNCHANGED packetVars
    BY <2>4 DEF PacketInv, packetVars
  <2> QED BY <2>1, <2>2, <2>3, <2>4 DEF PacketNext
<1> QED BY <1>1, <1>2, PTL DEF PacketSpec

\* Every packet the client builds is bytes and valid, and is no longer valid when any
\* byte of it has changed or its end is missing (build_packet, validate_packet): for
\* any sticks, flags, commands and coordinates.
THEOREM CorruptionIsDetected == PacketSpec => []CorruptionDetected
<1>1. PacketInv => CorruptionDetected
  <2> SUFFICES ASSUME PacketInv, sender = "client"
               PROVE  /\ \A i \in 1 .. Len(packet) : packet[i] \in Byte
                      /\ ValidatePacket(got) <=> fault = << >>
    BY DEF CorruptionDetected
  <2>1. packet \in Seq(Byte) /\ ValidatePacket(packet)
    BY BuiltIs DEF PacketInv
  <2>2. \A i \in 1 .. Len(packet) : packet[i] \in Byte
    BY <2>1, ElementOfSeq
  <2>3. CASE fault = << >> /\ got = packet
    BY <2>1, <2>3
  <2>4. CASE \E i \in 1 .. Len(packet), v \in Byte : /\ v # packet[i] /\ fault = <<"byte", i>>
                                                     /\ got = [packet EXCEPT ![i] = v]
    <3>1. fault # << >>
      BY <2>4
    <3>2. ~ValidatePacket(got)
      BY <2>1, <2>4, DamageShows
    <3> QED BY <3>1, <3>2, <2>2, Zenon
  <2>5. CASE \E n \in 0 .. Len(packet) - 1 : fault = <<"cut">> /\ got = SubSeq(packet, 1, n)
    <3>1. fault # << >>
      BY <2>5
    <3>2. ~ValidatePacket(got)
      BY <2>1, <2>5, CutShows
    <3> QED BY <3>1, <3>2, <2>2, Zenon
  <2> QED BY <2>2, <2>3, <2>4, <2>5 DEF PacketInv
<1> QED BY <1>1, PacketInvariance, PTL

-----------------------------------------------------------------------------
(* Fields *)

\* The pieces of a byte that are fields of their own.
BitParts == {<<0, 8>>, <<0, 5>>, <<0, 4>>, <<4, 4>>, <<4, 3>>, <<0, 2>>} \cup {<<i, 1>> : i \in 0 .. 7}

\* What all fields have in common: they are behind the header, and the packet must
\* have them whole.
Shape(f) ==
  /\ f.at \in 4 .. 30 /\ f.need \in Nat /\ f.need >= f.at + f.size /\ f.need <= 30
  /\ \/ f.size \in {2, 4} /\ f.need = f.at + f.size
     \/ f.size = 1 /\ <<f.lo, f.width>> \in BitParts

\* The bits a field is made of.
Touches(f, at, bit) ==
  IF f.size > 1 THEN f.at <= at /\ at < f.at + f.size
                ELSE at = f.at /\ f.lo <= bit /\ bit < f.lo + f.width

\* Every field of a layout has this form, ...
LEMMA LayoutShape == \A l \in Layouts : \A name \in DOMAIN l[2] : Shape(l[2][name])
<1>1. \A name \in DOMAIN Telemetry : Shape(Telemetry[name])
  BY SMT DEF Telemetry, SignedAt, BitsOf, Whole, Shape, BitParts
<1>2. \A name \in DOMAIN Flags : Shape(Flags[name])
  BY SMT DEF Flags, SignedAt, BitsOf, Whole, Shape, BitParts
<1>3. \A name \in DOMAIN Control : Shape(Control[name])
  BY SMTT(60) DEF Control, SignedAt, BitsOf, Whole, Shape, BitParts
<1>4. \A name \in DOMAIN Ptz : Shape(Ptz[name])
  BY SMT DEF Ptz, SignedAt, BitsOf, Whole, Shape, BitParts
<1> QED BY <1>1, <1>2, <1>3, <1>4 DEF Layouts

\* ... and no two of them are made of the same bit.
LEMMA LayoutOnce ==
  ASSUME NEW l \in Layouts, NEW at \in Int, NEW bit \in Int, NEW a \in DOMAIN l[2], NEW b \in DOMAIN l[2],
         Touches(l[2][a], at, bit), Touches(l[2][b], at, bit)
  PROVE  a = b
<1> DEFINE Once(L) == \A x, y \in DOMAIN L : Touches(L[x], at, bit) /\ Touches(L[y], at, bit) => x = y
<1>1. Once(Telemetry)
  BY SMT DEF Telemetry, SignedAt, BitsOf, Whole, Touches
<1>2. Once(Flags)
  BY SMT DEF Flags, SignedAt, BitsOf, Whole, Touches
<1>3. Once(Control)
  BY SMT DEF Control, SignedAt, BitsOf, Whole, Touches
<1>4. Once(Ptz)
  BY SMT DEF Ptz, SignedAt, BitsOf, Whole, Touches
<1>5. l[2] \in {Telemetry, Flags, Control, Ptz}
  BY DEF Layouts
<1>6. Once(l[2])
  BY <1>1, <1>2, <1>3, <1>4, <1>5
<1> QED BY <1>6

\* The fields of the telemetry and of the remote control's state leave out no bit but
\* the spare ones.
LEMMA TelemetryWhole ==
  ASSUME NEW at \in 4 .. 29, NEW bit \in 0 .. 7
  PROVE  (\E a \in DOMAIN Telemetry : Touches(Telemetry[a], at, bit)) <=> <<at, bit>> \notin Spare
BY SMT DEF Telemetry, SignedAt, BitsOf, Whole, Touches, Spare

LEMMA ControlWhole ==
  ASSUME NEW at \in 4 .. 13, NEW bit \in 0 .. 7
  PROVE  \E a \in DOMAIN Control : Touches(Control[a], at, bit)
BY SMTT(30) DEF Control, SignedAt, BitsOf, Whole, Touches

-----------------------------------------------------------------------------
(* Values of fields *)

\* Bytes are small numbers, and no error.
LEMMA ByteIs == \A v \in Byte : v \in Int /\ 0 <= v /\ v <= 255 /\ v # RAISES
BY SMT DEF Byte, RAISES

\* A flipped bit changes the part of a byte it is in, and no other.
FlipShows(lo, width, bit) ==
  \A v \in Byte : (Flipped(v, bit) \div 2 ^ lo) % 2 ^ width # (v \div 2 ^ lo) % 2 ^ width
                      <=> lo <= bit /\ bit < lo + width

\* For each bit of a byte.
FlipsShow(lo, width) ==
  /\ FlipShows(lo, width, 0) /\ FlipShows(lo, width, 1) /\ FlipShows(lo, width, 2)
  /\ FlipShows(lo, width, 3) /\ FlipShows(lo, width, 4) /\ FlipShows(lo, width, 5)
  /\ FlipShows(lo, width, 6) /\ FlipShows(lo, width, 7)

\* It does for every piece the layouts cut out of a byte.
LEMMA PartOfByte ==
  ASSUME NEW lo, NEW width, << lo, width >> \in BitParts, NEW bit \in 0 .. 7
  PROVE  FlipShows(lo, width, bit)
<1>1. FlipsShow(0, 8)
  BY SMT DEF FlipsShow, FlipShows, Flipped, Byte
<1>2. FlipsShow(0, 5)
  BY SMT DEF FlipsShow, FlipShows, Flipped, Byte
<1>3. FlipsShow(0, 4)
  BY SMT DEF FlipsShow, FlipShows, Flipped, Byte
<1>4. FlipsShow(4, 4)
  BY SMT DEF FlipsShow, FlipShows, Flipped, Byte
<1>5. FlipsShow(4, 3)
  BY SMT DEF FlipsShow, FlipShows, Flipped, Byte
<1>6. FlipsShow(0, 2)
  BY SMT DEF FlipsShow, FlipShows, Flipped, Byte
<1>7. FlipsShow(0, 1) /\ FlipsShow(1, 1) /\ FlipsShow(2, 1) /\ FlipsShow(3, 1)
  BY SMT DEF FlipsShow, FlipShows, Flipped, Byte
<1>8. FlipsShow(4, 1) /\ FlipsShow(5, 1) /\ FlipsShow(6, 1) /\ FlipsShow(7, 1)
  BY SMT DEF FlipsShow, FlipShows, Flipped, Byte
<1>9. FlipsShow(lo, width)
  BY <1>1, <1>2, <1>3, <1>4, <1>5, <1>6, <1>7, <1>8 DEF BitParts
<1>10. \/ bit = 0 \/ bit = 1 \/ bit = 2 \/ bit = 3
       \/ bit = 4 \/ bit = 5 \/ bit = 6 \/ bit = 7
  OBVIOUS
<1> QED BY <1>9, <1>10 DEF FlipsShow

\* A flipped byte is another byte.
LEMMA FlippedIs ==
  ASSUME NEW v \in Byte, NEW bit \in 0 .. 7
  PROVE  Flipped(v, bit) \in Byte /\ Flipped(v, bit) # v
<1>1. \/ bit = 0 \/ bit = 1 \/ bit = 2 \/ bit = 3
      \/ bit = 4 \/ bit = 5 \/ bit = 6 \/ bit = 7
  OBVIOUS
<1>2. CASE bit = 0
  BY <1>2, SMT DEF Flipped, Byte
<1>3. CASE bit = 1
  BY <1>3, SMT DEF Flipped, Byte
<1>4. CASE bit = 2
  BY <1>4, SMT DEF Flipped, Byte
<1>5. CASE bit = 3
  BY <1>5, SMT DEF Flipped, Byte
<1>6. CASE bit = 4
  BY <1>6, SMT DEF Flipped, Byte
<1>7. CASE bit = 5
  BY <1>7, SMT DEF Flipped, Byte
<1>8. CASE bit = 6
  BY <1>8, SMT DEF Flipped, Byte
<1>9. CASE bit = 7
  BY <1>9, SMT DEF Flipped, Byte
<1> QED BY <1>1, <1>2, <1>3, <1>4, <1>5, <1>6, <1>7, <1>8, <1>9

\* The value of a part of a byte is never the error.
LEMMA PartTyped ==
  ASSUME NEW lo, NEW width, << lo, width >> \in BitParts, NEW v \in Byte
  PROVE  (v \div 2 ^ lo) % 2 ^ width # RAISES
<1> DEFINE x == 2 ^ lo
           y == 2 ^ width
<1>1. /\ y \in {2 ^ 8, 2 ^ 5, 2 ^ 4, 2 ^ 3, 2 ^ 2, 2 ^ 1}
      /\ x \in {2 ^ 0, 2 ^ 1, 2 ^ 2, 2 ^ 3, 2 ^ 4, 2 ^ 5, 2 ^ 6, 2 ^ 7}
  <2>1. width \in {8, 5, 4, 3, 2, 1} /\ lo \in {0, 1, 2, 3, 4, 5, 6, 7}
    BY DEF BitParts
  <2> QED BY <2>1, Zenon
<1>2. /\ 2 ^ 0 = 1 /\ 2 ^ 1 = 2 /\ 2 ^ 2 = 4 /\ 2 ^ 3 = 8 /\ 2 ^ 4 = 16
      /\ 2 ^ 5 = 32 /\ 2 ^ 6 = 64 /\ 2 ^ 7 = 128 /\ 2 ^ 8 = 256
  BY SMT
<1> HIDE DEF x, y
<1>3. x \in Nat \ {0} /\ y \in Nat \ {0}
  BY <1>1, <1>2
<1>4. v \div x \in Int
  BY <1>3, ByteIs, SMT
<1>5. \A i \in Int : i % y >= 0
  BY <1>3, SMT
<1>6. \A i : i >= 0 => i # RAISES
  BY SMT DEF RAISES
<1>7. (v \div x) % y # RAISES
  BY <1>4, <1>5, <1>6, Zenon
<1> QED BY <1>7 DEF x, y

\* The bytes of a number, in a packet that has them.
LEMMA NumberIs ==
  ASSUME NEW p \in Seq(Byte), NEW at \in Nat, NEW size \in {2, 4}, at + size <= Len(p)
  PROVE  LET top    == p[at + size]
             signed == IF top >= 128 THEN top - 256 ELSE top
         IN  SignedNumber(p, at, size) =
               IF size = 2 THEN p[at + 1] + 256 * signed
               ELSE p[at + 1] + 256 * p[at + 2] + 65536 * p[at + 3] + 16777216 * signed
<1>1. Len(p) \in Nat
  BY LenProperties
<1>2. \A i \in 0 .. at + size - 1 : At(p, i) = p[i + 1] /\ p[i + 1] \in Byte
  <2>1. ASSUME NEW i \in 0 .. at + size - 1 PROVE i \in 0 .. Len(p) - 1
    BY <1>1
  <2> QED BY <2>1, AtIs
<1>3. /\ at \in 0 .. at + size - 1 /\ at + 1 \in 0 .. at + size - 1
      /\ at + size - 1 \in 0 .. at + size - 1 /\ (at + size - 1) + 1 = at + size
      /\ size = 4 => at + 2 \in 0 .. at + size - 1 /\ (at + 1) + 1 = at + 2 /\ (at + 2) + 1 = at + 3
  OBVIOUS
<1>4. At(p, at + size - 1) = p[at + size] /\ p[at + size] \in Byte /\ At(p, at) = p[at + 1]
  BY <1>2, <1>3
<1>5. size = 4 => At(p, at + 1) = p[at + 2] /\ At(p, at + 2) = p[at + 3]
  BY <1>2, <1>3
<1>6. p[at + size] # RAISES
  BY <1>4, ByteIs
<1> QED BY <1>4, <1>5, <1>6 DEF SignedNumber

\* Pack and SignedNumber agree, up to the ends of the range.
LEMMA PackReturns ==
  ASSUME NEW p \in Seq(Byte), NEW at \in Nat, at + 4 <= Len(p), NEW n \in Signed32,
         \A i \in 1 .. 4 : p[at + i] = Pack(n)[i]
  PROVE  SignedNumber(p, at, 4) = n
<1>1. n \in Int /\ -2147483647 - 1 <= n /\ n <= 2147483647
  BY SignedTyped
<1>2. /\ Pack(n)[1] = n % 256 /\ Pack(n)[2] = (n \div 256) % 256
      /\ Pack(n)[3] = (n \div 65536) % 256 /\ Pack(n)[4] = (n \div 16777216) % 256
  BY <1>1, PackTyped
<1>3. /\ p[at + 1] = n % 256 /\ p[at + 2] = (n \div 256) % 256
      /\ p[at + 3] = (n \div 65536) % 256 /\ p[at + 4] = (n \div 16777216) % 256
  BY <1>2
<1> DEFINE top == (n \div 16777216) % 256
           signed == IF top >= 128 THEN top - 256 ELSE top
<1>4. SignedNumber(p, at, 4) = (n % 256) + 256 * ((n \div 256) % 256)
                                 + 65536 * ((n \div 65536) % 256) + 16777216 * signed
  <2>1. 4 \in {2, 4} /\ 4 # 2
    OBVIOUS
  <2> QED BY <2>1, <1>3, NumberIs
<1>5. (n % 256) + 256 * ((n \div 256) % 256) + 65536 * ((n \div 65536) % 256) + 16777216 * signed = n
  BY <1>1, SMTT(30)
<1> QED BY <1>4, <1>5

\* Numbers with the same bytes are the same, ...
LEMMA SameNumber ==
  ASSUME NEW p \in Seq(Byte), NEW q \in Seq(Byte), NEW at \in Nat, NEW size \in {2, 4},
         at + size <= Len(p), at + size <= Len(q),
         \A i \in 1 .. size : q[at + i] = p[at + i]
  PROVE  SignedNumber(q, at, size) = SignedNumber(p, at, size)
<1>1. CASE size = 2
  <2>1. q[at + 1] = p[at + 1] /\ q[at + 2] = p[at + 2]
    BY <1>1
  <2> QED BY <1>1, <2>1, NumberIs
<1>2. CASE size = 4
  <2>1. /\ q[at + 1] = p[at + 1] /\ q[at + 2] = p[at + 2]
        /\ q[at + 3] = p[at + 3] /\ q[at + 4] = p[at + 4]
    BY <1>2
  <2> QED BY <1>2, <2>1, NumberIs
<1> QED BY <1>1, <1>2

\* ... and others if one byte differs.  The numbers of two and of four bytes:
SignOf(x) == IF x >= 128 THEN x - 256 ELSE x

TwoBytes(a, b) == a + 256 * SignOf(b)
FourBytes(f)   == f[1] + 256 * f[2] + 65536 * f[3] + 16777216 * SignOf(f[4])

\* Equal numbers have equal bytes.
LEMMA TwoDiffer ==
  ASSUME NEW a \in Byte, NEW b \in Byte, NEW x \in Byte, NEW y \in Byte
  PROVE  TwoBytes(a, b) = TwoBytes(x, y) => a = x /\ b = y
BY SMT DEF TwoBytes, SignOf, Byte

LEMMA FourDiffer ==
  ASSUME NEW f \in [1 .. 4 -> Byte], NEW g \in [1 .. 4 -> Byte], FourBytes(f) = FourBytes(g)
  PROVE  f[1] = g[1] /\ f[2] = g[2] /\ f[3] = g[3] /\ f[4] = g[4]
<1> DEFINE a == f[1]  x == g[1]
           b == f[2]  y == g[2]
           c == f[3]  z == g[3]
           d == f[4]  w == g[4]
           u == SignOf(d)
           v == SignOf(w)
<1>1. /\ a \in Byte /\ b \in Byte /\ c \in Byte /\ d \in Byte
      /\ x \in Byte /\ y \in Byte /\ z \in Byte /\ w \in Byte
  OBVIOUS
<1>2. a + 256 * b + 65536 * c + 16777216 * u = x + 256 * y + 65536 * z + 16777216 * v
  BY DEF FourBytes
<1> HIDE DEF a, b, c, d, x, y, z, w
<1>3. u \in -128 .. 127 /\ v \in -128 .. 127 /\ (u = v => d = w)
  BY <1>1 DEF SignOf, Byte
<1>4. /\ a \in 0 .. 255 /\ b \in 0 .. 255 /\ c \in 0 .. 255
      /\ x \in 0 .. 255 /\ y \in 0 .. 255 /\ z \in 0 .. 255
  BY <1>1 DEF Byte
<1> HIDE DEF u, v
<1>5. a = x /\ b = y /\ c = z /\ u = v
  <2>1. a - x = 256 * ((y - b) + 256 * (z - c) + 65536 * (v - u))
    BY <1>2, <1>3, <1>4, SMT
  <2>2. a = x
    BY <2>1, <1>3, <1>4, SMT
  <2>3. b - y = 256 * ((z - c) + 256 * (v - u))
    BY <2>1, <2>2, <1>3, <1>4, SMT
  <2>4. b = y
    BY <2>3, <1>3, <1>4, SMT
  <2>5. c - z = 256 * (v - u)
    BY <2>3, <2>4, <1>3, <1>4, SMT
  <2> QED BY <2>2, <2>4, <2>5, <1>3, <1>4, SMT
<1>6. d = w
  BY <1>3, <1>5
<1> QED BY <1>5, <1>6 DEF a, b, c, d, x, y, z, w

\* With one byte changed, the number is another.
LEMMA OtherNumber ==
  ASSUME NEW p \in Seq(Byte), NEW q \in Seq(Byte), NEW at \in Nat, NEW size \in {2, 4},
         at + size <= Len(p), at + size <= Len(q), NEW k \in 1 .. size,
         q[at + k] # p[at + k],
         \A i \in 1 .. size : i # k => q[at + i] = p[at + i]
  PROVE  SignedNumber(q, at, size) # SignedNumber(p, at, size)
<1>1. Len(p) \in Nat /\ Len(q) \in Nat
  BY LenProperties
<1>2. ASSUME NEW i \in 1 .. size PROVE p[at + i] \in Byte /\ q[at + i] \in Byte
  <2>1. at + i \in 1 .. Len(p) /\ at + i \in 1 .. Len(q)
    BY <1>1
  <2>2. p[at + i] \in Byte /\ q[at + i] \in Byte
    BY <2>1, ElementOfSeq
  <2> QED BY <2>2
<1>3. CASE size = 2
  <2>1. /\ SignedNumber(p, at, 2) = TwoBytes(p[at + 1], p[at + 2])
        /\ SignedNumber(q, at, 2) = TwoBytes(q[at + 1], q[at + 2])
    BY <1>3, NumberIs DEF TwoBytes, SignOf
  <2>2. /\ p[at + 1] \in Byte /\ q[at + 1] \in Byte
        /\ p[at + 2] \in Byte /\ q[at + 2] \in Byte
    BY <1>2, <1>3
  <2>3. TwoBytes(p[at + 1], p[at + 2]) = TwoBytes(q[at + 1], q[at + 2])
        => p[at + 1] = q[at + 1] /\ p[at + 2] = q[at + 2]
    BY ONLY <2>2, TwoDiffer
  <2>4. k = 1 \/ k = 2
    BY <1>3
  <2> QED BY <2>1, <2>3, <2>4, <1>3, Zenon
<1>4. CASE size = 4
  <2> DEFINE f == [i \in 1 .. 4 |-> p[at + i]]
             g == [i \in 1 .. 4 |-> q[at + i]]
  <2>1. SignedNumber(p, at, 4) = FourBytes(f) /\ SignedNumber(q, at, 4) = FourBytes(g)
    BY <1>4, NumberIs DEF FourBytes, SignOf
  <2>2. f \in [1 .. 4 -> Byte] /\ g \in [1 .. 4 -> Byte]
    BY <1>2, <1>4
  <2>3. f[k] # g[k] /\ k \in {1, 2, 3, 4}
    BY <1>4
  <2> HIDE DEF f, g
  <2>4. FourBytes(f) # FourBytes(g)
    BY <2>2, <2>3, FourDiffer
  <2> QED BY <2>1, <2>4, <1>4
<1> QED BY <1>3, <1>4

\* What follows from the form of a field.
LEMMA ShapeIs ==
  ASSUME NEW f, Shape(f)
  PROVE  /\ f.at \in Nat /\ f.need \in Nat /\ f.size \in Nat /\ f.size \in {1, 2, 4}
         /\ 4 <= f.at /\ f.at + f.size <= f.need /\ f.need <= 30
         /\ f.size # 1 => f.need = f.at + f.size
         /\ f.size = 1 => << f.lo, f.width >> \in BitParts
BY DEF Shape

\* The value of a field that has come.
LEMMA FieldIs ==
  ASSUME NEW p \in Seq(Byte), NEW f, Shape(f), f.need <= Len(p)
  PROVE  /\ f.size > 1 => FieldOf(p, f) = SignedNumber(p, f.at, f.size)
         /\ ~(f.size > 1) => FieldOf(p, f) = (p[f.at + 1] \div 2 ^ f.lo) % 2 ^ f.width
         /\ p[f.at + 1] \in Byte
<1>1. Len(p) \in Nat
  BY LenProperties
<1>2. ~(Len(p) < f.need) /\ f.at \in 0 .. Len(p) - 1
  <2> DEFINE n == Len(p)
             a == f.at
             b == f.need
             c == f.size
  <2>1. n \in Nat /\ a \in Nat /\ b \in Nat /\ c \in {1, 2, 4} /\ a + c <= b /\ b <= n
    BY <1>1, ShapeIs
  <2> HIDE DEF n, a, b, c
  <2>2. ~(n < b) /\ a \in 0 .. n - 1
    BY <2>1
  <2> QED BY <2>2 DEF n, a, b
<1>3. At(p, f.at) = p[f.at + 1] /\ p[f.at + 1] \in Byte
  BY <1>2, AtIs
<1>4. p[f.at + 1] # RAISES
  BY <1>3, ByteIs
<1> QED BY <1>2, <1>3, <1>4, Zenon DEF FieldOf

\* A field of a packet without its end is what it was, or it is 0.
LEMMA FieldCut ==
  ASSUME NEW p \in Seq(Byte), NEW q \in Seq(Byte), Len(q) <= Len(p),
         \A i \in 1 .. Len(q) : q[i] = p[i], NEW f, Shape(f)
  PROVE  /\ f.need <= Len(q) => FieldOf(q, f) = FieldOf(p, f)
         /\ ~(f.need <= Len(q)) => FieldOf(q, f) = 0
         /\ f.need <= Len(q) /\ ~(f.size > 1) => FieldOf(q, f) # RAISES
<1> DEFINE m == Len(p)
           n == Len(q)
           a == f.at
           b == f.need
           c == f.size
<1>1. m \in Nat /\ n \in Nat
  BY LenProperties
<1>2. /\ a \in Nat /\ b \in Nat /\ c \in {1, 2, 4} /\ a + c <= b
      /\ n <= m /\ \A i \in 1 .. n : q[i] = p[i]
  BY ShapeIs
<1>3. ~(b <= n) => FieldOf(q, f) = 0
  <2>1. ~(b <= n) => n < b
    BY <1>1, <1>2
  <2> QED BY <2>1, Zenon DEF FieldOf
<1>4. ASSUME b <= n
      PROVE  FieldOf(q, f) = FieldOf(p, f) /\ (~(c > 1) => FieldOf(q, f) # RAISES)
  <2>1. b <= m /\ a + c <= n /\ a + c <= m /\ a + 1 \in 1 .. n
    <3> HIDE DEF m, n, a, b, c
    <3> QED BY <1>1, <1>2, <1>4
  <2>2. CASE c > 1
    <3>1. c \in {2, 4}
      BY <1>2, <2>2
    <3>2. \A i \in 1 .. c : q[a + i] = p[a + i]
      <4> HIDE DEF m, n, a, b, c
      <4>1. ASSUME NEW i \in 1 .. c PROVE a + i \in 1 .. n
        BY <1>1, <1>2, <2>1
      <4> QED BY <4>1, <1>2
    <3>3. SignedNumber(q, a, c) = SignedNumber(p, a, c)
      <4> HIDE DEF a, c
      <4> QED BY <1>2, <2>1, <3>1, <3>2, SameNumber
    <3> QED BY <1>4, <2>1, <2>2, <3>3, FieldIs
  <2>3. CASE ~(c > 1)
    <3>1. << f.lo, f.width >> \in BitParts
      BY <1>2, <2>3 DEF Shape
    <3>2. q[a + 1] = p[a + 1]
      BY <2>1, <1>2
    <3>3. FieldOf(q, f) = (q[a + 1] \div 2 ^ f.lo) % 2 ^ f.width /\ q[a + 1] \in Byte
      BY <1>4, <2>3, FieldIs
    <3>4. FieldOf(p, f) = (p[a + 1] \div 2 ^ f.lo) % 2 ^ f.width
      BY <2>1, <2>3, FieldIs
    <3>5. FieldOf(q, f) # RAISES
      BY <3>1, <3>3, PartTyped, Zenon
    <3> QED BY <3>2, <3>3, <3>4, <3>5, Zenon
  <2> QED BY <2>2, <2>3
<1> QED BY <1>3, <1>4

\* Nor does it need more than there is of a whole report.
LEMMA WithinReport ==
  /\ \A a, b \in Nat, c \in {1, 2, 4} :
       a + c <= b /\ b <= 30 => a + c <= 30 /\ b <= 31 /\ a + c <= 31
  /\ 4 .. 30 \subseteq Int
OBVIOUS

\* A field changes with the bits it is made of, and with no other.
LEMMA FieldFlip ==
  ASSUME NEW p \in Seq(Byte), NEW q \in Seq(Byte), Len(p) = 31, Len(q) = 31,
         NEW at \in 4 .. 30, NEW bit \in 0 .. 7,
         q[at + 1] = Flipped(p[at + 1], bit),
         \A i \in 1 .. 31 : i # at + 1 => q[i] = p[i],
         NEW f, Shape(f)
  PROVE  FieldOf(q, f) # FieldOf(p, f) <=> Touches(f, at, bit)
<1> DEFINE a == f.at
           b == f.need
           c == f.size
<1>1. \A i \in 1 .. 31 : p[i] \in Byte /\ q[i] \in Byte
  BY ElementOfSeq
<1>2. q[at + 1] # p[at + 1]
  <2>1. at + 1 \in 1 .. 31
    OBVIOUS
  <2> QED BY <2>1, <1>1, FlippedIs
<1>3. /\ a \in Nat /\ b \in Nat /\ c \in {1, 2, 4} /\ a + c <= b /\ b <= 30
  BY ShapeIs
<1> HIDE DEF a, b, c
<1>4. a + c <= 30 /\ b <= 31 /\ a + c <= 31 /\ at \in Int
  BY <1>3, WithinReport
<1>5. b <= Len(p) /\ b <= Len(q) /\ a + c <= Len(p) /\ a + c <= Len(q)
  BY <1>4
<1>6. CASE c > 1
  <2>1. c \in {2, 4}
    BY <1>3, <1>6
  <2>2. FieldOf(p, f) = SignedNumber(p, a, c) /\ FieldOf(q, f) = SignedNumber(q, a, c)
    BY <1>5, <1>6, FieldIs DEF a, b, c
  <2>3. Touches(f, at, bit) <=> a <= at /\ at < a + c
    BY <1>6, Zenon DEF Touches, a, c
  <2>4. CASE a <= at /\ at < a + c
    <3> DEFINE k == at + 1 - a
    <3>1. k \in 1 .. c /\ a + k = at + 1
      BY ONLY <1>3, <1>4, <2>4
    <3>2. ASSUME NEW i \in 1 .. c, i # k PROVE q[a + i] = p[a + i]
      <4>1. a + i \in 1 .. 31 /\ a + i # at + 1
        BY ONLY <1>3, <1>4, <3>2, <3>1
      <4> QED BY <4>1
    <3> HIDE DEF k
    <3>3. q[a + k] # p[a + k]
      BY <1>2, <3>1
    <3>4. SignedNumber(q, a, c) # SignedNumber(p, a, c)
      BY <1>3, <1>5, <2>1, <3>1, <3>2, <3>3, OtherNumber
    <3> QED BY <2>2, <2>3, <2>4, <3>4
  <2>5. CASE ~(a <= at /\ at < a + c)
    <3>1. ASSUME NEW i \in 1 .. c PROVE q[a + i] = p[a + i]
      <4>1. a + i \in 1 .. 31 /\ a + i # at + 1
        BY ONLY <1>3, <1>4, <2>5, <3>1
      <4> QED BY <4>1
    <3>2. SignedNumber(q, a, c) = SignedNumber(p, a, c)
      BY <1>3, <1>5, <2>1, <3>1, SameNumber
    <3> QED BY <2>2, <2>3, <2>5, <3>2
  <2> QED BY <2>4, <2>5
<1>7. CASE ~(c > 1)
  <2>1. << f.lo, f.width >> \in BitParts
    BY <1>3, <1>7 DEF Shape, c
  <2>2. /\ FieldOf(q, f) = (q[a + 1] \div 2 ^ f.lo) % 2 ^ f.width
        /\ FieldOf(p, f) = (p[a + 1] \div 2 ^ f.lo) % 2 ^ f.width
        /\ p[a + 1] \in Byte
    BY <1>5, <1>7, FieldIs DEF a, b, c
  <2>3. CASE at # a
    <3>1. a + 1 \in 1 .. 31 /\ a + 1 # at + 1
      BY ONLY <1>3, <1>4, <2>3
    <3>2. q[a + 1] = p[a + 1]
      BY <3>1
    <3>3. ~Touches(f, at, bit)
      BY <1>7, <2>3, Zenon DEF Touches, a, c
    <3> QED BY <2>2, <3>2, <3>3, Zenon
  <2>4. CASE at = a
    <3>1. FlipShows(f.lo, f.width, bit)
      BY <2>1, PartOfByte
    <3>2. (Flipped(p[a + 1], bit) \div 2 ^ f.lo) % 2 ^ f.width # (p[a + 1] \div 2 ^ f.lo) % 2 ^ f.width
            <=> f.lo <= bit /\ bit < f.lo + f.width
      BY <2>2, <3>1, Zenon DEF FlipShows
    <3>3. q[a + 1] = Flipped(p[a + 1], bit)
      BY <2>4
    <3>4. Touches(f, at, bit) <=> f.lo <= bit /\ bit < f.lo + f.width
      BY <1>7, <2>4, Zenon DEF Touches, a, c
    <3> QED BY <2>2, <3>2, <3>3, <3>4, Zenon
  <2> QED BY <2>3, <2>4
<1> QED BY <1>6, <1>7

-----------------------------------------------------------------------------
(* Parsers *)

\* A report is 31 bytes.
LEMMA ReportIs ==
  ASSUME NEW p \in Reports
  PROVE  p \in Seq(Byte) /\ Len(p) = 31
<1>1. PICK id \in {MsgId.GPSInFo, MsgId.ControlInfo, MsgId.PTZInFo}, body \in Bodies :
        p = Report(id, body)
  BY SMT DEF Reports
<1> DEFINE h == << START_BYTE, id, 31, 0 >>
<1>2. h \in Seq(Byte) /\ Len(h) = 4
  <2>1. START_BYTE \in Byte /\ id \in Byte /\ 31 \in Byte /\ 0 \in Byte
    BY DEF START_BYTE, MsgId, Byte
  <2> HIDE DEF Byte
  <2> QED BY <2>1
<1>3. body \in Seq(Byte) /\ Len(body) = 27
  <2>1. body \in [1 .. 27 -> Byte] /\ 27 \in Nat
    BY PacketAssumption
  <2> QED BY <2>1, TupleIs
<1> HIDE DEF h
<1>4. h \o body \in Seq(Byte) /\ Len(h \o body) = Len(h) + Len(body)
  BY <1>2, <1>3, BytesCat
<1>5. p = h \o body
  BY <1>1 DEF h, Report
<1> QED BY <1>2, <1>3, <1>4, <1>5

\* What a parser asks of a packet before it reads the fields.
Begins(data, id) == ~(Len(data) < 4 \/ At(data, 0) # START_BYTE \/ At(data, 1) # id)

\* A parser returns the fields, or None.
LEMMA ParseIs ==
  ASSUME NEW data, NEW id, NEW layout
  PROVE  /\ Begins(data, id) =>
              Parse(data, id, layout) = [name \in DOMAIN layout |-> FieldOf(data, layout[name])]
         /\ ~Begins(data, id) => Parse(data, id, layout) = << >>
BY Zenon DEF Parse, Begins

\* It only asks for the first two bytes.
LEMMA BeginsIs ==
  ASSUME NEW p \in Seq(Byte), NEW q \in Seq(Byte), NEW id, q # << >>, Len(p) >= 4, Len(q) >= 4,
         q[1] = p[1], q[2] = p[2]
  PROVE  Begins(q, id) <=> Begins(p, id)
<1>1. Len(p) \in Nat /\ Len(q) \in Nat
  BY LenProperties
<1>2. At(p, 0) = p[1] /\ At(p, 1) = p[2] /\ At(q, 0) = q[1] /\ At(q, 1) = q[2]
  BY <1>1 DEF At
<1>3. ~(Len(p) < 4) /\ ~(Len(q) < 4)
  BY <1>1
<1> QED BY <1>2, <1>3, Zenon DEF Begins

\* Every packet is made of bytes.
LEMMA PacketTyped == PacketInv => packet \in Seq(Byte)
BY BuiltIs, ReportIs DEF PacketInv

\* Where the client says it is, the drone's parser reads: for every pair of coordinates
\* of four bytes (build_gps_info, parse_telemetry).
THEOREM GpsRoundTrips == PacketSpec => []GpsRoundTrip
<1>1. ASSUME NEW lon \in Coordinates, NEW lat \in Coordinates
      PROVE  LET p == ParseTelemetry(BuildGpsInfo(lon, lat, 1)) IN p.lon = lon /\ p.lat = lat
  <2> DEFINE load == GpsPayload(lon, lat, 1)
             p    == BuildPacket(MsgId.GPSInFo, load)
  <2>1. lon \in Signed32 /\ lat \in Signed32
    BY PacketAssumption
  <2>2. lon \in Int /\ lat \in Int
    BY <2>1, SignedTyped
  <2>3. /\ load \in Seq(Byte) /\ Len(load) = 12
        /\ \A i \in 1 .. 4 : load[i] = Pack(lon)[i] /\ load[i + 4] = Pack(lat)[i]
    BY <2>2, GpsPayloadIs
  <2>4. MsgId.GPSInFo \in Byte
    BY DEF MsgId, Byte
  <2> HIDE DEF load
  <2>5. Len(load) <= 251
    BY <2>3
  <2>6. /\ p \in Seq(Byte) /\ Len(p) = 4 + Len(load) /\ p[1] = START_BYTE /\ p[2] = MsgId.GPSInFo
        /\ \A i \in 1 .. Len(load) : p[4 + i] = load[i]
    BY <2>3, <2>4, <2>5, PacketIs
  <2> HIDE DEF p
  <2>7. Len(p) = 16 /\ \A i \in 1 .. 12 : p[4 + i] = load[i]
    BY <2>3, <2>6
  <2>8. ASSUME NEW i \in 1 .. 4 PROVE p[4 + i] = Pack(lon)[i] /\ p[8 + i] = Pack(lat)[i]
    <3>1. i \in 1 .. 12 /\ i + 4 \in 1 .. 12 /\ 4 + (i + 4) = 8 + i
      BY <2>8
    <3>2. load[i] = Pack(lon)[i] /\ load[i + 4] = Pack(lat)[i]
      BY <2>3
    <3>3. p[4 + i] = load[i] /\ p[4 + (i + 4)] = load[i + 4]
      BY <2>7, <3>1
    <3> QED BY <3>1, <3>2, <3>3
  <2>9. SignedNumber(p, 4, 4) = lon /\ SignedNumber(p, 8, 4) = lat
    <3>1. 4 \in Nat /\ 4 + 4 <= Len(p) /\ 8 \in Nat /\ 8 + 4 <= Len(p)
      BY <2>7
    <3>2. \A i \in 1 .. 4 : p[4 + i] = Pack(lon)[i]
      BY <2>8
    <3>3. \A i \in 1 .. 4 : p[8 + i] = Pack(lat)[i]
      BY <2>8
    <3>4. SignedNumber(p, 4, 4) = lon
      BY <2>1, <2>6, <3>1, <3>2, PackReturns, Zenon
    <3>5. SignedNumber(p, 8, 4) = lat
      BY <2>1, <2>6, <3>1, <3>3, PackReturns, Zenon
    <3> QED BY <3>4, <3>5
  <2>10. Begins(p, MsgId.GPSInFo)
    <3>1. At(p, 0) = p[1] /\ At(p, 1) = p[2] /\ ~(Len(p) < 4)
      BY <2>7 DEF At
    <3> QED BY <2>6, <3>1 DEF Begins
  <2>11. /\ ParseTelemetry(p).lon = FieldOf(p, Telemetry.lon)
         /\ ParseTelemetry(p).lat = FieldOf(p, Telemetry.lat)
    <3>1. ParseTelemetry(p) = [name \in DOMAIN Telemetry |-> FieldOf(p, Telemetry[name])]
      BY <2>10, ParseIs DEF ParseTelemetry
    <3>2. "lon" \in DOMAIN Telemetry /\ "lat" \in DOMAIN Telemetry
      BY DEF Telemetry
    <3> QED BY <3>1, <3>2
  <2>12. Telemetry.lon = SignedAt(8, 4, 4) /\ Telemetry.lat = SignedAt(12, 8, 4)
    BY DEF Telemetry
  <2>13. /\ FieldOf(p, Telemetry.lon) = SignedNumber(p, 4, 4)
         /\ FieldOf(p, Telemetry.lat) = SignedNumber(p, 8, 4)
    BY <2>7, <2>12 DEF FieldOf, SignedAt
  <2>14. p = BuildGpsInfo(lon, lat, 1)
    BY DEF BuildGpsInfo, GpsPayload, p, load
  <2> QED BY <2>9, <2>11, <2>13, <2>14
<1>2. GpsRoundTrip
  BY <1>1 DEF GpsRoundTrip
<1> QED BY <1>2, PTL

\* A packet of any length, of the client or of the drone, is read as far as it goes
\* (the parsers of telemetry.py).
THEOREM TruncationIsSafe == PacketSpec => []TruncationSafe
<1>1. PacketInv => TruncationSafe
  <2> SUFFICES ASSUME PacketInv, NEW l \in Layouts, fault = << "cut" >>,
                      Parse(got, l[1], l[2]) # << >>, NEW name \in DOMAIN l[2]
               PROVE  IF Len(got) >= l[2][name].at + l[2][name].size /\ l[2][name].size > 1
                      THEN Parse(got, l[1], l[2])[name] = Parse(packet, l[1], l[2])[name]
                      ELSE Parse(got, l[1], l[2])[name] \in {0, Parse(packet, l[1], l[2])[name]} \ {RAISES}
    BY Zenon DEF TruncationSafe
  <2> DEFINE f == l[2][name]
             full == Parse(packet, l[1], l[2])
             part == Parse(got, l[1], l[2])
  <2>1. packet \in Seq(Byte)
    BY PacketTyped
  <2>2. PICK n \in 0 .. Len(packet) - 1 : got = SubSeq(packet, 1, n)
    BY DEF PacketInv
  <2>3. /\ got \in Seq(Byte) /\ Len(got) = n /\ Len(got) <= Len(packet)
        /\ \A i \in 1 .. n : got[i] = packet[i]
    <3>1. Len(packet) \in Nat
      BY <2>1, LenProperties
    <3>2. n \in 0 .. Len(packet)
      BY <3>1
    <3> QED BY <2>1, <2>2, <3>2, Pieces
  <2>4. Begins(got, l[1])
    BY ParseIs
  <2>5. Begins(packet, l[1])
    <3>1. Len(got) \in Nat /\ Len(packet) \in Nat
      BY <2>1, <2>3, LenProperties
    <3>2. Len(got) >= 4
      BY <2>4, <3>1 DEF Begins
    <3>3. Len(packet) >= 4 /\ 1 \in 1 .. n /\ 2 \in 1 .. n /\ got # << >>
      BY <2>3, <3>1, <3>2
    <3> QED BY <2>1, <2>3, <2>4, <3>2, <3>3, BeginsIs
  <2>6. full[name] = FieldOf(packet, f) /\ part[name] = FieldOf(got, f)
    BY <2>4, <2>5, ParseIs
  <2>7. Shape(f)
    BY LayoutShape
  <2> HIDE DEF f, full, part
  <2>8. /\ f.need <= Len(got) => FieldOf(got, f) = FieldOf(packet, f)
        /\ ~(f.need <= Len(got)) => FieldOf(got, f) = 0
        /\ f.need <= Len(got) /\ ~(f.size > 1) => FieldOf(got, f) # RAISES
    BY <2>1, <2>3, <2>7, FieldCut
  <2>9. f.size > 1 => f.need = f.at + f.size
    <3>1. f.size # 1 => f.need = f.at + f.size
      BY <2>7, ShapeIs
    <3>2. \A x : x > 1 => x # 1
      OBVIOUS
    <3> QED BY <3>1, <3>2, Zenon
  <2>10. 0 # RAISES
    BY SMT DEF RAISES
  <2>11. f.need <= Len(got) <=> Len(got) >= f.need
    <3>1. f.need \in Nat /\ Len(got) \in Nat
      BY <2>3, <2>7, ShapeIs, LenProperties
    <3> QED BY <3>1
  <2>12. CASE Len(got) >= f.at + f.size /\ f.size > 1
    <3>1. FieldOf(got, f) = FieldOf(packet, f)
      BY <2>8, <2>9, <2>11, <2>12, Zenon
    <3>2. part[name] = full[name]
      BY <2>6, <3>1, Zenon
    <3> QED BY <2>12, <3>2, Zenon DEF f, full, part
  <2>13. CASE ~(Len(got) >= f.at + f.size /\ f.size > 1)
    <3>1. FieldOf(got, f) \in {0, FieldOf(packet, f)} \ {RAISES}
      BY <2>8, <2>9, <2>10, <2>11, <2>13, Zenon
    <3>2. part[name] \in {0, full[name]} \ {RAISES}
      BY <2>6, <3>1, Zenon
    <3> QED BY <2>13, <3>2, Zenon DEF f, full, part
  <2> QED BY <2>12, <2>13, Zenon DEF f
<1> QED BY <1>1, PacketInvariance, PTL

\* A bit that changes changes the field it belongs to, where one is, and no other: the
\* offsets and masks of telemetry.py cover every report, whatever is in it.
THEOREM OneFieldChanges == PacketSpec => []OneFieldEach
<1>1. PacketInv => OneFieldEach
  <2> SUFFICES ASSUME PacketInv, fault # << >>, fault[1] = "bit", NEW l \in Layouts
               PROVE  LET was     == Parse(packet, l[1], l[2])
                          is      == Parse(got, l[1], l[2])
                          changed == {name \in DOMAIN was : was[name] # is[name]}
                      IN  /\ \A a, b \in changed : a = b
                          /\ was # << >> /\ l[2] = Telemetry /\ fault[2] < 30
                               => (changed = {} <=> << fault[2], fault[3] >> \in Spare)
                          /\ was # << >> /\ l[2] = Control /\ fault[2] < 14 => changed # {}
    BY Zenon DEF OneFieldEach
  <2>0. fault # << "cut" >> /\ \A i : fault # << "byte", i >>
    OBVIOUS
  <2>1. sender = "drone" /\ packet \in Reports
    BY <2>0, Zenon DEF PacketInv
  <2>2. PICK at \in 4 .. 30, bit \in 0 .. 7 :
          fault = << "bit", at, bit >> /\ got = [packet EXCEPT ![at + 1] = Flipped(packet[at + 1], bit)]
    <3>1. sender # "client"
      BY <2>1
    <3> QED BY <2>0, <3>1, Zenon DEF PacketInv
  <2>3. packet \in Seq(Byte) /\ Len(packet) = 31
    BY <2>1, ReportIs
  <2>4. /\ got \in Seq(Byte) /\ Len(got) = 31 /\ got[at + 1] = Flipped(packet[at + 1], bit)
        /\ \A i \in 1 .. 31 : i # at + 1 => got[i] = packet[i]
    <3>1. at + 1 \in 1 .. Len(packet)
      BY <2>3
    <3>2. packet[at + 1] \in Byte
      BY <2>3, <3>1, ElementOfSeq
    <3>3. Flipped(packet[at + 1], bit) \in Byte
      BY <3>2, FlippedIs
    <3>4. /\ got \in Seq(Byte) /\ Len(got) = Len(packet) /\ got[at + 1] = Flipped(packet[at + 1], bit)
          /\ \A j \in 1 .. Len(packet) : j # at + 1 => got[j] = packet[j]
      <4> DEFINE k == at + 1
                 v == Flipped(packet[k], bit)
      <4>1. packet \in Seq(Byte) /\ k \in 1 .. Len(packet) /\ v \in Byte /\ got = [packet EXCEPT ![k] = v]
        BY <2>2, <2>3, <3>1, <3>3
      <4> HIDE DEF k, v
      <4>2. /\ got \in Seq(Byte) /\ Len(got) = Len(packet) /\ got[k] = v
            /\ \A j \in 1 .. Len(packet) : j # k => got[j] = packet[j]
        BY <4>1, ExceptSeq
      <4> QED BY <4>2 DEF k, v
    <3> QED BY <2>3, <3>4
  <2>5. Begins(got, l[1]) <=> Begins(packet, l[1])
    <3>1. 1 \in 1 .. 31 /\ 2 \in 1 .. 31 /\ 1 # at + 1 /\ 2 # at + 1
      OBVIOUS
    <3>2. Len(got) >= 4 /\ Len(packet) >= 4
      BY <2>3, <2>4
    <3>3. got # << >>
      <4>1. Len(got) # 0
        BY <2>4
      <4> QED BY <4>1, EmptySeq
    <3> QED BY <2>3, <2>4, <3>1, <3>2, <3>3, BeginsIs
  <2> DEFINE was     == Parse(packet, l[1], l[2])
             is      == Parse(got, l[1], l[2])
             changed == {name \in DOMAIN was : was[name] # is[name]}
  <2>6. CASE ~Begins(packet, l[1])
    <3>1. was = << >>
      BY <2>6, ParseIs
    <3>2. changed = {}
      BY <3>1
    <3> QED BY <3>1, <3>2
  <2>7. CASE Begins(packet, l[1])
    <3>1. /\ was = [name \in DOMAIN l[2] |-> FieldOf(packet, l[2][name])]
          /\ is = [name \in DOMAIN l[2] |-> FieldOf(got, l[2][name])]
      BY <2>5, <2>7, ParseIs
    <3>2. ASSUME NEW name \in DOMAIN l[2]
          PROVE  was[name] # is[name] <=> Touches(l[2][name], at, bit)
      <4>1. Shape(l[2][name])
        BY LayoutShape
      <4>2. FieldOf(got, l[2][name]) # FieldOf(packet, l[2][name]) <=> Touches(l[2][name], at, bit)
        <5> DEFINE f == l[2][name]
        <5> HIDE DEF f
        <5>1. Shape(f)
          BY <4>1, Zenon DEF f
        <5>2. FieldOf(got, f) # FieldOf(packet, f) <=> Touches(f, at, bit)
          BY <2>3, <2>4, <5>1, FieldFlip, Zenon
        <5> QED BY <5>2 DEF f
      <4> QED BY <3>1, <4>2
    <3>3. DOMAIN was = DOMAIN l[2]
      BY <3>1
    <3> HIDE DEF was, is
    <3>4. changed = {name \in DOMAIN l[2] : Touches(l[2][name], at, bit)}
      BY <3>2, <3>3
    <3> HIDE DEF changed
    <3>5. ASSUME NEW a \in changed, NEW b \in changed PROVE a = b
      <4>1. at \in Int /\ bit \in Int
        OBVIOUS
      <4> QED BY <3>4, <4>1, LayoutOnce
    <3>6. fault[2] = at /\ fault[3] = bit
      BY <2>2
    <3>7. ASSUME l[2] = Telemetry, at < 30 PROVE changed = {} <=> << at, bit >> \in Spare
      <4>1. at \in 4 .. 29
        BY <3>7
      <4>2. (\E a \in DOMAIN Telemetry : Touches(Telemetry[a], at, bit)) <=> << at, bit >> \notin Spare
        BY <4>1, TelemetryWhole
      <4> QED BY <3>4, <3>7, <4>2
    <3>8. ASSUME l[2] = Control, at < 14 PROVE changed # {}
      <4>1. at \in 4 .. 13
        BY <3>8
      <4>2. \E a \in DOMAIN Control : Touches(Control[a], at, bit)
        BY <4>1, ControlWhole
      <4> QED BY <3>4, <3>8, <4>2
    <3> QED BY <3>5, <3>6, <3>7, <3>8 DEF changed, was, is
  <2> QED BY <2>6, <2>7
<1> QED BY <1>1, PacketInvariance, PTL

-----------------------------------------------------------------------------
(* Words *)

\* What is masked twice is as before, also if it was cut to a width in between.
LEMMA XorTwice ==
  ASSUME NEW a, NEW b
  PROVE  Xor(Xor(a, b), b) = a /\ Xor(b, Xor(b, a)) = a
BY DEF Xor

\* The bits of a word a field was placed into.
LEMMA PlaceBits ==
  ASSUME NEW w, NEW low \in Nat, NEW n \in Nat, NEW f, NEW i \in Nat
  PROVE  i \in Place(w, low, n, f) <=> IF low <= i /\ i < low + n THEN i - low \in f ELSE i \in w
BY DEF Place

\* A word with a field in it is one of its width.
LEMMA PlaceTyped ==
  ASSUME NEW N \in Nat, NEW w \in SUBSET Bits(N), NEW low \in Nat, NEW n \in Nat, low + n <= N, NEW f
  PROVE  Place(w, low, n, f) \in SUBSET Bits(N)
<1>1. \A i \in w : i \in Bits(N)
  OBVIOUS
<1>2. \A i \in low .. low + n - 1 : i \in Bits(N)
  BY DEF Bits
<1> QED BY <1>1, <1>2 DEF Place

\* A field is as wide as it says.
LEMMA FieldTyped ==
  ASSUME NEW w, NEW low \in Nat, NEW n \in Nat
  PROVE  Field(w, low, n) \in SUBSET Bits(n)
BY DEF Field

\* The field that was placed is read back, in its width.
LEMMA FieldPlaced ==
  ASSUME NEW w, NEW low \in Nat, NEW n \in Nat, NEW f
  PROVE  Field(Place(w, low, n, f), low, n) = f \cap Bits(n)
BY DEF Field, Place, Bits

Apart(low, n, low2, m) == low + n <= low2 \/ low2 + m <= low

\* Any other field is as before.
LEMMA FieldElsewhere ==
  ASSUME NEW w, NEW low \in Nat, NEW n \in Nat, NEW f, NEW low2 \in Nat, NEW m \in Nat,
         Apart(low, n, low2, m)
  PROVE  Field(Place(w, low, n, f), low2, m) = Field(w, low2, m)
BY DEF Field, Place, Bits, Apart

\* The last of two fields in the same place stands.
LEMMA PlaceTwice ==
  ASSUME NEW w, NEW low \in Nat, NEW n \in Nat, NEW f, NEW g
  PROVE  Place(Place(w, low, n, f), low, n, g) = Place(w, low, n, g)
BY DEF Place

\* Fields in different places can be placed in any order.
LEMMA PlaceSwap ==
  ASSUME NEW w, NEW low \in Nat, NEW n \in Nat, NEW f, NEW low2 \in Nat, NEW m \in Nat, NEW g,
         Apart(low, n, low2, m)
  PROVE  Place(Place(w, low, n, f), low2, m, g) = Place(Place(w, low2, m, g), low, n, f)
BY DEF Place, Apart

\* A field put back where it was changes nothing.
LEMMA PlaceBack ==
  ASSUME NEW N \in Nat, NEW w \in SUBSET Bits(N), NEW low \in Nat, NEW n \in Nat, NEW f,
         f \cap Bits(n) = Field(w, low, n)
  PROVE  Place(w, low, n, f) = w
<1>1. \A i \in Nat : i - low \in Bits(n) <=> low <= i /\ i < low + n
  BY DEF Bits
<1>2. \A i \in Nat : low <= i /\ i < low + n => (i - low \in f <=> i \in w)
  <2> SUFFICES ASSUME NEW i \in Nat, low <= i, i < low + n PROVE i - low \in f <=> i \in w
    OBVIOUS
  <2>1. i - low \in Bits(n) /\ low + (i - low) = i
    BY DEF Bits
  <2>2. i - low \in f <=> i - low \in Field(w, low, n)
    BY <2>1
  <2> QED BY <2>1, <2>2 DEF Field
<1>3. \A i \in Place(w, low, n, f) : i \in w
  BY <1>2 DEF Place, Bits
<1>4. \A i \in w : i \in Place(w, low, n, f)
  BY <1>2, PlaceBits DEF Bits
<1> QED BY <1>3, <1>4

-----------------------------------------------------------------------------
(* The steps of the functions *)

\* A field masked in place.
Masked(w, low, n, s) == Place(w, low, n, Xor(s, Field(w, low, n)))

\* Masked twice it is as before.
LEMMA MaskTwice ==
  ASSUME NEW N \in Nat, NEW w \in SUBSET Bits(N), NEW low \in Nat, NEW n \in Nat,
         NEW s \in SUBSET Bits(n)
  PROVE  Masked(Masked(w, low, n, s), low, n, s) = w
<1> DEFINE f == Field(w, low, n)
<1>1. f \in SUBSET Bits(n) /\ Xor(s, f) \in SUBSET Bits(n)
  BY FieldTyped DEF Xor
<1>2. Field(Masked(w, low, n, s), low, n) = Xor(s, f)
  <2>1. Field(Masked(w, low, n, s), low, n) = Xor(s, f) \cap Bits(n)
    BY FieldPlaced DEF Masked
  <2> QED BY <1>1, <2>1
<1>3. Masked(Masked(w, low, n, s), low, n, s) = Place(Masked(w, low, n, s), low, n, Xor(s, Xor(s, f)))
  BY <1>2 DEF Masked
<1>4. Xor(s, Xor(s, f)) = f
  BY XorTwice
<1>5. Masked(Masked(w, low, n, s), low, n, s) = Place(w, low, n, f)
  BY <1>3, <1>4, PlaceTwice DEF Masked
<1> QED BY <1>1, <1>5, PlaceBack

\* Masks in different places can be put on in any order.
LEMMA MaskSwap ==
  ASSUME NEW w, NEW low \in Nat, NEW n \in Nat, NEW s, NEW low2 \in Nat, NEW m \in Nat, NEW t,
         Apart(low, n, low2, m)
  PROVE  Masked(Masked(w, low, n, s), low2, m, t) = Masked(Masked(w, low2, m, t), low, n, s)
<1>1. Apart(low2, m, low, n)
  BY DEF Apart
<1>2. /\ Field(Masked(w, low, n, s), low2, m) = Field(w, low2, m)
      /\ Field(Masked(w, low2, m, t), low, n) = Field(w, low, n)
  BY <1>1, FieldElsewhere DEF Masked
<1>3. Masked(Masked(w, low, n, s), low2, m, t)
        = Place(Place(w, low, n, Xor(s, Field(w, low, n))), low2, m, Xor(t, Field(w, low2, m)))
  BY <1>2 DEF Masked
<1>4. Masked(Masked(w, low2, m, t), low, n, s)
        = Place(Place(w, low2, m, Xor(t, Field(w, low2, m))), low, n, Xor(s, Field(w, low, n)))
  BY <1>2 DEF Masked
<1> QED BY <1>3, <1>4, PlaceSwap

\* A LogCheck is its four words.
LEMMA SameKeys ==
  ASSUME NEW c \in LogCheck, NEW d \in LogCheck,
         c.key0 = d.key0, c.key1 = d.key1, c.app = d.app, c.dev = d.dev
  PROVE  c = d
BY DEF LogCheck

\* A part of a table's word is eight bits wide.
LEMMA ShiftedTyped ==
  ASSUME NEW word, NEW f
  PROVE  Number(f) \in Nat /\ Field(word, Number(f), 8) \in SUBSET Bits(8)
<1>1. Number(f) \in Nat
  BY DEF Number
<1> QED BY <1>1, FieldTyped

\* Scramble masks three fields with what it reads from three others.
LEMMA ScrambleMasks ==
  ASSUME NEW c \in LogCheck, NEW word
  PROVE  LET s0 == Field(word, Number(Field(c.key0, 12, 2)), 8)
             s1 == Field(word, Number(Field(c.key0, 26, 2)), 8)
             s2 == Field(word, Number(Field(c.key0, 28, 2)), 8)
         IN  /\ Scramble(c, word) \in LogCheck
             /\ Scramble(c, word).key0 = Masked(c.key0, 47, 8, s0)
             /\ Scramble(c, word).key1 = Masked(Masked(c.key1, 17, 8, s1), 25, 8, s2)
             /\ Scramble(c, word).app = c.app /\ Scramble(c, word).dev = c.dev
<1> DEFINE s0 == Field(word, Number(Field(c.key0, 12, 2)), 8)
           s1 == Field(word, Number(Field(c.key0, 26, 2)), 8)
           s2 == Field(word, Number(Field(c.key0, 28, 2)), 8)
           k0 == Place(c.key0, 47, 8, Xor(s0, Field(c.key0, 47, 8)))
           k1 == Place(Place(c.key1, 17, 8, Xor(s1, Field(c.key1, 17, 8))), 25, 8,
                       Xor(s2, Field(c.key1, 25, 8)))
<1>1. /\ c.key0 \in SUBSET Bits(64) /\ c.key1 \in SUBSET Bits(64)
      /\ c.app \in SUBSET Bits(32) /\ c.dev \in SUBSET Bits(32)
  BY DEF LogCheck
<1>2. k0 \in SUBSET Bits(64) /\ k1 \in SUBSET Bits(64)
  BY <1>1, PlaceTyped
<1>3. Scramble(c, word) = [c EXCEPT !.key0 = k0, !.key1 = k1]
  BY DEF Scramble, Shifted
<1>4. Field(Masked(c.key1, 17, 8, s1), 25, 8) = Field(c.key1, 25, 8)
  BY FieldElsewhere DEF Masked, Apart
<1>5. k0 = Masked(c.key0, 47, 8, s0) /\ k1 = Masked(Masked(c.key1, 17, 8, s1), 25, 8, s2)
  BY <1>4 DEF Masked
<1> HIDE DEF k0, k1
<1> DEFINE W == SUBSET Bits(64)
           V == SUBSET Bits(32)
<1>6. LogCheck = [key0 : W, key1 : W, app : V, dev : V] /\ k0 \in W /\ k1 \in W
  BY <1>2 DEF LogCheck
<1> HIDE DEF W, V
<1>7. /\ Scramble(c, word) \in LogCheck /\ Scramble(c, word).key0 = k0
      /\ Scramble(c, word).key1 = k1
      /\ Scramble(c, word).app = c.app /\ Scramble(c, word).dev = c.dev
  BY <1>3, <1>6
<1> QED BY <1>5, <1>7

\* Done twice it changes nothing: it reads no field that it writes but the masked one.
LEMMA ScrambleTwice ==
  ASSUME NEW c \in LogCheck, NEW word
  PROVE  Scramble(Scramble(c, word), word) = c
<1> DEFINE d == Scramble(c, word)
           s0 == Field(word, Number(Field(c.key0, 12, 2)), 8)
           s1 == Field(word, Number(Field(c.key0, 26, 2)), 8)
           s2 == Field(word, Number(Field(c.key0, 28, 2)), 8)
<1>1. /\ d \in LogCheck /\ d.key0 = Masked(c.key0, 47, 8, s0)
      /\ d.key1 = Masked(Masked(c.key1, 17, 8, s1), 25, 8, s2)
      /\ d.app = c.app /\ d.dev = c.dev
  BY ScrambleMasks
<1>2. /\ s0 \in SUBSET Bits(8) /\ s1 \in SUBSET Bits(8) /\ s2 \in SUBSET Bits(8)
      /\ c.key0 \in SUBSET Bits(64) /\ c.key1 \in SUBSET Bits(64)
  BY ShiftedTyped DEF LogCheck
<1>3. /\ Field(d.key0, 12, 2) = Field(c.key0, 12, 2) /\ Field(d.key0, 26, 2) = Field(c.key0, 26, 2)
      /\ Field(d.key0, 28, 2) = Field(c.key0, 28, 2)
  BY <1>1, FieldElsewhere DEF Masked, Apart
<1> HIDE DEF d
<1>4. /\ Scramble(d, word) \in LogCheck
      /\ Scramble(d, word).key0 = Masked(d.key0, 47, 8, s0)
      /\ Scramble(d, word).key1 = Masked(Masked(d.key1, 17, 8, s1), 25, 8, s2)
      /\ Scramble(d, word).app = d.app /\ Scramble(d, word).dev = d.dev
  BY <1>1, <1>3, ScrambleMasks
<1> HIDE DEF s0, s1, s2
<1>5. Scramble(d, word).key0 = c.key0
  BY <1>1, <1>2, <1>4, MaskTwice
<1>6. Scramble(d, word).key1 = c.key1
  <2> DEFINE w == Masked(c.key1, 17, 8, s1)
  <2>0. w \in SUBSET Bits(64)
    BY <1>2, PlaceTyped DEF Masked
  <2>1. Masked(Masked(w, 25, 8, s2), 17, 8, s1) = Masked(Masked(w, 17, 8, s1), 25, 8, s2)
    BY MaskSwap DEF Apart
  <2>2. Masked(w, 17, 8, s1) = c.key1
    BY <1>2, MaskTwice
  <2>3. Masked(Masked(c.key1, 25, 8, s2), 25, 8, s2) = c.key1
    BY <1>2, MaskTwice
  <2> QED BY <1>1, <1>4, <2>1, <2>2, <2>3
<1> QED BY <1>1, <1>4, <1>5, <1>6, SameKeys DEF d

\* A part of the user id comes out of its hiding place.
LEMMA HideTwice ==
  ASSUME NEW part \in SUBSET Bits(10), NEW mask, NEW word
  PROVE  Hide(Hide(part, mask, word) \cap Bits(10), mask, word) \cap Bits(10) = part
BY DEF Hide, Xor

\* Three parts of ten bits make the user id again, whatever is above them.
LEMMA PartsOfUser ==
  ASSUME NEW u \in SUBSET Bits(30), NEW a, NEW b, NEW c,
         a \cap Bits(10) = Field(u, 0, 10), b \cap Bits(10) = Field(u, 10, 10),
         c \cap Bits(10) = Field(u, 20, 10)
  PROVE  Place(Place(Field(a, 0, 10), 10, 10, b), 20, 10, c) = u
<1> DEFINE w == Place(Place(Field(a, 0, 10), 10, 10, b), 20, 10, c)
<1>0. Field(a, 0, 10) = Field(u, 0, 10)
  BY DEF Field, Bits
<1>1. \A i \in Nat : i \in w <=> IF i >= 20 THEN i < 30 /\ i - 20 \in c
                                 ELSE IF i >= 10 THEN i - 10 \in b ELSE i \in Field(a, 0, 10)
  <2> SUFFICES ASSUME NEW i \in Nat
               PROVE  i \in w <=> IF i >= 20 THEN i < 30 /\ i - 20 \in c
                                  ELSE IF i >= 10 THEN i - 10 \in b ELSE i \in Field(a, 0, 10)
    OBVIOUS
  <2>1. i \in w <=> IF 20 <= i /\ i < 30 THEN i - 20 \in c
                    ELSE IF 10 <= i /\ i < 20 THEN i - 10 \in b ELSE i \in Field(a, 0, 10)
    BY PlaceBits
  <2>2. i \in Field(a, 0, 10) => i < 10
    BY DEF Field, Bits
  <2> QED BY <2>1, <2>2
<1>2. \A i \in Nat : i \in w <=> i \in u
  <2> SUFFICES ASSUME NEW i \in Nat PROVE i \in w <=> i \in u
    OBVIOUS
  <2>1. CASE i >= 30
    BY <1>1, <2>1 DEF Bits
  <2>2. CASE i >= 20 /\ i < 30
    <3>1. i - 20 \in Bits(10) /\ 20 + (i - 20) = i
      BY <2>2 DEF Bits
    <3>2. i - 20 \in c <=> i - 20 \in Field(u, 20, 10)
      BY <3>1
    <3> QED BY <1>1, <2>2, <3>1, <3>2 DEF Field
  <2>3. CASE i >= 10 /\ i < 20
    <3>1. i - 10 \in Bits(10) /\ 10 + (i - 10) = i
      BY <2>3 DEF Bits
    <3>2. i - 10 \in b <=> i - 10 \in Field(u, 10, 10)
      BY <3>1
    <3> QED BY <1>1, <2>3, <3>1, <3>2 DEF Field
  <2>4. CASE i < 10
    BY <1>0, <1>1, <2>4 DEF Field, Bits
  <2> QED BY <2>1, <2>2, <2>3, <2>4
<1>3. \A i \in w : i \in Nat
  BY DEF Place, Field, Bits
<1>4. \A i \in u : i \in Nat
  BY DEF Bits
<1> QED BY <1>2, <1>3, <1>4

\* The user id that was written is read.
LEMMA UserRead ==
  ASSUME NEW c \in LogCheck, NEW u \in SUBSET Bits(30), NEW word
  PROVE  /\ WriteUser(c, u, word) \in LogCheck
         /\ ReadUser(WriteUser(c, u, word), word) = u
         /\ WriteUser(c, u, word).app = c.app /\ WriteUser(c, u, word).dev = c.dev
         /\ \E f : WriteUser(c, u, word).key0 = Place(c.key0, 34, 10, f)
         /\ Field(WriteUser(c, u, word).key1, 43, 8) = Field(c.key1, 43, 8)
<1> DEFINE d   == WriteUser(c, u, word)
           h20 == Hide(Field(u, 20, 10), Field(c.key0, 47, 8), word)
           h10 == Hide(Field(u, 10, 10), Field(c.key1, 17, 8), word)
           h00 == Hide(Field(u, 0, 10), Field(c.key1, 25, 8), word)
           k0  == Place(c.key0, 34, 10, h20)
           k1  == Place(Place(c.key1, 5, 10, h10), 33, 10, h00)
<1>1. /\ c.key0 \in SUBSET Bits(64) /\ c.key1 \in SUBSET Bits(64)
      /\ c.app \in SUBSET Bits(32) /\ c.dev \in SUBSET Bits(32)
  BY DEF LogCheck
<1>2. k0 \in SUBSET Bits(64) /\ k1 \in SUBSET Bits(64)
  BY <1>1, PlaceTyped
<1>3. d = [c EXCEPT !.key0 = k0, !.key1 = k1]
  BY DEF WriteUser
<1>4. Field(k0, 34, 10) = h20 \cap Bits(10) /\ Field(k0, 47, 8) = Field(c.key0, 47, 8)
  BY FieldPlaced, FieldElsewhere DEF Apart
<1>5. /\ Field(k1, 33, 10) = h00 \cap Bits(10)
      /\ Field(k1, 17, 8) = Field(c.key1, 17, 8) /\ Field(k1, 25, 8) = Field(c.key1, 25, 8)
      /\ Field(k1, 43, 8) = Field(c.key1, 43, 8)
  BY FieldPlaced, FieldElsewhere DEF Apart
<1>6. Field(k1, 5, 10) = h10 \cap Bits(10)
  <2>1. Field(k1, 5, 10) = Field(Place(c.key1, 5, 10, h10), 5, 10)
    BY FieldElsewhere DEF Apart
  <2> QED BY <2>1, FieldPlaced
<1>7. /\ Hide(h20 \cap Bits(10), Field(c.key0, 47, 8), word) \cap Bits(10) = Field(u, 20, 10)
      /\ Hide(h10 \cap Bits(10), Field(c.key1, 17, 8), word) \cap Bits(10) = Field(u, 10, 10)
      /\ Hide(h00 \cap Bits(10), Field(c.key1, 25, 8), word) \cap Bits(10) = Field(u, 0, 10)
  BY HideTwice, FieldTyped
<1> HIDE DEF k0, k1, h00, h10, h20
<1> DEFINE W == SUBSET Bits(64)
           V == SUBSET Bits(32)
<1>8. LogCheck = [key0 : W, key1 : W, app : V, dev : V] /\ k0 \in W /\ k1 \in W
  BY <1>2 DEF LogCheck
<1> HIDE DEF W, V
<1> HIDE DEF d
<1>9. d \in LogCheck /\ d.key0 = k0 /\ d.key1 = k1 /\ d.app = c.app /\ d.dev = c.dev
  BY <1>3, <1>8
<1>10. ReadUser(d, word) = u
  <2>1. ReadUser(d, word)
          = Place(Place(Field(Hide(h00 \cap Bits(10), Field(c.key1, 25, 8), word), 0, 10), 10, 10,
                        Hide(h10 \cap Bits(10), Field(c.key1, 17, 8), word)),
                  20, 10, Hide(h20 \cap Bits(10), Field(c.key0, 47, 8), word))
    <3>1. /\ Field(d.key0, 34, 10) = h20 \cap Bits(10) /\ Field(d.key0, 47, 8) = Field(c.key0, 47, 8)
          /\ Field(d.key1, 33, 10) = h00 \cap Bits(10) /\ Field(d.key1, 25, 8) = Field(c.key1, 25, 8)
          /\ Field(d.key1, 5, 10) = h10 \cap Bits(10) /\ Field(d.key1, 17, 8) = Field(c.key1, 17, 8)
      BY <1>4, <1>5, <1>6, <1>9
    <3>2. ReadUser(d, word)
            = Place(Place(Field(Hide(Field(d.key1, 33, 10), Field(d.key1, 25, 8), word), 0, 10), 10, 10,
                          Hide(Field(d.key1, 5, 10), Field(d.key1, 17, 8), word)),
                    20, 10, Hide(Field(d.key0, 34, 10), Field(d.key0, 47, 8), word))
      BY DEF ReadUser
    <3> QED BY ONLY <3>1, <3>2
  <2> DEFINE p00 == Hide(h00 \cap Bits(10), Field(c.key1, 25, 8), word)
             p10 == Hide(h10 \cap Bits(10), Field(c.key1, 17, 8), word)
             p20 == Hide(h20 \cap Bits(10), Field(c.key0, 47, 8), word)
  <2>2. /\ p00 \cap Bits(10) = Field(u, 0, 10) /\ p10 \cap Bits(10) = Field(u, 10, 10)
        /\ p20 \cap Bits(10) = Field(u, 20, 10)
    BY <1>7
  <2>3. ReadUser(d, word) = Place(Place(Field(p00, 0, 10), 10, 10, p10), 20, 10, p20)
    BY <2>1
  <2> HIDE DEF p00, p10, p20
  <2>4. Place(Place(Field(p00, 0, 10), 10, 10, p10), 20, 10, p20) = u
    BY <2>2, PartsOfUser
  <2> QED BY <2>3, <2>4
<1> QED BY <1>5, <1>9, <1>10 DEF d, k0

\* What is sealed by one side the other opens.
LEMMA SealOpened ==
  ASSUME NEW c \in LogCheck, NEW isApp \in BOOLEAN
  PROVE  /\ Seal(c, isApp) \in LogCheck
         /\ Seal(c, isApp).key1 = c.key1
         /\ Unseal(Seal(c, isApp), ~isApp) = c
<1>1. /\ c.key0 \in SUBSET Bits(64) /\ c.key1 \in SUBSET Bits(64)
      /\ c.app \in SUBSET Bits(32) /\ c.dev \in SUBSET Bits(32)
  BY DEF LogCheck
<1>2. ASSUME NEW w PROVE Place(Place(c.key0, 0, 12, Xor(c.key0, w)), 0, 12,
                               Xor(Place(c.key0, 0, 12, Xor(c.key0, w)), w)) = c.key0
  <2> DEFINE k == Place(c.key0, 0, 12, Xor(c.key0, w))
  <2>1. \A i \in Nat : i < 12 => (i \in k <=> i \in Xor(c.key0, w))
    BY PlaceBits
  <2>2. Xor(k, w) \cap Bits(12) = Field(c.key0, 0, 12)
    <3>1. \A i \in Bits(12) : i \in Nat /\ i < 12 /\ 0 + i = i
      BY DEF Bits
    <3>2. \A i \in Bits(12) : i \in Xor(k, w) <=> i \in c.key0
      BY <2>1, <3>1 DEF Xor
    <3> QED BY <3>1, <3>2 DEF Field
  <2>3. Place(k, 0, 12, Xor(k, w)) = Place(c.key0, 0, 12, Xor(k, w))
    BY PlaceTwice
  <2> HIDE DEF k
  <2>4. Place(c.key0, 0, 12, Xor(k, w)) = c.key0
    BY <1>1, <2>2, PlaceBack
  <2> QED BY <2>3, <2>4 DEF k
<1>3. ASSUME NEW w PROVE /\ Place(c.key0, 0, 12, Xor(c.key0, w)) \in SUBSET Bits(64)
                         /\ Field(Place(c.key0, 0, 12, Xor(c.key0, w)), 32, 32) = Field(c.key0, 32, 32)
  BY <1>1, PlaceTyped, FieldElsewhere DEF Apart
<1>4. /\ Rdm1(c) \in SUBSET Bits(32) /\ Rdm2(c) \in SUBSET Bits(32) /\ Rdm3(c) \in SUBSET Bits(32)
      /\ \A a \in SUBSET Bits(32), b \in SUBSET Bits(32) : Xor(a, b) \in SUBSET Bits(32)
  BY FieldTyped DEF Rdm1, Rdm2, Rdm3, Xor
<1> DEFINE hide == IF isApp THEN c.app ELSE c.dev
           k    == Place(c.key0, 0, 12, Xor(c.key0, hide))
           a    == IF isApp THEN Rdm1(c) ELSE Rdm3(c)
           b    == IF isApp THEN Rdm3(c) ELSE Rdm2(c)
           d    == Seal(c, isApp)
<1>5. d = [c EXCEPT !.key0 = k, !.app = Xor(c.app, a), !.dev = Xor(c.dev, b)]
  BY DEF Seal, MixLow, LogCheck
<1>6. /\ d \in LogCheck /\ d.key0 = k /\ d.key1 = c.key1
      /\ d.app = Xor(c.app, a) /\ d.dev = Xor(c.dev, b)
  <2>1. k \in SUBSET Bits(64) /\ Xor(c.app, a) \in SUBSET Bits(32) /\ Xor(c.dev, b) \in SUBSET Bits(32)
    BY <1>1, <1>3, <1>4
  <2> HIDE DEF k, a, b, d
  <2> QED BY <1>1, <1>5, <2>1 DEF LogCheck
<1> HIDE DEF d
<1>7. Rdm1(d) = Rdm1(c) /\ Rdm2(d) = Rdm2(c) /\ Rdm3(d) = Rdm3(c)
  BY <1>3, <1>6 DEF Rdm1, Rdm2, Rdm3
<1> DEFINE o == [d EXCEPT !.app = Xor(d.app, a), !.dev = Xor(d.dev, b)]
<1>8. /\ o \in LogCheck /\ o.key0 = k /\ o.key1 = c.key1 /\ o.app = c.app /\ o.dev = c.dev
  <2>1. Xor(d.app, a) = c.app /\ Xor(d.dev, b) = c.dev
    BY <1>6, XorTwice
  <2> HIDE DEF k, a, b
  <2> QED BY <1>1, <1>6, <2>1 DEF LogCheck
<1>9. Unseal(d, ~isApp) = MixLow(o, hide)
  <2>1. CASE isApp
    <3>1. o = [d EXCEPT !.app = Xor(d.app, Rdm1(d)), !.dev = Xor(d.dev, Rdm3(d))]
      BY <1>7, <2>1
    <3>2. Unseal(d, FALSE) = MixLow(o, o.app)
      BY <3>1 DEF Unseal
    <3>3. (~isApp) = FALSE /\ hide = c.app
      BY <2>1
    <3> QED BY <1>8, <3>2, <3>3
  <2>2. CASE ~isApp
    <3>1. o = [d EXCEPT !.app = Xor(d.app, Rdm3(d)), !.dev = Xor(d.dev, Rdm2(d))]
      BY <1>7, <2>2
    <3>2. Unseal(d, TRUE) = MixLow(o, o.dev)
      BY <3>1 DEF Unseal
    <3>3. (~isApp) = TRUE /\ hide = c.dev
      BY <2>2
    <3> QED BY <1>8, <3>2, <3>3
  <2> QED BY <2>1, <2>2
<1>10. MixLow(o, hide) = [o EXCEPT !.key0 = c.key0]
  <2>1. Place(k, 0, 12, Xor(k, hide)) = c.key0
    BY <1>2
  <2> HIDE DEF k, hide, o
  <2> QED BY <1>8, <2>1 DEF MixLow
<1> HIDE DEF o
<1>11. [o EXCEPT !.key0 = c.key0] = c
  <2> DEFINE p == [o EXCEPT !.key0 = c.key0]
  <2>1. p \in LogCheck /\ p.key0 = c.key0 /\ p.key1 = c.key1 /\ p.app = c.app /\ p.dev = c.dev
    BY <1>1, <1>8 DEF LogCheck
  <2> HIDE DEF p
  <2>2. p = c
    BY <2>1, SameKeys
  <2> QED BY <2>2 DEF p
<1> QED BY <1>6, <1>9, <1>10, <1>11 DEF d

-----------------------------------------------------------------------------
(* The two functions *)

\* The keys that are drawn leave app and dev as they are, and the version 0.
LEMMA KeysNew ==
  ASSUME NEW c \in LogCheck, NEW r \in Randoms
  PROVE  /\ NewKeys(c, r) \in LogCheck
         /\ NewKeys(c, r).app = c.app /\ NewKeys(c, r).dev = c.dev
         /\ Field(NewKeys(c, r).key1, 43, 8) = {}
<1> DEFINE k0 == Place(r[0], 32, 32, r[1])
           k1 == Place(Place(r[2], 32, 32, r[3]), 43, 8, {})
<1>1. \A i \in 0 .. 3 : r[i] \in SUBSET Bits(64)
  <2>1. \A w \in SUBSET Bits(32) : w \in SUBSET Bits(64)
    BY DEF Bits
  <2> QED BY <2>1, WordAssumption DEF WordAssumption, Randoms
<1>2. k0 \in SUBSET Bits(64) /\ k1 \in SUBSET Bits(64)
  BY <1>1, PlaceTyped
<1>3. Field(k1, 43, 8) = {}
  <2>1. Field(k1, 43, 8) = {} \cap Bits(8)
    BY FieldPlaced
  <2> QED BY <2>1
<1>4. NewKeys(c, r) = [c EXCEPT !.key0 = k0, !.key1 = k1]
  BY DEF NewKeys
<1> HIDE DEF k0, k1
<1> DEFINE W == SUBSET Bits(64)
           V == SUBSET Bits(32)
<1>5. LogCheck = [key0 : W, key1 : W, app : V, dev : V] /\ k0 \in W /\ k1 \in W
  BY <1>2 DEF LogCheck
<1> HIDE DEF W, V
<1>6. /\ NewKeys(c, r) \in LogCheck /\ NewKeys(c, r).key1 = k1
      /\ NewKeys(c, r).app = c.app /\ NewKeys(c, r).dev = c.dev
  BY <1>4, <1>5
<1> QED BY <1>3, <1>6

\* What one side has encoded the other decodes: the user id, and both words.
LEMMA RoundTrip ==
  ASSUME NEW c \in LogCheck, NEW isApp \in BOOLEAN, NEW u \in SUBSET Bits(30), NEW r \in Randoms
  PROVE  LET d == Decode(Encode(c, isApp, u, r), ~isApp)
         IN  /\ d.ok /\ d.user = u
             /\ d.ck \in LogCheck /\ d.ck.app = c.app /\ d.ck.dev = c.dev
<1> DEFINE new    == NewKeys(c, r)
           word   == TableWord(new)
           wu     == WriteUser(new, u, word)
           sc     == Scramble(wu, word)
           sealed == Seal(sc, isApp)
           sum    == CheckSum(sealed)
           e      == [sealed EXCEPT !.key1 = Place(sealed.key1, 43, 8, sum)]
<1>1. e = Encode(c, isApp, u, r)
  BY DEF Encode
<1>2. /\ new \in LogCheck /\ new.app = c.app /\ new.dev = c.dev
      /\ Field(new.key1, 43, 8) = {}
  BY KeysNew
<1>3. /\ wu \in LogCheck /\ wu.app = c.app /\ wu.dev = c.dev
      /\ ReadUser(wu, word) = u /\ Field(wu.key1, 43, 8) = {}
      /\ \E f : wu.key0 = Place(new.key0, 34, 10, f)
  <2> HIDE DEF new, word
  <2> QED BY <1>2, UserRead
<1>4. /\ sc \in LogCheck /\ sc.app = c.app /\ sc.dev = c.dev
      /\ Scramble(sc, word) = wu
      /\ Field(sc.key1, 43, 8) = {}
      /\ \E f : sc.key0 = Place(wu.key0, 47, 8, f)
  <2> HIDE DEF wu, word
  <2>1. PICK s0, s1, s2 : /\ sc \in LogCheck /\ sc.app = wu.app /\ sc.dev = wu.dev
                          /\ sc.key0 = Masked(wu.key0, 47, 8, s0)
                          /\ sc.key1 = Masked(Masked(wu.key1, 17, 8, s1), 25, 8, s2)
    BY <1>3, ScrambleMasks
  <2>2. Field(sc.key1, 43, 8) = Field(wu.key1, 43, 8)
    <3> DEFINE w == Masked(wu.key1, 17, 8, s1)
    <3>1. Field(Masked(w, 25, 8, s2), 43, 8) = Field(w, 43, 8)
      BY FieldElsewhere DEF Masked, Apart
    <3>2. Field(w, 43, 8) = Field(wu.key1, 43, 8)
      BY FieldElsewhere DEF Masked, Apart
    <3> QED BY <2>1, <3>1, <3>2
  <2>3. Scramble(sc, word) = wu
    BY <1>3, ScrambleTwice
  <2> QED BY <1>3, <2>1, <2>2, <2>3 DEF Masked
<1>5. TableWord(sc) = word
  <2> HIDE DEF new, wu, sc
  <2>1. /\ Field(sc.key0, 0, 12) = Field(new.key0, 0, 12)
        /\ Field(sc.key0, 14, 12) = Field(new.key0, 14, 12)
    BY <1>3, <1>4, FieldElsewhere DEF Apart
  <2> QED BY <2>1 DEF TableWord
<1>6. /\ sealed \in LogCheck /\ sealed.key1 = sc.key1 /\ Unseal(sealed, ~isApp) = sc
  <2> HIDE DEF sc
  <2> QED BY <1>4, SealOpened
<1> HIDE DEF new, word, wu, sc, sealed
<1>7. /\ e \in LogCheck /\ e.key0 = sealed.key0 /\ e.key1 = Place(sealed.key1, 43, 8, sum)
      /\ e.app = sealed.app /\ e.dev = sealed.dev
  <2>1. Place(sealed.key1, 43, 8, sum) \in SUBSET Bits(64)
    <3>1. sealed.key1 \in SUBSET Bits(64)
      BY <1>6 DEF LogCheck
    <3> QED BY <3>1, PlaceTyped
  <2> HIDE DEF sum
  <2> QED BY <1>6, <2>1 DEF LogCheck
<1>8. CheckSum(e) = sum
  BY <1>7 DEF CheckSum
<1> DEFINE version == Xor(Field(e.key1, 43, 8), CheckSum(e))
           f       == [e EXCEPT !.key1 = Place(e.key1, 43, 8, version)]
<1> HIDE DEF sum, e
<1>9. Place(e.key1, 43, 8, version) = sealed.key1
  <2>1. Field(e.key1, 43, 8) = sum \cap Bits(8)
    BY <1>7, FieldPlaced
  <2>2. version \cap Bits(8) = {}
    BY <1>8, <2>1 DEF Xor
  <2>3. Place(e.key1, 43, 8, version) = Place(sealed.key1, 43, 8, version)
    BY <1>7, PlaceTwice
  <2>4. Field(sealed.key1, 43, 8) = {} /\ sealed.key1 \in SUBSET Bits(64)
    BY <1>4, <1>6 DEF LogCheck
  <2> HIDE DEF version
  <2>5. Place(sealed.key1, 43, 8, version) = sealed.key1
    BY <2>2, <2>4, PlaceBack
  <2> QED BY <2>3, <2>5
<1>10. f = sealed
  <2> HIDE DEF version
  <2>1. /\ f \in LogCheck /\ f.key0 = sealed.key0 /\ f.key1 = sealed.key1
        /\ f.app = sealed.app /\ f.dev = sealed.dev
    BY <1>6, <1>7, <1>9 DEF LogCheck
  <2> HIDE DEF f
  <2> QED BY <1>6, <2>1, SameKeys
<1>11. Decode(e, ~isApp) = [ok |-> TRUE, ck |-> wu, user |-> u]
  <2>1. Unseal(f, ~isApp) = sc
    BY <1>6, <1>10
  <2>2. Decode(e, ~isApp) =
          IF Field(sc.key1, 43, 8) = {}
            THEN [ok |-> TRUE, ck |-> Scramble(sc, TableWord(sc)),
                  user |-> ReadUser(Scramble(sc, TableWord(sc)), TableWord(sc))]
            ELSE [ok |-> FALSE, ck |-> sc, user |-> {}]
    BY <2>1 DEF Decode
  <2> QED BY <1>3, <1>4, <1>5, <2>2
<1> QED BY <1>1, <1>3, <1>11

-----------------------------------------------------------------------------
(* The exchange *)

\* What is on its way was encoded from what the peers have put in, and what the relay
\* has read is that.
ExchangeInv ==
    /\ pc \in {"challenge", "decode", "answer", "verify"}
    /\ drone.user \in SUBSET Bits(30)
    /\ pc # "challenge" => drone \in [user : Users, app : Words, dev : Words]
    /\ pc = "decode" => \E r \in Randoms :
         ck = Encode([Zero EXCEPT !.app = drone.app, !.dev = drone.dev], FALSE, drone.user, r)
    /\ pc = "answer" => /\ ck \in LogCheck /\ ck.app = drone.app /\ ck.dev = drone.dev
                        /\ user = drone.user
    /\ pc = "verify" =>
         /\ fresh # drone.app
         /\ \E c \in LogCheck, r \in Randoms :
              c.app = fresh /\ c.dev = drone.dev /\ ck = Encode(c, TRUE, drone.user, r)

\* The key with the drone's words.
LEMMA ChallengeTyped ==
  ASSUME NEW a \in Words, NEW b \in Words
  PROVE  LET c == [Zero EXCEPT !.app = a, !.dev = b]
         IN  c \in LogCheck /\ c.app = a /\ c.dev = b
<1>1. a \in SUBSET Bits(32) /\ b \in SUBSET Bits(32)
  BY WordAssumption DEF WordAssumption
<1> QED BY <1>1 DEF Zero, LogCheck

\* Every step keeps it, and the verdict on an answer is as it should be.
LEMMA NextExchange ==
  ASSUME ExchangeInv, AuthNext
  PROVE  /\ ExchangeInv'
         /\ Verify => /\ verdict'.ok /\ verdict'.user = drone.user /\ verdict'.dev = drone.dev
                      /\ verdict'.app = fresh /\ fresh # drone.app
<1>1. CASE Challenge
  <2>1. /\ drone' \in [user : Users, app : Words, dev : Words] /\ pc' = "decode" /\ pc # "verify"
        /\ \E r \in Randoms :
             ck' = Encode([Zero EXCEPT !.app = drone'.app, !.dev = drone'.dev], FALSE, drone'.user, r)
    BY <1>1 DEF Challenge
  <2>2. drone'.user \in SUBSET Bits(30)
    BY <2>1, WordAssumption DEF WordAssumption
  <2> QED BY <2>1, <2>2 DEF ExchangeInv, Verify
<1>2. CASE DecodeChallenge
  <2>1. drone \in [user : Users, app : Words, dev : Words] /\ drone.user \in SUBSET Bits(30)
    BY <1>2 DEF DecodeChallenge, ExchangeInv
  <2> DEFINE c == [Zero EXCEPT !.app = drone.app, !.dev = drone.dev]
             d == Decode(ck, TRUE)
  <2>2. PICK r \in Randoms : ck = Encode(c, FALSE, drone.user, r)
    BY <1>2 DEF DecodeChallenge, ExchangeInv
  <2>3. c \in LogCheck /\ c.app = drone.app /\ c.dev = drone.dev
    BY <2>1, ChallengeTyped
  <2> HIDE DEF c
  <2>4. /\ d.ok /\ d.user = drone.user
        /\ d.ck \in LogCheck /\ d.ck.app = drone.app /\ d.ck.dev = drone.dev
    <3>1. FALSE \in BOOLEAN /\ (~FALSE) = TRUE
      OBVIOUS
    <3>2. LET e == Decode(Encode(c, FALSE, drone.user, r), ~FALSE)
          IN  /\ e.ok /\ e.user = drone.user
              /\ e.ck \in LogCheck /\ e.ck.app = c.app /\ e.ck.dev = c.dev
      BY <2>1, <2>3, <3>1, RoundTrip, Zenon
    <3>3. d = Decode(Encode(c, FALSE, drone.user, r), ~FALSE)
      BY <2>2, <3>1, Zenon
    <3> QED BY <2>3, <3>2, <3>3
  <2>5. /\ ck' = d.ck /\ user' = d.user /\ pc' = IF d.ok THEN "answer" ELSE "failed"
        /\ pc = "decode" /\ UNCHANGED drone
    BY <1>2 DEF DecodeChallenge
  <2> HIDE DEF d
  <2> QED BY <2>1, <2>4, <2>5 DEF ExchangeInv, Verify
<1>3. CASE Answer
  <2>1. PICK r \in Randoms : ck' = Encode([ck EXCEPT !.app = fresh'], TRUE, user, r)
    BY <1>3 DEF Answer
  <2>2. /\ fresh' \in Words /\ fresh' # ck.app /\ pc = "answer" /\ pc' = "verify"
        /\ UNCHANGED <<user, drone>>
    BY <1>3 DEF Answer
  <2>3. /\ ck \in LogCheck /\ ck.app = drone.app /\ ck.dev = drone.dev /\ user = drone.user
        /\ drone \in [user : Users, app : Words, dev : Words] /\ drone.user \in SUBSET Bits(30)
    BY <2>2 DEF ExchangeInv
  <2> DEFINE c == [ck EXCEPT !.app = fresh']
  <2>4. c \in LogCheck /\ c.app = fresh' /\ c.dev = drone.dev
    <3>1. fresh' \in SUBSET Bits(32)
      BY <2>2, WordAssumption DEF WordAssumption
    <3> QED BY <2>3, <3>1 DEF LogCheck
  <2> HIDE DEF c
  <2>5. ck' = Encode(c, TRUE, drone'.user, r)
    BY <2>1, <2>2, <2>3 DEF c
  <2> QED BY <2>2, <2>3, <2>4, <2>5 DEF ExchangeInv, Verify
<1>4. CASE Verify
  <2> DEFINE d == Decode(ck, FALSE)
  <2>1. PICK c \in LogCheck, r \in Randoms :
          c.app = fresh /\ c.dev = drone.dev /\ ck = Encode(c, TRUE, drone.user, r)
    BY <1>4 DEF Verify, ExchangeInv
  <2>2. d.ok /\ d.user = drone.user /\ d.ck.app = fresh /\ d.ck.dev = drone.dev
    <3>1. TRUE \in BOOLEAN /\ (~TRUE) = FALSE /\ drone.user \in SUBSET Bits(30)
      BY DEF ExchangeInv
    <3>2. LET e == Decode(Encode(c, TRUE, drone.user, r), ~TRUE)
          IN  /\ e.ok /\ e.user = drone.user
              /\ e.ck \in LogCheck /\ e.ck.app = c.app /\ e.ck.dev = c.dev
      BY <2>1, <3>1, RoundTrip, Zenon
    <3>3. d = Decode(Encode(c, TRUE, drone.user, r), ~TRUE)
      BY <2>1, <3>1, Zenon
    <3> QED BY <2>1, <3>2, <3>3
  <2>3. /\ verdict' = [ok |-> d.ok, user |-> d.user, app |-> d.ck.app, dev |-> d.ck.dev]
        /\ pc = "verify" /\ pc' = "challenge" /\ UNCHANGED drone
    BY <1>4 DEF Verify
  <2> HIDE DEF d
  <2> QED BY <2>2, <2>3 DEF ExchangeInv
<1> QED BY <1>1, <1>2, <1>3, <1>4 DEF AuthNext

\* The invariant holds throughout.
LEMMA Invariance == AuthSpec => []ExchangeInv
<1>1. AuthInit => ExchangeInv
  BY DEF AuthInit, ExchangeInv
<1>2. ExchangeInv /\ [AuthNext]_authVars => ExchangeInv'
  BY NextExchange DEF authVars, ExchangeInv
<1> QED BY <1>1, <1>2, PTL DEF AuthSpec

-----------------------------------------------------------------------------
(* Theorems *)

\* log_encode_key and log_decode_key: whatever words are drawn and whatever is in the
\* table, the relay reads the drone's user id and words, and the version as 0.
THEOREM ChallengeIsRead == AuthSpec => []ChallengeRead
<1>1. ExchangeInv => ChallengeRead
  BY DEF ExchangeInv, ChallengeRead
<1> QED BY Invariance, <1>1, PTL

\* _authenticate: the drone finds in every answer its user id, its own word and the
\* new one of the application.
THEOREM AnswerIsAccepted == AuthSpec => AnswerAccepted
<1>1. ExchangeInv /\ [AuthNext]_authVars =>
        [Verify => /\ verdict'.ok
                   /\ verdict'.user = drone.user
                   /\ verdict'.dev = drone.dev
                   /\ verdict'.app = fresh
                   /\ fresh # drone.app]_authVars
  BY NextExchange
<1> QED BY Invariance, <1>1, PTL DEF AuthSpec, AnswerAccepted
================================================================================

------------------------- MODULE VideoRegistryProofs -------------------------
(***************************************************************************)
(* Proofs about VideoRegistry, for any clients, any times that fit         *)
(* (OneLossAssumption) and calls of on_packet of any length.               *)
(***************************************************************************)
EXTENDS VideoRegistry, TLAPS

\* A registration is at most Period ticks older than this round's wait and call.
Renews == \A c \in Clients : cpc[c] # "off" => since[c] <= Period + wait[c] + held[c]

\* The entry of a receiver that is not held up is as old as the last registration
\* that got into the table.
FreshEntry(c) == /\ Quick(held[c])
                 /\ lost[c] = 0 => age[c] # ABSENT /\ age[c] <= since[c]
                 /\ lost[c] = 1 => age[c] # ABSENT /\ 2 * age[c] <= Timeout + 2 * since[c]
EntryAge == \A c \in Clients : cpc[c] # "off" /\ c \notin slow => FreshEntry(c)

IInv == TypeOK /\ Renews /\ EntryAge

\* What was sent in time is in time, and then the entry has not expired.
LEMMA NotExpired ==
  ASSUME IInv, NEW c \in Clients, cpc[c] # "off", c \notin slow
  PROVE  /\ 2 * since[c] <= Timeout
         /\ lost[c] < 2 => age[c] # ABSENT /\ ~Expired(c)
<1> USE TimeAssumption, AbsentAssumption
<1>1. /\ since[c] \in Nat /\ wait[c] \in 0 .. Poll /\ held[c] \in Nat /\ lost[c] \in 0 .. 2
      /\ age[c] \in Nat \cup {ABSENT}
  BY DEF IInv, TypeOK
<1>2. since[c] <= Period + wait[c] + held[c] /\ FreshEntry(c)
  BY DEF IInv, Renews, EntryAge
<1>3. 2 * since[c] <= Timeout
  BY <1>1, <1>2 DEF FreshEntry, Quick, Longest
<1>4. ASSUME lost[c] < 2
      PROVE  age[c] # ABSENT /\ age[c] <= Timeout
  BY <1>1, <1>2, <1>3, <1>4 DEF FreshEntry
<1> QED BY <1>1, <1>3, <1>4 DEF Expired

\* What a round that sends a registration leaves of the invariant.
LEMMA RegisterKeeps ==
  ASSUME IInv, NEW c \in Clients, NEW misses \in {1, 2}, Register(c, misses), Enter(c, "recv"),
         UNCHANGED listens, misses = 1 => cpc[c] # "off" /\ lost[c] = 0
  PROVE  IInv'
<1> USE TimeAssumption, AbsentAssumption
<1>1. TypeOK'
  <2>1. age' \in [Clients -> Nat \cup {ABSENT}]
    BY DEF IInv, TypeOK, Register
  <2>2. lost' \in [Clients -> 0 .. 2]
    BY DEF IInv, TypeOK, Register
  <2>3. since' \in [Clients -> Nat] /\ slow' \subseteq Clients /\ listens' \in BOOLEAN
    BY DEF IInv, TypeOK, Register
  <2>4. wait' \in [Clients -> 0 .. Poll] /\ held' \in [Clients -> 0 .. MaxHeld]
    BY DEF IInv, TypeOK, Enter
  <2>5. cpc' \in [Clients -> {"off", "recv", "call", "check"}]
    BY DEF IInv, TypeOK, Enter
  <2> QED BY <2>1, <2>2, <2>3, <2>4, <2>5 DEF TypeOK
<1>2. since'[c] = 0 /\ wait'[c] = 0 /\ held'[c] = 0
  BY DEF IInv, TypeOK, Register, Enter
<1>3. ASSUME NEW d \in Clients, d # c
      PROVE  /\ since'[d] = since[d] /\ wait'[d] = wait[d] /\ held'[d] = held[d]
             /\ cpc'[d] = cpc[d] /\ age'[d] = age[d] /\ lost'[d] = lost[d]
             /\ d \in slow' <=> d \in slow
  BY <1>3 DEF IInv, TypeOK, Register, Enter
<1>4. Renews'
  <2> SUFFICES ASSUME NEW d \in Clients, cpc'[d] # "off"
               PROVE  since'[d] <= Period + wait'[d] + held'[d]
    BY DEF Renews
  <2>1. CASE d = c
    BY <1>2, <2>1
  <2>2. CASE d # c
    BY <1>3, <2>2 DEF IInv, Renews
  <2> QED BY <2>1, <2>2
<1>5. EntryAge'
  <2> SUFFICES ASSUME NEW d \in Clients, cpc'[d] # "off", d \notin slow'
               PROVE  FreshEntry(d)'
    BY DEF EntryAge
  <2>1. CASE d # c
    BY <1>3, <2>1 DEF IInv, EntryAge, FreshEntry, Quick, Longest
  <2>2. CASE d = c
    <3>1. Quick(held'[c])
      BY <1>2, OneLossAssumption
    <3>2. CASE age' = [age EXCEPT ![c] = 0] /\ lost' = [lost EXCEPT ![c] = 0]
      <4>1. age'[c] = 0 /\ lost'[c] = 0
        BY <3>2 DEF IInv, TypeOK
      <4> QED BY <1>2, <2>2, <3>1, <4>1 DEF FreshEntry, Quick, Longest
    <3>3. CASE lost' = [lost EXCEPT ![c] = misses] /\ UNCHANGED <<age, slow>>
      <4>1. lost'[c] = misses /\ age'[c] = age[c] /\ c \notin slow
        BY <2>2, <3>3 DEF IInv, TypeOK
      <4>2. ASSUME misses = 1
            PROVE  age[c] # ABSENT /\ 2 * age[c] <= Timeout
        <5>1. age[c] # ABSENT /\ age[c] <= since[c] /\ 2 * since[c] <= Timeout
          BY <4>1, <4>2, NotExpired DEF IInv, EntryAge, FreshEntry
        <5>2. age[c] \in Nat /\ since[c] \in Nat
          BY <5>1 DEF IInv, TypeOK
        <5> QED BY <5>1, <5>2
      <4> QED BY <1>2, <2>2, <3>1, <4>1, <4>2 DEF FreshEntry, Quick, Longest
    <3> QED BY <3>2, <3>3 DEF Register
  <2> QED BY <2>1, <2>2
<1> QED BY <1>1, <1>4, <1>5 DEF IInv

LEMMA StepInvariance == IInv /\ [Next]_vars => IInv'
<1> SUFFICES ASSUME IInv, [Next]_vars PROVE IInv'
  OBVIOUS
<1> USE TimeAssumption, AbsentAssumption
<1>1. CASE Tick
  <2>1. TypeOK'
    <3>1. age' \in [Clients -> Nat \cup {ABSENT}]
      BY <1>1 DEF IInv, TypeOK, Tick, Older, Expired
    <3>2. since' \in [Clients -> Nat] /\ cpc' = cpc /\ lost' = lost /\ listens' = listens
      BY <1>1 DEF IInv, TypeOK, Tick, Counts
    <3>3. wait' \in [Clients -> 0 .. Poll]
      BY <1>1 DEF IInv, TypeOK, Tick
    <3>4. held' \in [Clients -> 0 .. MaxHeld] /\ slow' \subseteq Clients
      BY <1>1 DEF IInv, TypeOK, Tick, Counts
    <3> QED BY <3>1, <3>2, <3>3, <3>4 DEF IInv, TypeOK
  <2>2. Renews'
    BY <1>1 DEF IInv, TypeOK, Renews, Tick, Counts
  <2>3. EntryAge'
    <3> SUFFICES ASSUME NEW c \in Clients, cpc'[c] # "off", c \notin slow'
                 PROVE  FreshEntry(c)'
      BY DEF EntryAge
    <3>1. cpc[c] \in {"recv", "call"} /\ c \notin slow /\ cpc'[c] = cpc[c] /\ lost'[c] = lost[c]
      BY <1>1 DEF Tick, IInv, TypeOK
    <3>2. FreshEntry(c)
      BY <3>1 DEF IInv, EntryAge
    <3>3. Quick(held'[c])
      <4>1. CASE cpc[c] = "call"
        BY <1>1, <4>1 DEF Tick
      <4>2. CASE cpc[c] = "recv"
        <5>1. held'[c] = held[c]
          BY <1>1, <4>2 DEF Tick
        <5> QED BY <3>2, <5>1 DEF FreshEntry
      <4> QED BY <3>1, <4>1, <4>2
    <3>4. since'[c] = since[c] + 1
      <4>1. ASSUME cpc[c] = "call" PROVE held[c] < MaxHeld
        <5>1. held[c] \in 0 .. MaxHeld
          BY DEF IInv, TypeOK
        <5>2. held[c] # MaxHeld
          BY <3>2, HeldAssumption DEF FreshEntry
        <5> QED BY <5>1, <5>2
      <4> QED BY <1>1, <3>1, <4>1 DEF Tick, Counts
    <3>5. age[c] # ABSENT => age'[c] # ABSENT /\ age'[c] <= age[c] + 1 /\ age'[c] \in Nat
      BY <1>1 DEF Tick, Older, Expired, IInv, TypeOK
    <3>6. since[c] \in Nat /\ age[c] \in Nat \cup {ABSENT}
      BY DEF IInv, TypeOK
    <3>7. FreshEntry(c)' = (/\ Quick(held'[c])
                            /\ lost'[c] = 0 => age'[c] # ABSENT /\ age'[c] <= since'[c]
                            /\ lost'[c] = 1 => age'[c] # ABSENT
                                               /\ 2 * age'[c] <= Timeout + 2 * since'[c])
      BY DEF FreshEntry, Quick, Longest
    <3> HIDE DEF Quick, FreshEntry
    <3> QED BY <3>1, <3>2, <3>3, <3>4, <3>5, <3>6, <3>7 DEF FreshEntry
  <2> QED BY <2>1, <2>2, <2>3 DEF IInv
<1>2. CASE Packet
  <2>1. TypeOK'
    BY <1>2 DEF IInv, TypeOK, Packet, clientVars
  <2>2. Renews'
    BY <1>2 DEF IInv, TypeOK, Renews, Packet, clientVars
  <2>3. EntryAge'
    <3> SUFFICES ASSUME NEW c \in Clients, cpc[c] # "off", c \notin slow
                 PROVE  FreshEntry(c)'
      BY <1>2 DEF EntryAge, Packet, clientVars
    <3>1. lost[c] < 2 => age'[c] = age[c]
      BY <1>2, NotExpired DEF Packet
    <3>2. FreshEntry(c)
      BY DEF IInv, EntryAge
    <3> QED BY <1>2, <3>1, <3>2 DEF FreshEntry, Quick, Longest, Packet, clientVars
  <2> QED BY <2>1, <2>2, <2>3 DEF IInv
<1>3. CASE Restart
  <2>1. TypeOK'
    BY <1>3 DEF IInv, TypeOK, Restart, clientVars
  <2>2. Renews'
    BY <1>3 DEF IInv, Renews, Restart, clientVars
  <2>3. EntryAge'
    BY <1>3 DEF IInv, TypeOK, EntryAge, FreshEntry, Quick, Longest, Restart, clientVars
  <2> QED BY <2>1, <2>2, <2>3 DEF IInv
<1>4. CASE RegLoopEnds
  BY <1>4 DEF IInv, TypeOK, Renews, EntryAge, FreshEntry, Quick, Longest, RegLoopEnds, clientVars
<1>5. ASSUME NEW c \in Clients, Start(c) PROVE IInv'
  BY <1>5, RegisterKeeps DEF Start
<1>6. ASSUME NEW c \in Clients, RecvTimeout(c) \/ RecvPacket(c) \/ Return(c) PROVE IInv'
  <2>1. cpc[c] # "off" /\ UNCHANGED <<age, listens, since, wait, held, lost, slow>>
    BY <1>6 DEF RecvTimeout, RecvPacket, Return
  <2>2. cpc' \in [Clients -> {"off", "recv", "call", "check"}]
    BY <1>6 DEF RecvTimeout, RecvPacket, Return, IInv, TypeOK
  <2>3. \A d \in Clients : cpc'[d] # "off" => cpc[d] # "off"
    BY <1>6, <2>1 DEF RecvTimeout, RecvPacket, Return, IInv, TypeOK
  <2>4. TypeOK'
    BY <2>1, <2>2 DEF IInv, TypeOK
  <2>5. Renews'
    BY <2>1, <2>3 DEF IInv, Renews
  <2>6. EntryAge'
    BY <2>1, <2>3 DEF IInv, EntryAge, FreshEntry, Quick, Longest
  <2> QED BY <2>4, <2>5, <2>6 DEF IInv
<1>7. ASSUME NEW c \in Clients, Check(c) PROVE IInv'
  <2>1. CASE since[c] > Period
    <3>1. PICK misses \in {1, 2} : misses = IF lost[c] = 0 THEN 1 ELSE 2
      OBVIOUS
    <3>2. Register(c, misses) /\ Enter(c, "recv") /\ UNCHANGED listens /\ cpc[c] # "off"
      BY <1>7, <2>1, <3>1 DEF Check
    <3>3. misses = 1 => lost[c] = 0
      BY <3>1
    <3> QED BY <3>2, <3>3, RegisterKeeps
  <2>2. CASE ~(since[c] > Period)
    <3>1. UNCHANGED <<age, since, lost, slow, listens>> /\ Enter(c, "recv") /\ cpc[c] = "check"
      BY <1>7, <2>2 DEF Check
    <3>2. TypeOK'
      BY <3>1 DEF IInv, TypeOK, Enter
    <3>3. Renews'
      BY <2>2, <3>1 DEF IInv, TypeOK, Renews, Enter
    <3>4. EntryAge'
      BY <3>1, OneLossAssumption DEF IInv, TypeOK, EntryAge, FreshEntry, Quick, Longest, Enter
    <3> QED BY <3>2, <3>3, <3>4 DEF IInv
  <2> QED BY <2>1, <2>2
<1>8. ASSUME NEW c \in Clients, Stop(c) PROVE IInv'
  <2>1. TypeOK'
    BY <1>8 DEF IInv, TypeOK, Stop, Enter
  <2>2. Renews'
    BY <1>8 DEF IInv, TypeOK, Renews, Stop, Enter
  <2>3. EntryAge'
    BY <1>8 DEF IInv, TypeOK, EntryAge, FreshEntry, Quick, Longest, Stop, Enter
  <2> QED BY <2>1, <2>2, <2>3 DEF IInv
<1>9. CASE UNCHANGED vars
  BY <1>9 DEF IInv, TypeOK, Renews, EntryAge, FreshEntry, Quick, Longest, vars, clientVars
<1> QED
  BY <1>1, <1>2, <1>3, <1>4, <1>5, <1>6, <1>7, <1>8, <1>9 DEF Next, Receiver

\* The variables keep their types, and the invariant above holds, for any clients.
THEOREM InductiveInvariance == Spec => []IInv
<1>1. Init => IInv
  BY TimeAssumption DEF Init, IInv, TypeOK, Renews, EntryAge
<1> QED BY <1>1, StepInvariance, PTL DEF Spec

\* The state of _video_clients and of every receiver stays within its type.
THEOREM TypeInvariance == Spec => []TypeOK
<1>1. IInv => TypeOK
  BY DEF IInv
<1> QED BY <1>1, InductiveInvariance, PTL

\* VideoReceiver._recv_loop renews its registration within one period, one wait and
\* the call of on_packet it has just made, however long that was.
THEOREM Renewal == Spec => []RenewsInTime
<1>1. IInv => RenewsInTime
  BY TimeAssumption DEF IInv, TypeOK, Renews, RenewsInTime, Longest
<1> QED BY <1>1, InductiveInvariance, PTL

\* A receiver that runs is in _video_clients and is not expired, although one
\* registration in a row is lost and calls of on_packet take time, for all times.
THEOREM Registration == Spec => []StaysRegistered
<1>1. IInv => StaysRegistered
  BY NotExpired DEF StaysRegistered
<1> QED BY <1>1, InductiveInvariance, PTL
=============================================================================

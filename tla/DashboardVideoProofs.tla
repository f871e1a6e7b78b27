------------------------- MODULE DashboardVideoProofs -------------------------
(***************************************************************************)
(* Theorems about DashboardVideo, for any pages, any number of losses and  *)
(* any number of parameter sets.                                           *)
(***************************************************************************)
EXTENDS DashboardVideo, TLAPS

\* As long as nothing was lost, the flag of line 267 is up exactly between a PPS and
\* the picture behind it, and when a picture comes the parameter sets and the
\* configuration are those the drone uses.
FlagInv ==
  /\ next \in {{"sps"}, {"pps"}, {"idr", "intra"}, {"inter", "sps"}}
  /\ version = 0 => next = {"sps"}
  /\ losses = 0 =>
       /\ next \in {{"idr", "intra"}, {"inter", "sps"}} =>
            sps = version /\ pps = version /\ config = <<version, version>>
       /\ next = {"pps"} => sps = version
       /\ nextKey => next = {"idr", "intra"}

\* Versions only grow, from the pages over the configuration and the fields to the
\* drone.  The configuration is never behind the PPS, so that it can differ from
\* the fields only in the SPS, and the keyframe is behind it only under the flag.
VersionInv ==
  /\ sps <= version /\ pps <= version
  /\ config[1] <= sps
  /\ config # NoPair => config[2] = pps
  /\ \A c \in Clients : AtLeast(config, codec[c])
  /\ lastKey # NONE /\ ~nextKey => AtLeast(keyPair, config)

\* The inductive invariant.  KeysStandAlone rests on FlagInv, CacheSound on both,
\* RegistrySound on the types of hpc and peer.
IInv == TypeOK /\ FlagInv /\ VersionInv /\ CacheSound /\ KeysStandAlone /\ RegistrySound

-----------------------------------------------------------------------------
\* The dashboard starts without cache and pages.
LEMMA InitIInv == Init => IInv
<1> SUFFICES ASSUME Init PROVE IInv
  OBVIOUS
<1>0. MaxSets \in Nat \ {0}
  BY BoundsAssumption
<1>p. NoPair \in Pairs /\ NoPair[1] = 0 /\ NoPair[2] = 0
  BY <1>0 DEF NoPair, Pairs
<1>1. TypeOK
  <2>1. /\ version \in 0 .. MaxSets /\ {sps, pps} \subseteq 0 .. MaxSets
        /\ {config, keyPair} \subseteq Pairs
    BY <1>0, <1>p DEF Init
  <2>2. /\ codec \in [Clients -> Pairs] /\ dec \in [Clients -> {NONE, "fresh", "playing"}]
        /\ hpc \in [Clients -> {"off", "config", "key", "register", "loop"}]
        /\ peer \in [Clients -> {"up", "stalled", "gone"}]
    BY <1>p DEF Init
  <2>3. next \subseteq Kinds
    BY DEF Init, Kinds
  <2>4. /\ losses \in Nat /\ nextKey \in BOOLEAN /\ keySent \in BOOLEAN
        /\ vpc \in {"idle", "lock", "push"} /\ msg \in Messages \cup {NONE}
        /\ todo \subseteq Clients /\ wsClients \subseteq Clients
        /\ lastKey \in {"key", "falsekey", NONE}
    BY DEF Init
  <2> QED BY <2>1, <2>2, <2>3, <2>4 DEF TypeOK
<1>2. FlagInv
  <2>1. next = {"sps"} /\ version = 0 /\ nextKey = FALSE
    BY DEF Init
  <2>2. "sps" \notin {"idr", "intra"} /\ "idr" \notin {"inter", "sps"} /\ "sps" # "pps"
        /\ {"inter", "sps"} # {"sps"}
    OBVIOUS
  <2> QED BY <2>1, <2>2 DEF FlagInv
<1>3. VersionInv
  BY <1>p DEF Init, VersionInv, AtLeast
<1>4. CacheSound /\ KeysStandAlone /\ RegistrySound
  BY DEF Init, CacheSound, KeysStandAlone, RegistrySound, NONE
<1> QED BY <1>1, <1>2, <1>3, <1>4 DEF IInv

\* The drone sends some kind after each kind.
LEMMA FollowsTyped ==
  ASSUME NEW k \in Kinds
  PROVE  /\ Follows(k) \subseteq Kinds
         /\ k = "sps" => Follows(k) = {"pps"}
         /\ k = "pps" => Follows(k) = {"idr", "intra"}
         /\ k \in {"idr", "intra", "inter"} => Follows(k) = {"inter", "sps"}
<1>1. CASE k = "sps"
  <2>1. Follows(k) = {"pps"}
    BY <1>1 DEF Follows
  <2> QED BY <1>1, <2>1 DEF Kinds
<1>2. CASE k = "pps"
  <2>1. Follows(k) = {"idr", "intra"}
    BY <1>2 DEF Follows
  <2> QED BY <1>2, <2>1 DEF Kinds
<1>3. CASE k \notin {"sps", "pps"}
  <2>1. Follows(k) = {"inter", "sps"}
    BY <1>3 DEF Follows
  <2> QED BY <1>3, <2>1 DEF Kinds
<1> QED BY <1>1, <1>2, <1>3

\* The drone's next unit: its version is the last one or newer, and is not zero.
LEMMA EmitTyped ==
  ASSUME TypeOK, FlagInv, NEW k \in next, Emit(k)
  PROVE  /\ k \in Kinds /\ next' = Follows(k) /\ next' \subseteq Kinds
         /\ version \in Nat /\ version' \in 1 .. MaxSets /\ version' >= version
         /\ k # "sps" => version' = version
<1>0. MaxSets \in Nat \ {0} /\ version \in 0 .. MaxSets
  BY BoundsAssumption DEF TypeOK
<1>1. k \in Kinds
  BY DEF TypeOK
<1>2. next' = Follows(k) /\ next' \subseteq Kinds
  BY <1>1, FollowsTyped DEF Emit
<1>3. CASE k = "sps"
  <2>1. version' \in {version, version + 1} \cap (1 .. MaxSets)
    BY <1>3 DEF Emit
  <2> QED BY <1>0, <1>1, <1>2, <1>3, <2>1
<1>4. CASE k # "sps"
  <2>1. version' = version
    BY <1>4 DEF Emit
  <2>2. version # 0
    BY <1>4 DEF FlagInv
  <2> QED BY <1>0, <1>1, <1>2, <2>1, <2>2
<1> QED BY <1>3, <1>4

\* A pair is made of two versions.
LEMMA PairOf ==
  ASSUME NEW p \in Pairs
  PROVE  p[1] \in Nat /\ p[2] \in Nat /\ p = <<p[1], p[2]>>
BY BoundsAssumption DEF Pairs

\* An SPS: it is not older than the one before, nor than the configuration's.
LEMMA SpsKeeps ==
  ASSUME IInv, NEW k \in next, Emit(k), k = "sps", TakeSps,
         UNCHANGED <<losses, todo, wsClients, hpc, peer, codec, dec>>
  PROVE  IInv'
<1>0. TypeOK /\ FlagInv /\ VersionInv /\ CacheSound /\ KeysStandAlone /\ RegistrySound
  BY DEF IInv
<1>1. /\ next' = {"pps"} /\ next' \subseteq Kinds
      /\ version \in Nat /\ version' \in 1 .. MaxSets /\ version' >= version
  BY <1>0, EmitTyped, FollowsTyped
<1>2. sps' = version' /\ UNCHANGED <<pps, config, nextKey, keySent, lastKey, keyPair, vpc, msg>>
  BY DEF TakeSps
<1>3. sps \in Nat /\ pps \in Nat /\ config[1] \in Nat /\ MaxSets \in Nat
  BY <1>0, PairOf, BoundsAssumption DEF TypeOK
<1>4. TypeOK'
  <2>1. sps' \in 0 .. MaxSets /\ version' \in 0 .. MaxSets
    BY <1>1, <1>2, <1>3
  <2> QED BY <1>0, <1>1, <1>2, <2>1 DEF TypeOK
<1>5. FlagInv'
  <2>1. version' # 0
    BY <1>1, <1>3
  <2>2. "pps" \notin {"idr", "intra"} /\ "pps" \notin {"inter", "sps"}
    OBVIOUS
  <2>3. losses = 0 => ~nextKey
    <3>1. CASE next = {"idr", "intra"}
      BY <3>1
    <3> QED BY <1>0, <3>1 DEF FlagInv
  <2> QED BY <1>1, <1>2, <2>1, <2>2, <2>3 DEF FlagInv
<1>6. VersionInv'
  BY <1>0, <1>1, <1>2, <1>3 DEF VersionInv
<1>7. CacheSound'
  <2>1. sps # config[1] => sps' # config[1]
    BY <1>0, <1>1, <1>2, <1>3 DEF VersionInv
  <2> QED BY <1>0, <1>2, <2>1 DEF CacheSound
<1>8. KeysStandAlone' /\ RegistrySound'
  BY <1>0, <1>2 DEF KeysStandAlone, RegistrySound
<1> QED BY <1>4, <1>5, <1>6, <1>7, <1>8 DEF IInv

\* A PPS: it raises the flag, under which the keyframe may be older.
LEMMA PpsKeeps ==
  ASSUME IInv, NEW k \in next, Emit(k), k = "pps", TakePps,
         UNCHANGED <<losses, todo, wsClients, hpc, peer, codec, dec>>
  PROVE  IInv'
<1>0. TypeOK /\ FlagInv /\ VersionInv /\ CacheSound /\ KeysStandAlone /\ RegistrySound
  BY DEF IInv
<1>1. /\ next' = {"idr", "intra"} /\ next' \subseteq Kinds
      /\ version \in Nat /\ version' \in 1 .. MaxSets /\ version' = version
  BY <1>0, EmitTyped, FollowsTyped
<1>2. /\ pps' = version /\ nextKey' = TRUE
      /\ config' = IF sps # 0 THEN <<sps, version>> ELSE config
      /\ UNCHANGED <<sps, keySent, lastKey, keyPair, vpc, msg>>
  BY <1>1 DEF TakePps
<1>3. /\ MaxSets \in Nat /\ sps \in 0 .. MaxSets /\ pps \in 0 .. MaxSets
      /\ config \in Pairs /\ config[1] \in Nat /\ config[2] \in Nat
      /\ sps <= version /\ pps <= version /\ config[1] <= sps
      /\ config # NoPair => config[2] = pps
  BY <1>0, PairOf, BoundsAssumption DEF TypeOK, VersionInv
<1>n. NoPair[1] = 0 /\ NoPair[2] = 0
  BY DEF NoPair
<1>4. /\ config' \in Pairs /\ config'[1] <= sps /\ (config' # NoPair => config'[2] = version)
      /\ AtLeast(config', config) /\ (config' = NoPair \/ 0 \notin {config'[1], config'[2]})
  <2>1. CASE sps # 0
    BY <1>1, <1>2, <1>3, <1>n, <2>1 DEF Pairs, AtLeast
  <2>2. CASE sps = 0
    <3>1. config' = config /\ config[1] = 0
      BY <1>2, <1>3, <2>2
    <3>2. config = NoPair
      BY <1>0, <3>1 DEF CacheSound
    <3> QED BY <1>3, <1>n, <3>1, <3>2 DEF AtLeast
  <2> QED BY <2>1, <2>2
<1>5. TypeOK'
  <2>1. pps' \in 0 .. MaxSets /\ version' \in 0 .. MaxSets
    BY <1>1, <1>2, <1>3
  <2> QED BY <1>0, <1>1, <1>2, <1>4, <2>1 DEF TypeOK
<1>6. FlagInv'
  <2>1. version' # 0
    BY <1>1, <1>3
  <2>2. losses = 0 => sps = version
    <3>1. CASE next = {"pps"}
      BY <1>0, <3>1 DEF FlagInv
    <3> QED BY <1>0, <3>1 DEF FlagInv
  <2>3. losses = 0 => config' = <<version, version>>
    BY <1>1, <1>2, <1>3, <2>2
  <2>4. {"idr", "intra"} # {"pps"}
    OBVIOUS
  <2> QED BY <1>1, <1>2, <2>1, <2>2, <2>3, <2>4 DEF FlagInv
<1>7. VersionInv'
  <2>1. ASSUME NEW c \in Clients PROVE AtLeast(config', codec'[c])
    <3>1. codec[c] \in Pairs /\ codec'[c] = codec[c] /\ AtLeast(config, codec[c])
      BY <1>0 DEF TypeOK, VersionInv
    <3>2. /\ codec[c][1] \in Nat /\ codec[c][2] \in Nat
          /\ config'[1] \in Nat /\ config'[2] \in Nat
      BY <1>4, <3>1, PairOf
    <3> QED BY <1>3, <1>4, <3>1, <3>2 DEF AtLeast
  <2> QED BY <1>1, <1>2, <1>3, <1>4, <2>1 DEF VersionInv
<1>8. CacheSound'
  BY <1>0, <1>2, <1>4 DEF CacheSound
<1>9. KeysStandAlone' /\ RegistrySound'
  BY <1>0, <1>2 DEF KeysStandAlone, RegistrySound
<1> QED BY <1>5, <1>6, <1>7, <1>8, <1>9 DEF IInv

\* A keyframe: it takes the fields, which are the configuration's but for an SPS
\* whose PPS was lost.
LEMMA KeyKeeps ==
  ASSUME IInv, NEW k \in next, Emit(k), TakeKey(k),
         k = "idr" \/ (k \in {"intra", "inter"} /\ nextKey),
         UNCHANGED <<losses, todo, wsClients, hpc, peer, codec, dec>>
  PROVE  IInv'
<1>0. TypeOK /\ FlagInv /\ VersionInv /\ CacheSound /\ KeysStandAlone /\ RegistrySound
  BY DEF IInv
<1>1. /\ next' = {"inter", "sps"} /\ next' \subseteq Kinds
      /\ version \in Nat /\ version' \in 1 .. MaxSets /\ version' = version
  BY <1>0, EmitTyped, FollowsTyped
<1>2. next # {"sps"} /\ next # {"pps"}
  OBVIOUS
<1>3. losses = 0 => sps = version /\ pps = version /\ config = <<version, version>>
  BY <1>0, <1>2 DEF FlagInv
<1>4. losses = 0 => k # "inter"
  <2>1. CASE next = {"idr", "intra"}
    BY <2>1
  <2>2. CASE next = {"inter", "sps"}
    <3>1. k = "inter" /\ nextKey
      BY <2>2
    <3> QED BY <1>0, <2>2, <3>1 DEF FlagInv
  <2> QED BY <1>0, <1>2, <2>1, <2>2 DEF FlagInv
<1>5. /\ MaxSets \in Nat /\ sps \in 0 .. MaxSets /\ pps \in 0 .. MaxSets /\ losses \in Nat
      /\ config \in Pairs /\ config[1] \in Nat /\ config[2] \in Nat
      /\ config = <<config[1], config[2]>>
      /\ sps <= version /\ pps <= version /\ config[1] <= sps
      /\ config # NoPair => config[2] = pps
  BY <1>0, PairOf, BoundsAssumption DEF TypeOK, VersionInv
<1>6. version' # 0 /\ version' \in 0 .. MaxSets
  BY <1>1, <1>5
<1>7. {"inter", "sps"} # {"pps"} /\ {"inter", "sps"} # {"idr", "intra"}
  OBVIOUS
<1>8. CASE sps # 0 /\ pps # 0
  <2>1. /\ msg' = KeyOf(k) /\ lastKey' = msg' /\ keyPair' = <<sps, pps>>
        /\ keySent' = TRUE /\ nextKey' = FALSE /\ vpc' = "lock"
        /\ UNCHANGED <<sps, pps, config>>
    BY <1>8 DEF TakeKey
  <2>2. msg' \in {"key", "falsekey"} /\ (losses = 0 => msg' = "key")
    BY <1>1, <1>3, <1>4, <2>1 DEF KeyOf
  <2>3. keyPair' \in Pairs
    BY <1>5, <2>1 DEF Pairs
  <2>4. TypeOK'
    BY <1>0, <1>1, <1>6, <2>1, <2>2, <2>3 DEF TypeOK, Messages
  <2>5. FlagInv'
    BY <1>1, <1>3, <1>6, <1>7, <2>1 DEF FlagInv
  <2>6. AtLeast(keyPair', config)
    <3>1. config[2] <= pps
      BY <1>5 DEF NoPair
    <3> QED BY <1>5, <2>1, <3>1 DEF AtLeast
  <2>7. VersionInv'
    BY <1>0, <1>1, <2>1, <2>6 DEF VersionInv
  <2>8. CacheSound'
    <3>1. \/ keyPair' = config /\ config # NoPair
          \/ sps # config[1] /\ losses > 0
      <4>1. CASE sps = config[1]
        <5>1. config # NoPair
          BY <1>8, <4>1 DEF NoPair
        <5>2. config[2] = pps
          BY <1>5, <5>1
        <5> QED BY <1>5, <2>1, <4>1, <5>1, <5>2
      <4>2. CASE sps # config[1]
        <5>1. losses # 0
          BY <1>3, <4>2
        <5> QED BY <1>5, <4>2, <5>1
      <4> QED BY <4>1, <4>2
    <3>2. ASSUME NEW c \in Clients PROVE AtLeast(keyPair', codec[c])
      <4>1. codec[c] \in Pairs /\ AtLeast(config, codec[c])
        BY <1>0 DEF TypeOK, VersionInv
      <4>2. /\ codec[c][1] \in Nat /\ codec[c][2] \in Nat
            /\ keyPair'[1] \in Nat /\ keyPair'[2] \in Nat
        BY <2>3, <4>1, PairOf
      <4> QED BY <1>5, <2>6, <4>1, <4>2 DEF AtLeast
    <3>3. lastKey' # NONE /\ (config = NoPair \/ 0 \notin {config[1], config[2]})
      BY <1>0, <2>1, <2>2 DEF CacheSound, NONE
    <3> QED BY <2>1, <3>1, <3>2, <3>3 DEF CacheSound
  <2>9. KeysStandAlone' /\ RegistrySound'
    <3>1. losses = 0 => "falsekey" \notin {msg', lastKey'}
      BY <2>1, <2>2
    <3>2. losses # 0 => losses > 0
      BY <1>5
    <3> QED BY <1>0, <3>1, <3>2 DEF KeysStandAlone, RegistrySound
  <2> QED BY <2>4, <2>5, <2>7, <2>8, <2>9 DEF IInv
<1>9. CASE ~(sps # 0 /\ pps # 0)
  <2>1. UNCHANGED <<sps, pps, config, nextKey, keySent, lastKey, keyPair, vpc, msg>>
    BY <1>9 DEF TakeKey, cacheVars
  <2>2. losses # 0
    BY <1>1, <1>3, <1>9
  <2>3. TypeOK'
    BY <1>0, <1>1, <1>6, <2>1 DEF TypeOK
  <2>4. FlagInv'
    BY <1>1, <1>6, <2>2 DEF FlagInv
  <2>5. VersionInv' /\ CacheSound' /\ KeysStandAlone' /\ RegistrySound'
    BY <1>0, <1>1, <2>1 DEF VersionInv, CacheSound, KeysStandAlone, RegistrySound
  <2> QED BY <2>3, <2>4, <2>5 DEF IInv
<1> QED BY <1>8, <1>9

\* A picture that goes out as a delta changes no field.
LEMMA DeltaKeeps ==
  ASSUME IInv, NEW k \in next, Emit(k), TakeDelta, k \in {"intra", "inter"}, ~nextKey,
         UNCHANGED <<losses, todo, wsClients, hpc, peer, codec, dec>>
  PROVE  IInv'
<1>0. TypeOK /\ FlagInv /\ VersionInv /\ CacheSound /\ KeysStandAlone /\ RegistrySound
  BY DEF IInv
<1>1. /\ next' = {"inter", "sps"} /\ next' \subseteq Kinds
      /\ version' \in 1 .. MaxSets /\ version' = version
  BY <1>0, EmitTyped, FollowsTyped
<1>2. /\ UNCHANGED <<sps, pps, config, nextKey, keySent, lastKey, keyPair>>
      /\ \/ keySent /\ msg' = "delta" /\ vpc' = "lock"
         \/ UNCHANGED <<msg, vpc>>
  BY <1>0 DEF TakeDelta, cacheVars, TypeOK
<1>3. next # {"sps"} /\ next # {"pps"} /\ {"inter", "sps"} # {"pps"}
  OBVIOUS
<1>4. version' # 0 /\ version' \in 0 .. MaxSets
  BY <1>1, BoundsAssumption
<1>5. TypeOK'
  BY <1>0, <1>1, <1>2, <1>4 DEF TypeOK, Messages
<1>6. FlagInv'
  BY <1>0, <1>1, <1>2, <1>3, <1>4 DEF FlagInv
<1>7. VersionInv' /\ CacheSound' /\ KeysStandAlone' /\ RegistrySound'
  BY <1>0, <1>1, <1>2 DEF VersionInv, CacheSound, KeysStandAlone, RegistrySound, NONE
<1> QED BY <1>5, <1>6, <1>7 DEF IInv

\* The caches and flags of _handle_nal, for each kind of unit.
LEMMA HandleNalKeeps ==
  ASSUME IInv, HandleNal
  PROVE  IInv'
<1>1. UNCHANGED <<losses, todo, wsClients, hpc, peer, codec, dec>>
  BY DEF HandleNal, pageVars
<1>2. PICK k \in next :
        /\ Emit(k)
        /\ \/ k = "sps" /\ TakeSps
           \/ k = "pps" /\ TakePps
           \/ k = "idr" /\ TakeKey(k)
           \/ k \in {"intra", "inter"} /\ nextKey /\ TakeKey(k)
           \/ k \in {"intra", "inter"} /\ ~nextKey /\ TakeDelta
  BY DEF HandleNal
<1> QED BY <1>1, <1>2, SpsKeeps, PpsKeeps, KeyKeeps, DeltaKeeps

\* Losing a packet only takes the premise away.
LEMMA LosePacketKeeps ==
  ASSUME IInv, LosePacket
  PROVE  IInv'
<1>0. TypeOK /\ FlagInv /\ VersionInv /\ CacheSound /\ KeysStandAlone /\ RegistrySound
  BY DEF IInv
<1> USE DEF videoVars, cacheVars, pageVars
<1>1. PICK k \in next : Emit(k)
  BY DEF LosePacket
<1>2. /\ next' = Follows(k) /\ next' \subseteq Kinds /\ k \in Kinds
      /\ version \in Nat /\ version' \in 1 .. MaxSets /\ version' >= version
  BY <1>0, <1>1, EmitTyped
<1>3. losses' \in Nat /\ losses' > 0 /\ losses' # 0 /\ losses \in Nat
  BY <1>0 DEF LosePacket, TypeOK
<1>4. /\ version' # 0 /\ version' \in 0 .. MaxSets
      /\ sps \in Nat /\ pps \in Nat
  BY <1>0, <1>2, BoundsAssumption DEF TypeOK
<1>5. TypeOK'
  BY <1>0, <1>2, <1>3, <1>4 DEF LosePacket, TypeOK
<1>6. FlagInv'
  <2>1. next' \in {{"sps"}, {"pps"}, {"idr", "intra"}, {"inter", "sps"}}
    BY <1>2, FollowsTyped DEF Kinds
  <2> QED BY <1>3, <1>4, <2>1 DEF FlagInv
<1>7. VersionInv'
  BY <1>0, <1>2, <1>4 DEF LosePacket, VersionInv
<1>8. CacheSound' /\ KeysStandAlone' /\ RegistrySound'
  BY <1>0, <1>3 DEF LosePacket, CacheSound, KeysStandAlone, RegistrySound
<1> QED BY <1>5, <1>6, <1>7, <1>8 DEF IInv

\* The messages of the video thread: a page that is gone leaves the list.
LEMMA PushKeeps ==
  ASSUME IInv, PushBegin \/ PushEnd \/ \E c \in Clients : PushTo(c)
  PROVE  IInv'
<1>0. TypeOK /\ FlagInv /\ VersionInv /\ CacheSound /\ KeysStandAlone /\ RegistrySound
  BY DEF IInv
<1> USE DEF droneVars, cacheVars, pageVars
<1>1. CASE PushBegin
  <2>1. TypeOK'
    BY <1>0, <1>1 DEF PushBegin, TypeOK
  <2>2. FlagInv' /\ VersionInv' /\ CacheSound' /\ KeysStandAlone' /\ RegistrySound'
    BY <1>0, <1>1 DEF PushBegin, FlagInv, VersionInv, CacheSound, KeysStandAlone, RegistrySound
  <2> QED BY <2>1, <2>2 DEF IInv
<1>2. CASE PushEnd
  <2>1. TypeOK'
    BY <1>0, <1>2 DEF PushEnd, TypeOK
  <2>2. FlagInv' /\ VersionInv' /\ CacheSound' /\ KeysStandAlone' /\ RegistrySound'
    BY <1>0, <1>2 DEF PushEnd, FlagInv, VersionInv, CacheSound, KeysStandAlone, RegistrySound, NONE
  <2> QED BY <2>1, <2>2 DEF IInv
<1>3. ASSUME NEW c \in Clients, PushTo(c)
      PROVE  IInv'
  <2>1. /\ UNCHANGED <<next, version, losses, vpc, msg, sps, pps, config, nextKey, keySent, lastKey, keyPair, hpc, peer>>
        /\ todo' = todo \ {c}
        /\ \/ peer[c] = "up" /\ Show(c, msg) /\ UNCHANGED wsClients
           \/ peer[c] = "gone" /\ wsClients' = wsClients \ {c} /\ UNCHANGED pageVars
    BY <1>0, <1>3 DEF PushTo, TypeOK
  <2>2. dec' \in [Clients -> {NONE, "fresh", "playing"}] /\ codec' = codec
    BY <1>0, <2>1 DEF Show, Decode, TypeOK, NONE
  <2>3. TypeOK'
    BY <1>0, <2>1, <2>2 DEF TypeOK
  <2>4. FlagInv' /\ VersionInv' /\ CacheSound' /\ KeysStandAlone'
    BY <1>0, <2>1, <2>2 DEF FlagInv, VersionInv, CacheSound, KeysStandAlone
  <2>5. RegistrySound'
    BY <1>0, <2>1 DEF RegistrySound
  <2> QED BY <2>3, <2>4, <2>5 DEF IInv
<1> QED BY <1>1, <1>2, <1>3

\* What the handlers and the pages do leaves the video thread and its cache alone.
LEMMA PageKeeps ==
  ASSUME IInv, NEW c \in Clients, Handler(c) \/ Page(c)
  PROVE  IInv'
<1>0. TypeOK /\ FlagInv /\ VersionInv /\ CacheSound /\ KeysStandAlone /\ RegistrySound
  BY DEF IInv
<1> USE DEF droneVars, videoVars, cacheVars, pageVars
<1>1. UNCHANGED <<next, version, losses, vpc, msg, todo, sps, pps, config, nextKey, keySent, lastKey,
                keyPair>>
  BY DEF Handler, SendConfig, SendKey, Register, Leave,
         Page, Connect, Disconnect, ClosePage, Stall, StallEnds, DecoderFails
<1>2. FlagInv' /\ KeysStandAlone'
  BY <1>0, <1>1 DEF FlagInv, KeysStandAlone
<1>3. /\ dec' \in [Clients -> {NONE, "fresh", "playing"}] /\ codec' \in [Clients -> Pairs]
  <2>0. /\ dec \in [Clients -> {NONE, "fresh", "playing"}] /\ codec \in [Clients -> Pairs]
        /\ config \in Pairs /\ NoPair \in Pairs
    BY <1>0, BoundsAssumption DEF TypeOK, Pairs, NoPair
  <2>1. CASE UNCHANGED pageVars
    BY <2>0, <2>1
  <2>2. CASE Configure(c) \/ (ClosePage(c) \/ DecoderFails(c))
    BY <2>0, <2>2 DEF Configure, ClosePage, DecoderFails
  <2>3. CASE Show(c, lastKey)
    BY <2>0, <2>3 DEF Show, Decode, NONE
  <2> QED BY <2>1, <2>2, <2>3
          DEF Handler, SendConfig, SendKey, Send, Register, Leave,
              Page, Connect, Disconnect, ClosePage, Stall, StallEnds, DecoderFails
<1>4. /\ hpc' \in [Clients -> {"off", "config", "key", "register", "loop"}]
      /\ peer' \in [Clients -> {"up", "stalled", "gone"}]
      /\ wsClients' \subseteq Clients
  <2>0. /\ hpc \in [Clients -> {"off", "config", "key", "register", "loop"}]
        /\ peer \in [Clients -> {"up", "stalled", "gone"}]
        /\ wsClients \subseteq Clients
    BY <1>0 DEF TypeOK
  <2>1. CASE Handler(c)
    BY <2>0, <2>1 DEF Handler, SendConfig, SendKey, Send, Register, Leave
  <2>2. CASE Page(c)
    BY <2>0, <2>2 DEF Page, Connect, Disconnect, ClosePage, Stall, StallEnds, DecoderFails
  <2> QED BY <2>1, <2>2
<1>5. TypeOK'
  BY <1>0, <1>1, <1>3, <1>4 DEF TypeOK
<1>6. RegistrySound'
  <2>0. /\ hpc \in [Clients -> {"off", "config", "key", "register", "loop"}]
        /\ peer \in [Clients -> {"up", "stalled", "gone"}]
    BY <1>0 DEF TypeOK
  <2>1. CASE Handler(c)
    BY <1>0, <2>0, <2>1 DEF Handler, SendConfig, SendKey, Send, Register, Leave, RegistrySound
  <2>2. CASE Page(c)
    BY <1>0, <2>0, <2>2
       DEF Page, Connect, Disconnect, ClosePage, Stall, StallEnds, DecoderFails, RegistrySound
  <2> QED BY <2>1, <2>2
<1>7. VersionInv'
  <2>1. ASSUME NEW d \in Clients PROVE AtLeast(config, codec'[d])
    <3>1. codec[d] \in Pairs /\ config \in Pairs /\ codec \in [Clients -> Pairs]
          /\ AtLeast(config, codec[d])
      BY <1>0 DEF TypeOK, VersionInv
    <3>2. AtLeast(config, config) /\ AtLeast(config, NoPair)
      BY <3>1, PairOf DEF AtLeast, NoPair
    <3>3. codec'[d] \in {codec[d], config, NoPair}
      <4>1. \/ codec' = codec
            \/ codec' = [codec EXCEPT ![c] = config]
            \/ codec' = [codec EXCEPT ![c] = NoPair]
        BY DEF Handler, SendConfig, SendKey, Send, Show, Configure, Register, Leave,
               Page, Connect, Disconnect, ClosePage, Stall, StallEnds, DecoderFails
      <4> QED BY <3>1, <4>1
    <3> QED BY <3>1, <3>2, <3>3
  <2> QED BY <1>0, <1>1, <2>1 DEF VersionInv
<1>8. CacheSound'
  <2>1. ASSUME NEW d \in Clients, lastKey # NONE, ~nextKey PROVE AtLeast(keyPair, codec'[d])
    <3>1. AtLeast(keyPair, config) /\ AtLeast(config, codec'[d])
      BY <1>0, <1>1, <1>7, <2>1 DEF VersionInv
    <3>2. codec'[d] \in Pairs /\ config \in Pairs /\ keyPair \in Pairs
      BY <1>0, <1>5 DEF TypeOK
    <3> QED BY <3>1, <3>2, PairOf DEF AtLeast
  <2> QED BY <1>0, <1>1, <2>1 DEF CacheSound
<1> QED BY <1>2, <1>5, <1>6, <1>7, <1>8 DEF IInv

-----------------------------------------------------------------------------
(* The theorems *)

LEMMA Inductive == Spec => []IInv
<1>1. IInv /\ UNCHANGED vars => IInv'
  BY DEF IInv, vars, droneVars, videoVars, cacheVars, pageVars, TypeOK, FlagInv, VersionInv,
         CacheSound, KeysStandAlone, RegistrySound
<1>2. IInv /\ [Next]_vars => IInv'
  BY <1>1, HandleNalKeeps, LosePacketKeeps, PushKeeps, PageKeeps DEF Next, Video
<1> QED BY InitIInv, <1>2, PTL DEF Spec

\* The variables keep their types.
THEOREM TypeInvariance == Spec => []TypeOK
<1>1. IInv => TypeOK
  BY DEF IInv
<1> QED BY Inductive, <1>1, PTL

\* The fields of _handle_nal belong together whenever a handler reads them, and to what
\* it read before.
THEOREM CacheIsSound == Spec => []CacheSound
<1>1. IInv => CacheSound
  BY DEF IInv
<1> QED BY Inductive, <1>1, PTL

\* Without losses a picture never goes out as a keyframe that needs others, or other
\* parameter sets than those before it.
THEOREM KeyframesStandAlone == Spec => []KeysStandAlone
<1>1. IInv => KeysStandAlone
  BY DEF IInv
<1> QED BY Inductive, <1>1, PTL

\* _ws_clients holds the live pages whose handlers are through, and no dead handler's.
THEOREM RegistryIsSound == Spec => []RegistrySound
<1>1. IInv => RegistrySound
  BY DEF IInv
<1> QED BY Inductive, <1>1, PTL
===============================================================================

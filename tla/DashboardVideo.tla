--------------------------- MODULE DashboardVideo ---------------------------
(***************************************************************************)
(* The dashboard's video (client/dashboard): NAL units of the drone come   *)
(* in on the video thread, which keeps the parameter sets, the decoder     *)
(* configuration and the last keyframe and pushes every frame to the       *)
(* registered WebSocket clients; a handler thread per client sends the     *)
(* cached configuration and keyframe and registers it; the page's decoder  *)
(* (index.html) consumes them.                                             *)
(*                                                                         *)
(* A NAL unit is its kind and a version: that of the parameter set it is,  *)
(* or of those its picture is coded with.  A lost packet is a unit that    *)
(* never comes.  Messages on one WebSocket arrive in the order they were   *)
(* sent, so a page consumes each as it is sent.                            *)
(***************************************************************************)
EXTENDS Naturals

CONSTANTS Clients,    \* pages that watch the video
          MaxLosses,  \* bounds the packets lost
          MaxSets     \* bounds the parameter sets the drone has one after the other

ASSUME BoundsAssumption == MaxLosses \in Nat /\ MaxSets \in Nat \ {0}

\* "idr" and "intra" are pictures that need no other: of NAL type 5, and of type
\* 1 like the "inter" pictures that follow them.
Kinds    == {"sps", "pps", "idr", "intra", "inter"}
Messages == {"key", "falsekey", "delta"}
NONE     == "none"

\* The versions of an SPS and a PPS, zero where there is none yet.
Pairs  == (0 .. MaxSets) \X (0 .. MaxSets)
NoPair == <<0, 0>>

AtLeast(p, q) == p[1] >= q[1] /\ p[2] >= q[2]

VARIABLES
    \* The drone.
    next,      \* the kinds the drone may send next
    version,   \* of its parameter sets
    losses,    \* packets lost so far
    \* The video thread.
    vpc,       \* "idle", "lock" before _push_video takes the lock, "push"
    msg,       \* the message it pushes
    todo,      \* the clients it has still to send to
    \* The Dashboard object.
    sps, pps,  \* the parameter sets, as versions
    config,    \* the parameter sets in the decoder configuration
    nextKey, keySent,   \* the flags
    lastKey, keyPair,   \* the cached keyframe, and the parameter sets in it
    wsClients, \* _ws_clients, as a set: the order is never used
    \* The connections and the pages.
    hpc,       \* the handler thread: "off", "config", "key", "register", "loop"
    peer,      \* the connection "up", "stalled" with all buffers full, "gone"
    codec,     \* the configuration the page was told last
    dec        \* its decoder: none, "fresh" until a keyframe comes, "playing"

droneVars == <<next, version, losses>>
videoVars == <<vpc, msg, todo>>
cacheVars == <<sps, pps, config, nextKey, keySent, lastKey, keyPair>>
pageVars  == <<codec, dec>>
vars == <<droneVars, videoVars, cacheVars, wsClients, hpc, peer, pageVars>>

Init == /\ next = {"sps"} /\ version = 0 /\ losses = 0
        /\ vpc = "idle" /\ msg = NONE /\ todo = {}
        /\ sps = 0 /\ pps = 0 /\ config = NoPair
        /\ nextKey = FALSE /\ keySent = FALSE
        /\ lastKey = NONE /\ keyPair = NoPair
        /\ wsClients = {}
        /\ hpc = [c \in Clients |-> "off"]
        /\ peer = [c \in Clients |-> "gone"]
        /\ codec = [c \in Clients |-> NoPair]
        /\ dec = [c \in Clients |-> NONE]

LockFree == vpc # "push"

-----------------------------------------------------------------------------
(* The page: what ws.onmessage makes of a message. *)

\* Only a keyframe makes a decoder where there is none, which needs a codec string;
\* the parameter sets it takes from the keyframe.  A decoder that is fresh refuses
\* deltas, and one that is handed a picture as a keyframe that is none, or with
\* other parameter sets than its own, may refuse it or break.
Decode(c, m) ==
    LET base == IF dec[c] = NONE /\ m # "delta" /\ codec[c] # NoPair THEN "fresh" ELSE dec[c]
    IN  IF base = NONE \/ m = "delta" THEN {base}
        ELSE IF m = "key" THEN {"playing"} ELSE {base, NONE}

\* ws.send of a frame to a page that is there.
Show(c, m) == /\ \E d \in Decode(c, m) : dec' = [dec EXCEPT ![c] = d]
              /\ UNCHANGED codec

Configure(c) == /\ codec' = [codec EXCEPT ![c] = config]
                /\ dec' = [dec EXCEPT ![c] = "fresh"]

-----------------------------------------------------------------------------
(* The drone: parameter sets, a picture that stands alone, others. *)

Follows(k) == CASE k = "sps" -> {"pps"}
                [] k = "pps" -> {"idr", "intra"}
                [] OTHER -> {"inter", "sps"}

\* With an SPS it may go over to new parameter sets.
Emit(k) == /\ next' = Follows(k)
           /\ version' \in IF k = "sps" THEN {version, version + 1} \cap (1 .. MaxSets)
                                      ELSE {version}

LosePacket == /\ losses < MaxLosses
              /\ losses' = losses + 1
              /\ \E k \in next : Emit(k)
              /\ UNCHANGED <<videoVars, cacheVars, wsClients, hpc, peer, pageVars>>

-----------------------------------------------------------------------------
(* The video thread: _handle_nal and _push_video *)

TakeSps == /\ sps' = version'
           /\ UNCHANGED <<pps, config, nextKey, keySent, lastKey, keyPair, vpc, msg>>

\* A bug: a configuration that is there is kept.
TakePpsOnce == /\ pps' = version' /\ nextKey' = TRUE
               /\ config' = IF sps # 0 /\ config = NoPair THEN <<sps, pps'>> ELSE config
               /\ UNCHANGED <<sps, keySent, lastKey, keyPair, vpc, msg>>

TakePps == /\ pps' = version' /\ nextKey' = TRUE
           /\ config' = IF sps # 0 THEN <<sps, pps'>> ELSE config
           /\ UNCHANGED <<sps, keySent, lastKey, keyPair, vpc, msg>>

\* A picture can be decoded from a keyframe message if it needs no other and its
\* parameter sets are those before it.
KeyOf(k) == IF k # "inter" /\ sps = version /\ pps = version THEN "key" ELSE "falsekey"

\* A bug: the flag is not taken back.
TakeKeyAgain(k) ==
    IF sps # 0 /\ pps # 0
      THEN /\ msg' = KeyOf(k)
           /\ lastKey' = msg' /\ keyPair' = <<sps, pps>>
           /\ keySent' = TRUE
           /\ vpc' = "lock"
           /\ UNCHANGED <<sps, pps, config, nextKey>>
      ELSE UNCHANGED <<cacheVars, vpc, msg>>

\* The type of a picture is 5, or 1 and a PPS came before: a keyframe.
TakeKey(k) ==
    IF sps # 0 /\ pps # 0
      THEN /\ msg' = KeyOf(k)
           /\ lastKey' = msg' /\ keyPair' = <<sps, pps>>
           /\ keySent' = TRUE /\ nextKey' = FALSE
           /\ vpc' = "lock"
           /\ UNCHANGED <<sps, pps, config>>
      ELSE UNCHANGED <<cacheVars, vpc, msg>>

TakeDelta == /\ IF keySent THEN msg' = "delta" /\ vpc' = "lock" ELSE UNCHANGED <<msg, vpc>>
             /\ UNCHANGED cacheVars

HandleNal ==
    /\ vpc = "idle"
    /\ \E k \in next :
         /\ Emit(k)
         /\ \/ k = "sps" /\ TakeSps
            \/ k = "pps" /\ TakePps
            \/ k = "idr" /\ TakeKey(k)
            \/ k \in {"intra", "inter"} /\ nextKey /\ TakeKey(k)
            \/ k \in {"intra", "inter"} /\ ~nextKey /\ TakeDelta
    /\ UNCHANGED <<losses, todo, wsClients, hpc, peer, pageVars>>

\* A bug: the first client of the list is left out.
PushBeginSkips == /\ vpc = "lock"
                  /\ vpc' = "push"
                  /\ todo' = wsClients \ {CHOOSE c \in Clients : TRUE}
                  /\ UNCHANGED <<droneVars, msg, cacheVars, wsClients, hpc, peer, pageVars>>

PushBegin == /\ vpc = "lock"
             /\ vpc' = "push"
             /\ todo' = wsClients
             /\ UNCHANGED <<droneVars, msg, cacheVars, wsClients, hpc, peer, pageVars>>

\* ws.send waits while the client does not read; a client that is gone is dropped.
PushTo(c) ==
    /\ vpc = "push" /\ c \in todo
    /\ peer[c] # "stalled"
    /\ todo' = todo \ {c}
    /\ IF peer[c] = "up"
         THEN Show(c, msg) /\ UNCHANGED wsClients
         ELSE wsClients' = wsClients \ {c} /\ UNCHANGED pageVars
    /\ UNCHANGED <<droneVars, vpc, msg, cacheVars, hpc, peer>>

PushEnd == /\ vpc = "push" /\ todo = {}
           /\ vpc' = "idle" /\ msg' = NONE
           /\ UNCHANGED <<droneVars, todo, cacheVars, wsClients, hpc, peer, pageVars>>

-----------------------------------------------------------------------------
(* A client's handler thread: _ws_handler *)

\* A send of the handler: it waits for a client that does not read, and an
\* exception ends the thread, which has not registered yet.
Send(c, next_pc, effect) ==
    /\ peer[c] # "stalled"
    /\ IF peer[c] = "up" THEN effect /\ hpc' = [hpc EXCEPT ![c] = next_pc]
                         ELSE hpc' = [hpc EXCEPT ![c] = "off"] /\ UNCHANGED pageVars

SendConfig(c) ==
    /\ hpc[c] = "config"
    /\ IF config # NoPair THEN Send(c, "key", Configure(c))
                 ELSE hpc' = [hpc EXCEPT ![c] = "register"] /\ UNCHANGED pageVars
    /\ UNCHANGED <<droneVars, videoVars, cacheVars, wsClients, peer>>

SendKey(c) ==
    /\ hpc[c] = "key"
    /\ IF lastKey # NONE THEN Send(c, "register", Show(c, lastKey))
                         ELSE hpc' = [hpc EXCEPT ![c] = "register"] /\ UNCHANGED pageVars
    /\ UNCHANGED <<droneVars, videoVars, cacheVars, wsClients, peer>>

Register(c) ==
    /\ hpc[c] = "register" /\ LockFree
    /\ wsClients' = wsClients \cup {c}
    /\ hpc' = [hpc EXCEPT ![c] = "loop"]
    /\ UNCHANGED <<droneVars, videoVars, cacheVars, peer, pageVars>>

\* A bug: the client is not taken out of the list.
LeaveListed(c) ==
    /\ hpc[c] = "loop" /\ peer[c] = "gone" /\ LockFree
    /\ hpc' = [hpc EXCEPT ![c] = "off"]
    /\ UNCHANGED <<droneVars, videoVars, cacheVars, wsClients, peer, pageVars>>

\* The end of the loop over the client's messages, with the finally clause.
Leave(c) ==
    /\ hpc[c] = "loop" /\ peer[c] = "gone" /\ LockFree
    /\ wsClients' = wsClients \ {c}
    /\ hpc' = [hpc EXCEPT ![c] = "off"]
    /\ UNCHANGED <<droneVars, videoVars, cacheVars, peer, pageVars>>

-----------------------------------------------------------------------------
(* The pages and their connections *)

\* connectVideo, of a new page or of one whose connection was closed.
Connect(c) == /\ hpc[c] = "off"
              /\ hpc' = [hpc EXCEPT ![c] = "config"]
              /\ peer' = [peer EXCEPT ![c] = "up"]
              /\ UNCHANGED <<droneVars, videoVars, cacheVars, wsClients, codec, dec>>

\* The connection is closed; the page keeps its codec and its decoder.
Disconnect(c) == /\ hpc[c] # "off" /\ peer[c] # "gone"
                 /\ peer' = [peer EXCEPT ![c] = "gone"]
                 /\ UNCHANGED <<droneVars, videoVars, cacheVars, wsClients, hpc, pageVars>>

\* The page is closed or loaded anew.
ClosePage(c) == /\ hpc[c] # "off" /\ peer[c] # "gone"
                /\ peer' = [peer EXCEPT ![c] = "gone"]
                /\ codec' = [codec EXCEPT ![c] = NoPair]
                /\ dec' = [dec EXCEPT ![c] = NONE]
                /\ UNCHANGED <<droneVars, videoVars, cacheVars, wsClients, hpc>>

Stall(c) == /\ peer[c] = "up"
            /\ peer' = [peer EXCEPT ![c] = "stalled"]
            /\ UNCHANGED <<droneVars, videoVars, cacheVars, wsClients, hpc, pageVars>>

StallEnds(c) == /\ peer[c] = "stalled"
                /\ peer' = [peer EXCEPT ![c] = "up"]
                /\ UNCHANGED <<droneVars, videoVars, cacheVars, wsClients, hpc, pageVars>>

\* The decoder's error callback: a picture it cannot decode.
DecoderFails(c) == /\ dec[c] = "playing"
                   /\ dec' = [dec EXCEPT ![c] = NONE]
                   /\ UNCHANGED <<droneVars, videoVars, cacheVars, wsClients, hpc, peer, codec>>

-----------------------------------------------------------------------------
Video      == HandleNal \/ PushBegin \/ PushEnd \/ \E c \in Clients : PushTo(c)
Handler(c) == SendConfig(c) \/ SendKey(c) \/ Register(c) \/ Leave(c)
Page(c)    == Connect(c) \/ Disconnect(c) \/ ClosePage(c) \/ Stall(c) \/ StallEnds(c)
                \/ DecoderFails(c)

Next == Video \/ LosePacket \/ \E c \in Clients : Handler(c) \/ Page(c)

Spec == Init /\ [][Next]_vars

\* The threads run, also where they wait for the lock or for a page that reads now
\* and then, and the drone comes to its next parameter sets.
Flows == /\ WF_vars(Video)
         /\ SF_vars(HandleNal /\ next' = {"pps"})
         /\ \A c \in Clients : SF_vars(PushTo(c)) /\ SF_vars(Handler(c))

FairSpec == Spec /\ Flows

\* Nobody stops reading for ever.
PatientSpec == FairSpec /\ \A c \in Clients : WF_vars(StallEnds(c))

-----------------------------------------------------------------------------
(* Properties *)

\* Each variable keeps its type, and the program counters their places.
TypeOK ==
    /\ next \subseteq Kinds /\ version \in 0 .. MaxSets /\ losses \in Nat
    /\ vpc \in {"idle", "lock", "push"} /\ msg \in Messages \cup {NONE}
    /\ todo \subseteq Clients /\ wsClients \subseteq Clients
    /\ {sps, pps} \subseteq 0 .. MaxSets /\ {config, keyPair} \subseteq Pairs
    /\ nextKey \in BOOLEAN /\ keySent \in BOOLEAN
    /\ lastKey \in {"key", "falsekey", NONE}
    /\ hpc \in [Clients -> {"off", "config", "key", "register", "loop"}]
    /\ peer \in [Clients -> {"up", "stalled", "gone"}]
    /\ codec \in [Clients -> Pairs]
    /\ dec \in [Clients -> {NONE, "fresh", "playing"}]

\* The cache belongs together at every step a handler may see it (it reads without
\* the lock).  The configuration and the keyframe are of the same parameter sets,
\* but while the picture behind a new PPS is still to come, or an SPS has come
\* without its PPS, which was lost; no delta goes out before a keyframe that
\* newcomers get; and a handler that has sent the configuration finds no keyframe
\* with older parameter sets than it told, whatever came between its two reads, but
\* again before the picture behind a new PPS.
CacheSound ==
    /\ config = NoPair \/ 0 \notin {config[1], config[2]}
    /\ keySent <=> lastKey # NONE
    /\ msg # NONE => lastKey # NONE
    /\ lastKey # NONE => \/ keyPair = config /\ config # NoPair
                         \/ nextKey
                         \/ sps # config[1] /\ losses > 0
    /\ \A c \in Clients : hpc[c] = "key" /\ peer[c] = "up" =>
         lastKey = NONE \/ nextKey \/ AtLeast(keyPair, codec[c])

\* Only a client whose handler looks after it is in the list, and a client whose
\* handler waits for its end is in the list unless it is gone: no live page is
\* left without video and no dead one stays.
RegistrySound == \A c \in Clients :
    /\ c \in wsClients => hpc[c] = "loop"
    /\ hpc[c] = "loop" /\ peer[c] # "gone" => c \in wsClients

\* "SPS+PPS seen, next slice is a keyframe" (dashboard/__init__.py:52): a picture
\* that depends on others, or on other parameter sets than those bundled with it,
\* goes out or is cached as a keyframe only after a loss, since the flag of line
\* 267 and the sets of lines 263 and 266 outlive what was lost behind them.
KeysStandAlone == "falsekey" \in {msg, lastKey} => losses > 0

\* A page that connects once there is a configuration plays, whatever was lost
\* before (_ws_handler and _push_video): provided that no page stops reading for
\* ever, which the code does not see to, as PlaysBeside shows.
PageWatches(c) == hpc[c] # "off" /\ peer[c] # "gone"
Ready(c) == hpc[c] = "config" /\ config # NoPair
Plays == \A c \in Clients : Ready(c) ~> (dec[c] = "playing" \/ ~PageWatches(c))

\* "Per-client Queue(maxsize=60)", "On full queue: flush all frames", "WebSocket
\* ping every 5s idle" (docs/dashboard.md:60-63): a page that does not read loses its
\* own frames, and in the end its connection, and another page plays.
PlaysBeside == \A c \in Clients :
                 Ready(c) ~> (dec[c] = "playing" \/ ~PageWatches(c) \/ peer[c] = "stalled")

\* "Config (sent once per connect)" (docs/dashboard.md:44): a page that stays
\* connected is told the codec, whenever it came.
ConfigSent == \A c \in Clients : PageWatches(c) ~> (codec[c] # NoPair \/ ~PageWatches(c))
=============================================================================

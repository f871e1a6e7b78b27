---------------------------- MODULE SseFanoutProofs ----------------------------
(***************************************************************************)
(* Theorems about SseFanout, for any pages, queues and numbers of events.  *)
(***************************************************************************)
EXTENDS SseFanout, SequenceTheorems, TLAPS

\* The push: the event is the newest there is, it has still to go to pages of the
\* list only, and behind an eviction there is room in the queue, since only the
\* handler uses it meanwhile.
PushInv ==
    /\ ppc = "idle" <=> event = NONE
    /\ ppc # "idle" => /\ event.number = latest[event.kind] /\ event.number = count
                       /\ \A k \in Kinds : k # event.kind => latest[k] < count
    /\ \A k \in Kinds : latest[k] <= count
    /\ ppc \in {"evict", "retry"} <=> now # NONE
    /\ now # NONE => now \in todo
    /\ ppc \in {"idle", "lock"} => todo = {}
    /\ todo \subseteq sseClients
    /\ ppc = "retry" => Len(q[now]) < MaxQueue

\* A handler holds an event exactly while it writes it.
HandInv == \A c \in Clients : hand[c] # NONE <=> hpc[c] = "write"

\* Nothing is shown, held or queued of a kind that has not come.
SeenInv ==
    \A c \in Clients :
        /\ \A k \in Kinds : latest[k] = 0 => view[c][k] = 0
        /\ hand[c] # NONE => latest[hand[c].kind] # 0
        /\ \A i \in 1 .. Len(q[c]) : latest[q[c][i].kind] # 0

StructInv == TypeOK /\ PushInv /\ HandInv /\ RegistrySound /\ SeenInv

-----------------------------------------------------------------------------
(* Queues *)

\* The first of a queue is taken.
LEMMA QueueTail ==
  ASSUME NEW s \in Seq(Events), s # << >>
  PROVE  /\ Head(s) \in Events /\ Head(s) = s[1] /\ 1 \in 1 .. Len(s)
         /\ Tail(s) \in Seq(Events)
         /\ Len(s) \in Nat /\ Len(s) > 0 /\ Len(Tail(s)) = Len(s) - 1
         /\ \A i \in 1 .. Len(Tail(s)) : Tail(s)[i] = s[i + 1] /\ i + 1 \in 1 .. Len(s)
<1>1. /\ Head(s) \in Events /\ Tail(s) \in Seq(Events) /\ Len(Tail(s)) = Len(s) - 1
      /\ \A i \in 1 .. Len(Tail(s)) : Tail(s)[i] = s[i + 1]
  BY HeadTailProperties
<1>2. Len(s) \in Nat \ {0}
  BY EmptySeq
<1>3. Head(s) = s[1]
  OBVIOUS
<1>4. \A i \in 1 .. Len(Tail(s)) : i + 1 \in 1 .. Len(s)
  BY <1>1, <1>2
<1> QED BY <1>1, <1>2, <1>3, <1>4

\* An event is put behind the others.
LEMMA QueueAppend ==
  ASSUME NEW s \in Seq(Events), NEW e \in Events
  PROVE  /\ Append(s, e) \in Seq(Events)
         /\ Len(s) \in Nat /\ Len(Append(s, e)) = Len(s) + 1
         /\ Append(s, e)[Len(s) + 1] = e
         /\ \A i \in 1 .. Len(s) : Append(s, e)[i] = s[i]
BY AppendProperties, LenProperties

\* No queue and no list at the start.
LEMMA InitStruct == Init => StructInv
<1> SUFFICES ASSUME Init PROVE StructInv
  OBVIOUS
<1>1. TypeOK
  <2>1. 0 \in 0 .. MaxEvents /\ << >> \in Seq(Events) /\ Len(<< >>) = 0 /\ 0 <= MaxQueue
    BY QueueAssumption DEF QueueAssumption
  <2>2. /\ q \in [Clients -> Seq(Events)] /\ \A c \in Clients : Len(q[c]) <= MaxQueue
        /\ latest \in [Kinds -> 0 .. MaxEvents] /\ count \in 0 .. MaxEvents
        /\ view \in [Clients -> [Kinds -> 0 .. MaxEvents]]
    BY <2>1 DEF Init
  <2>3. hand \in [Clients -> Events \cup {NONE}] /\ dropped \in [Clients -> SUBSET Kinds]
    BY DEF Init
  <2> QED BY <2>2, <2>3 DEF Init, TypeOK
<1>2. PushInv
  BY DEF Init, PushInv
<1>3. HandInv /\ RegistrySound
  BY DEF Init, HandInv, RegistrySound
<1>4. SeenInv
  <2>1. \A c \in Clients : q[c] = << >> /\ hand[c] = NONE /\ \A k \in Kinds : view[c][k] = 0
    BY DEF Init
  <2>2. \A c \in Clients : 1 .. Len(q[c]) = {}
    <3>1. Len(<< >>) = 0 /\ 1 .. 0 = {}
      OBVIOUS
    <3> QED BY <2>1, <3>1
  <2> QED BY <2>1, <2>2 DEF SeenInv
<1> QED BY <1>1, <1>2, <1>3, <1>4 DEF StructInv

\* A value comes: it is the newest of all.
LEMMA PublishStruct ==
  ASSUME StructInv, NEW k \in Kinds, Publish(k)
  PROVE  StructInv'
<1>0. TypeOK /\ PushInv /\ HandInv /\ RegistrySound /\ SeenInv
  BY DEF StructInv
<1> USE DEF pageVars
<1>1. /\ count \in Nat /\ count + 1 \in 1 .. MaxEvents /\ count + 1 \in 0 .. MaxEvents
      /\ latest \in [Kinds -> 0 .. MaxEvents] /\ \A j \in Kinds : latest[j] \in Nat
  BY <1>0, QueueAssumption DEF Publish, TypeOK, QueueAssumption
<1>2. /\ count' = count + 1 /\ latest' = [latest EXCEPT ![k] = count + 1]
      /\ event' = [kind |-> k, number |-> count + 1] /\ ppc' = "lock" /\ ppc = "idle"
      /\ UNCHANGED <<todo, now, sseClients, q, hpc, hand, peer, view, dropped>>
  BY DEF Publish
<1>3. event' \in Events /\ event' # NONE /\ event'.kind = k /\ event'.number = count + 1
  BY <1>1, <1>2, NoneAssumption DEF Events, NoneAssumption
<1>4. latest' \in [Kinds -> 0 .. MaxEvents] /\ \A j \in Kinds : latest'[j] = IF j = k THEN count + 1 ELSE latest[j]
  BY <1>1, <1>2
<1>5. TypeOK'
  BY <1>0, <1>1, <1>2, <1>3, <1>4 DEF TypeOK
<1>6. PushInv'
  <2>1. \A j \in Kinds : latest[j] <= count
    BY <1>0 DEF PushInv
  <2>2. \A j \in Kinds : latest'[j] <= count' /\ (j # k => latest'[j] < count')
    BY <1>1, <1>2, <1>4, <2>1
  <2>3. event'.number = latest'[event'.kind] /\ event'.number = count'
    BY <1>2, <1>3, <1>4
  <2> QED BY <1>0, <1>2, <1>3, <2>2, <2>3 DEF PushInv
<1>7. HandInv' /\ RegistrySound'
  BY <1>0, <1>2 DEF HandInv, RegistrySound
<1>8. \A j \in Kinds : latest'[j] = 0 => latest[j] = 0
  BY <1>1, <1>4
<1>9. SeenInv'
  <2>1. \A c \in Clients : \A i \in 1 .. Len(q[c]) : q[c][i].kind \in Kinds
    <3> SUFFICES ASSUME NEW c \in Clients, NEW i \in 1 .. Len(q[c]) PROVE q[c][i].kind \in Kinds
      OBVIOUS
    <3>1. q[c] \in Seq(Events)
      BY <1>0 DEF TypeOK
    <3>2. q[c][i] \in Events
      BY <3>1, ElementOfSeq
    <3> QED BY <3>2 DEF Events
  <2>2. \A c \in Clients : hand[c] # NONE => hand[c].kind \in Kinds
    BY <1>0 DEF TypeOK, Events
  <2> QED BY <1>0, <1>2, <1>8, <2>1, <2>2 DEF SeenInv
<1> QED BY <1>5, <1>6, <1>7, <1>9 DEF StructInv

\* A queue is changed by the push: what is in it stays of kinds that have come.
LEMMA QueueSeen ==
  ASSUME TypeOK, SeenInv, NEW c \in Clients, NEW s \in Seq(Events),
         q' = [q EXCEPT ![c] = s], UNCHANGED <<latest, view, hand>>,
         \A i \in 1 .. Len(s) : latest[s[i].kind] # 0
  PROVE  SeenInv'
BY DEF TypeOK, SeenInv

\* The event is put into a queue with room.
LEMMA EnqueueStruct ==
  ASSUME StructInv, NEW c \in Clients, Enqueue(c), Len(q[c]) < MaxQueue, ppc \in {"put", "retry"},
         c \in todo, ppc = "put" => now' = now, ppc = "retry" => c = now /\ now' = NONE,
         ppc' = "put", UNCHANGED <<event, stateVars, sseClients, hpc, hand, pageVars>>
  PROVE  StructInv'
<1>0. TypeOK /\ PushInv /\ HandInv /\ RegistrySound /\ SeenInv
  BY DEF StructInv
<1> USE DEF pageVars, stateVars
<1>1. q[c] \in Seq(Events) /\ event \in Events
  BY <1>0 DEF TypeOK, PushInv
<1> DEFINE s == Append(q[c], event)
<1>2. /\ s \in Seq(Events) /\ Len(q[c]) \in Nat /\ Len(s) = Len(q[c]) + 1
      /\ s[Len(q[c]) + 1] = event /\ \A i \in 1 .. Len(q[c]) : s[i] = q[c][i]
  BY <1>1, QueueAppend
<1>3. q' = [q EXCEPT ![c] = s] /\ todo' = todo \ {c} /\ dropped' = [dropped EXCEPT ![c] = @ \ {event.kind}]
  BY DEF Enqueue
<1> HIDE DEF s
<1>4. Len(s) <= MaxQueue
  BY <1>2, QueueAssumption DEF QueueAssumption
<1>5. q' \in [Clients -> Seq(Events)] /\ \A d \in Clients : Len(q'[d]) <= MaxQueue
  BY <1>0, <1>2, <1>3, <1>4 DEF TypeOK
<1>6. dropped' \in [Clients -> SUBSET Kinds]
  BY <1>0, <1>3 DEF TypeOK
<1>7. TypeOK'
  BY <1>0, <1>3, <1>5, <1>6 DEF TypeOK
<1>8. PushInv'
  BY <1>0, <1>3 DEF PushInv
<1>9. HandInv' /\ RegistrySound'
  BY <1>0 DEF HandInv, RegistrySound
<1>10. SeenInv'
  <2>1. event.kind \in Kinds /\ event.number \in 1 .. MaxEvents
    BY <1>1 DEF Events
  <2>2. latest[event.kind] # 0
    BY <1>0, <2>1 DEF PushInv
  <2>3. \A i \in 1 .. Len(s) : latest[s[i].kind] # 0
    <3> SUFFICES ASSUME NEW i \in 1 .. Len(s) PROVE latest[s[i].kind] # 0
      OBVIOUS
    <3>1. i \in 1 .. Len(q[c]) \/ i = Len(q[c]) + 1
      BY <1>2
    <3> QED BY <1>0, <1>2, <2>2, <3>1 DEF SeenInv
  <2> QED BY <1>0, <1>2, <1>3, <2>3, QueueSeen
<1> QED BY <1>7, <1>8, <1>9, <1>10 DEF StructInv

\* The push takes one page after the other; a full queue is made shorter by the
\* oldest event first, so that the second try succeeds.
LEMMA PushStruct ==
  ASSUME StructInv, Producer
  PROVE  StructInv'
<1>0. TypeOK /\ PushInv /\ HandInv /\ RegistrySound /\ SeenInv
  BY DEF StructInv
<1> USE DEF pageVars, stateVars
<1>1. CASE PushBegin
  <2>1. TypeOK'
    BY <1>0, <1>1 DEF PushBegin, TypeOK
  <2>2. PushInv' /\ HandInv' /\ RegistrySound' /\ SeenInv'
    BY <1>0, <1>1 DEF PushBegin, PushInv, HandInv, RegistrySound, SeenInv
  <2> QED BY <2>1, <2>2 DEF StructInv
<1>2. CASE PushEnd
  <2>1. TypeOK'
    BY <1>0, <1>2 DEF PushEnd, TypeOK
  <2>2. PushInv' /\ HandInv' /\ RegistrySound' /\ SeenInv'
    BY <1>0, <1>2 DEF PushEnd, PushInv, HandInv, RegistrySound, SeenInv
  <2> QED BY <2>1, <2>2 DEF StructInv
<1>3. ASSUME NEW c \in Clients, Put(c)
      PROVE  StructInv'
  <2>1. CASE Len(q[c]) < MaxQueue
    BY <1>3, <2>1, EnqueueStruct DEF Put
  <2>2. CASE ~(Len(q[c]) < MaxQueue)
    <3>1. /\ ppc' = "evict" /\ now' = c /\ c \in todo /\ ppc = "put"
          /\ UNCHANGED <<q, dropped, todo, event, latest, count, sseClients, hpc, hand, peer, view>>
      BY <1>3, <2>2 DEF Put
    <3>2. TypeOK'
      BY <1>0, <3>1 DEF TypeOK
    <3>3. PushInv'
      BY <1>0, <3>1, NoneAssumption DEF PushInv, NoneAssumption
    <3>4. HandInv' /\ RegistrySound' /\ SeenInv'
      BY <1>0, <3>1 DEF HandInv, RegistrySound, SeenInv
    <3> QED BY <3>2, <3>3, <3>4 DEF StructInv
  <2> QED BY <2>1, <2>2
<1>4. CASE Evict
  <2>1. /\ ppc = "evict" /\ ppc' = "retry" /\ now \in Clients
        /\ UNCHANGED <<event, todo, now, latest, count, sseClients, hpc, hand, peer, view>>
    BY <1>0, <1>4 DEF Evict, PushInv, TypeOK
  <2>2. q[now] \in Seq(Events) /\ Len(q[now]) <= MaxQueue /\ MaxQueue \in Nat \ {0}
    BY <1>0, <2>1, QueueAssumption DEF TypeOK, QueueAssumption
  <2>3. CASE q[now] = << >>
    <3>1. UNCHANGED <<q, dropped>>
      BY <1>4, <2>3 DEF Evict
    <3>2. Len(q[now]) < MaxQueue
      BY <2>2, <2>3
    <3>3. TypeOK'
      BY <1>0, <2>1, <3>1 DEF TypeOK
    <3>4. PushInv'
      BY <1>0, <2>1, <3>1, <3>2 DEF PushInv
    <3>5. HandInv' /\ RegistrySound' /\ SeenInv'
      BY <1>0, <2>1, <3>1 DEF HandInv, RegistrySound, SeenInv
    <3> QED BY <3>3, <3>4, <3>5 DEF StructInv
  <2>4. CASE q[now] # << >>
    <3> DEFINE rest == Tail(q[now])
    <3>1. /\ Head(q[now]) \in Events /\ rest \in Seq(Events)
          /\ Len(q[now]) \in Nat /\ Len(rest) = Len(q[now]) - 1
          /\ \A i \in 1 .. Len(rest) : rest[i] = q[now][i + 1] /\ i + 1 \in 1 .. Len(q[now])
      BY <2>2, <2>4, QueueTail
    <3>2. q' = [q EXCEPT ![now] = rest]
      BY <1>4, <2>4 DEF Evict
    <3>3. \E D \in SUBSET Kinds : dropped' = [dropped EXCEPT ![now] = D]
      <4>1. dropped[now] \in SUBSET Kinds /\ Head(q[now]).kind \in Kinds
        BY <1>0, <2>1, <3>1 DEF TypeOK, Events
      <4>2. dropped[now] \cup {Head(q[now]).kind} \in SUBSET Kinds
        BY <4>1
      <4> QED BY <1>4, <2>4, <4>1, <4>2 DEF Evict
    <3> HIDE DEF rest
    <3>4. Len(rest) < MaxQueue /\ Len(rest) <= MaxQueue
      BY <2>2, <3>1
    <3>5. q' \in [Clients -> Seq(Events)] /\ \A d \in Clients : Len(q'[d]) <= MaxQueue
      BY <1>0, <3>1, <3>2, <3>4 DEF TypeOK
    <3>6. dropped' \in [Clients -> SUBSET Kinds]
      BY <1>0, <3>3 DEF TypeOK
    <3>7. TypeOK'
      BY <1>0, <2>1, <3>5, <3>6 DEF TypeOK
    <3>8. Len(q'[now]) < MaxQueue
      BY <1>0, <2>1, <3>2, <3>4 DEF TypeOK
    <3>9. PushInv'
      BY <1>0, <2>1, <3>8 DEF PushInv
    <3>10. HandInv' /\ RegistrySound'
      BY <1>0, <2>1 DEF HandInv, RegistrySound
    <3>11. SeenInv'
      <4>1. \A i \in 1 .. Len(rest) : latest[rest[i].kind] # 0
        BY <1>0, <2>1, <3>1 DEF SeenInv
      <4> QED BY <1>0, <2>1, <3>1, <3>2, <4>1, QueueSeen
    <3> QED BY <3>7, <3>9, <3>10, <3>11 DEF StructInv
  <2> QED BY <2>3, <2>4
<1>5. CASE Retry
  <2>1. now \in todo /\ now \in Clients /\ Len(q[now]) < MaxQueue
    BY <1>0, <1>5 DEF Retry, PushInv, TypeOK
  <2> QED BY <1>5, <2>1, EnqueueStruct DEF Retry
<1> QED BY <1>1, <1>2, <1>3, <1>4, <1>5 DEF Producer

\* A handler writes a value of a kind that has come.
LEMMA WriteStruct ==
  ASSUME StructInv, NEW c \in Clients, NEW k \in Kinds, NEW n \in 0 .. MaxEvents,
         NEW next \in {"telemetry", "loop"}, latest[k] # 0, Write(c, k, n, next)
  PROVE  /\ view' \in [Clients -> [Kinds -> 0 .. MaxEvents]]
         /\ \A d \in Clients : \A j \in Kinds : latest[j] = 0 => view'[d][j] = 0
         /\ \E p \in {next, "remove"} : hpc' = [hpc EXCEPT ![c] = p]
<1>0. /\ view \in [Clients -> [Kinds -> 0 .. MaxEvents]]
      /\ \A d \in Clients : \A j \in Kinds : latest[j] = 0 => view[d][j] = 0
  BY DEF StructInv, TypeOK, SeenInv
<1>1. CASE UNCHANGED view
  BY <1>0, <1>1 DEF Write
<1>2. CASE view' = [view EXCEPT ![c][k] = n] /\ hpc' = [hpc EXCEPT ![c] = next]
  <2>1. view' \in [Clients -> [Kinds -> 0 .. MaxEvents]]
    BY <1>0, <1>2
  <2>2. \A d \in Clients : \A j \in Kinds : view'[d][j] = IF d = c /\ j = k THEN n ELSE view[d][j]
    BY <1>0, <1>2
  <2> QED BY <1>0, <1>2, <2>1, <2>2
<1> QED BY <1>1, <1>2 DEF Write

\* Registration and snapshot.
LEMMA SnapshotStruct ==
  ASSUME StructInv, NEW c \in Clients, Register(c) \/ Snapshot(c)
  PROVE  StructInv'
<1>0. TypeOK /\ PushInv /\ HandInv /\ RegistrySound /\ SeenInv
  BY DEF StructInv
<1> USE DEF producerVars, pageVars, stateVars
<1>1. CASE Register(c)
  <2>0. << >> \in Seq(Events) /\ Len(<< >>) = 0 /\ 0 <= MaxQueue
    BY QueueAssumption DEF QueueAssumption
  <2>1. q' = [q EXCEPT ![c] = << >>]
    BY <1>1 DEF Register
  <2>2. q' \in [Clients -> Seq(Events)] /\ \A d \in Clients : Len(q'[d]) <= MaxQueue
    BY <1>0, <2>0, <2>1 DEF TypeOK
  <2>3. TypeOK'
    BY <1>0, <1>1, <2>2 DEF Register, TypeOK
  <2>4. PushInv'
    BY <1>0, <1>1 DEF Register, LockFree, PushInv
  <2>5. HandInv' /\ RegistrySound'
    BY <1>0, <1>1 DEF Register, HandInv, RegistrySound, TypeOK
  <2>6. SeenInv'
    <3>1. 1 .. Len(<< >>) = {}
      BY <2>0
    <3> DEFINE s == << >>
    <3>2. s \in Seq(Events) /\ q' = [q EXCEPT ![c] = s] /\ \A i \in 1 .. Len(s) : latest[s[i].kind] # 0
      BY <2>0, <2>1, <3>1
    <3> HIDE DEF s
    <3>3. UNCHANGED <<latest, view, hand>>
      BY <1>1 DEF Register
    <3> QED BY <1>0, <3>2, <3>3, QueueSeen
  <2> QED BY <2>3, <2>4, <2>5, <2>6 DEF StructInv
<1>2. ASSUME NEW k \in Kinds, NEW next \in {"telemetry", "loop"}, SnapshotOf(c, k, next)
      PROVE  StructInv'
  <2>1. /\ UNCHANGED <<ppc, event, todo, now, latest, count, sseClients, q, hand, peer, dropped>>
        /\ hpc[c] = k
    BY <1>2 DEF SnapshotOf
  <2>2. latest[k] \in 0 .. MaxEvents
    BY <1>0 DEF TypeOK
  <2>3. /\ view' \in [Clients -> [Kinds -> 0 .. MaxEvents]]
        /\ \A d \in Clients : \A j \in Kinds : latest[j] = 0 => view'[d][j] = 0
        /\ \E p \in {next, "remove"} : hpc' = [hpc EXCEPT ![c] = p]
    <3>1. CASE latest[k] = 0
      BY <1>0, <1>2, <3>1 DEF SnapshotOf, TypeOK, SeenInv
    <3>2. CASE latest[k] # 0
      <4>1. Write(c, k, latest[k], next)
        BY <1>2, <3>2 DEF SnapshotOf
      <4> QED BY <2>2, <3>2, <4>1, WriteStruct
    <3> QED BY <3>1, <3>2
  <2>4. TypeOK'
    BY <1>0, <2>1, <2>3 DEF TypeOK
  <2>5. PushInv' /\ SeenInv'
    BY <1>0, <2>1, <2>3 DEF PushInv, SeenInv
  <2>6. HandInv' /\ RegistrySound'
    BY <1>0, <2>1, <2>3 DEF HandInv, RegistrySound, TypeOK, Kinds
  <2> QED BY <2>4, <2>5, <2>6 DEF StructInv
<1> QED BY <1>1, <1>2 DEF Snapshot, Kinds

\* The loop over the queue.
LEMMA LoopStruct ==
  ASSUME StructInv, NEW c \in Clients, Take(c) \/ WriteEvent(c)
  PROVE  StructInv'
<1>0. TypeOK /\ PushInv /\ HandInv /\ RegistrySound /\ SeenInv
  BY DEF StructInv
<1> USE DEF producerVars, pageVars, stateVars
<1>1. CASE Take(c)
  <2>1. q[c] \in Seq(Events) /\ Len(q[c]) <= MaxQueue /\ q[c] # << >> /\ MaxQueue \in Nat
    BY <1>0, <1>1, QueueAssumption DEF Take, TypeOK, QueueAssumption
  <2> DEFINE rest == Tail(q[c])
  <2>2. /\ Head(q[c]) \in Events /\ Head(q[c]) = q[c][1] /\ 1 \in 1 .. Len(q[c])
        /\ rest \in Seq(Events) /\ Len(q[c]) \in Nat /\ Len(rest) = Len(q[c]) - 1
        /\ \A i \in 1 .. Len(rest) : rest[i] = q[c][i + 1] /\ i + 1 \in 1 .. Len(q[c])
    BY <2>1, QueueTail
  <2>3. /\ q' = [q EXCEPT ![c] = rest] /\ hand' = [hand EXCEPT ![c] = Head(q[c])]
        /\ hpc' = [hpc EXCEPT ![c] = "write"] /\ hpc[c] = "loop"
        /\ UNCHANGED <<ppc, event, todo, now, latest, count, sseClients, peer, view, dropped>>
    BY <1>1 DEF Take
  <2> HIDE DEF rest
  <2>4. Len(rest) <= MaxQueue /\ Len(rest) <= Len(q[c])
    BY <2>1, <2>2
  <2>5. q' \in [Clients -> Seq(Events)] /\ \A d \in Clients : Len(q'[d]) <= MaxQueue
    BY <1>0, <2>2, <2>3, <2>4 DEF TypeOK
  <2>6. hand' \in [Clients -> Events \cup {NONE}]
    BY <1>0, <2>2, <2>3 DEF TypeOK
  <2>7. TypeOK'
    BY <1>0, <2>3, <2>5, <2>6 DEF TypeOK
  <2>8. PushInv'
    <3>1. ppc = "retry" => Len(q'[now]) < MaxQueue
      <4> SUFFICES ASSUME ppc = "retry" PROVE Len(q'[now]) < MaxQueue
        OBVIOUS
      <4>1. now \in Clients /\ Len(q[now]) < MaxQueue
        BY <1>0 DEF PushInv, TypeOK
      <4>2. CASE now = c
        BY <1>0, <2>1, <2>2, <2>3, <2>4, <4>1, <4>2 DEF TypeOK
      <4>3. CASE now # c
        BY <1>0, <2>3, <4>1, <4>3 DEF TypeOK
      <4> QED BY <4>2, <4>3
    <3> QED BY <1>0, <2>3, <3>1 DEF PushInv
  <2>9. HandInv' /\ RegistrySound'
    <3>1. Head(q[c]) # NONE
      BY <2>2, NoneAssumption DEF NoneAssumption
    <3> QED BY <1>0, <2>3, <3>1 DEF HandInv, RegistrySound, TypeOK
  <2>10. SeenInv'
    <3>1. latest[Head(q[c]).kind] # 0 /\ \A i \in 1 .. Len(rest) : latest[rest[i].kind] # 0
      BY <1>0, <2>2 DEF SeenInv
    <3> QED BY <1>0, <2>2, <2>3, <3>1 DEF SeenInv, TypeOK
  <2> QED BY <2>7, <2>8, <2>9, <2>10 DEF StructInv
<1>2. CASE WriteEvent(c)
  <2>1. /\ hand[c] \in Events /\ latest[hand[c].kind] # 0 /\ hpc[c] = "write"
    BY <1>0, <1>2 DEF WriteEvent, HandInv, SeenInv, TypeOK
  <2>2. hand[c].kind \in Kinds /\ hand[c].number \in 0 .. MaxEvents
    BY <2>1 DEF Events
  <2>3. /\ hand' = [hand EXCEPT ![c] = NONE]
        /\ UNCHANGED <<ppc, event, todo, now, latest, count, sseClients, q, peer, dropped>>
        /\ Write(c, hand[c].kind, hand[c].number, "loop")
    BY <1>2 DEF WriteEvent
  <2>4. /\ view' \in [Clients -> [Kinds -> 0 .. MaxEvents]]
        /\ \A d \in Clients : \A j \in Kinds : latest[j] = 0 => view'[d][j] = 0
        /\ \E p \in {"loop", "remove"} : hpc' = [hpc EXCEPT ![c] = p]
    BY <2>1, <2>2, <2>3, WriteStruct
  <2>5. TypeOK'
    BY <1>0, <2>3, <2>4 DEF TypeOK
  <2>6. PushInv' /\ SeenInv'
    BY <1>0, <2>3, <2>4 DEF PushInv, SeenInv, TypeOK
  <2>7. HandInv' /\ RegistrySound'
    BY <1>0, <2>1, <2>3, <2>4 DEF HandInv, RegistrySound, TypeOK
  <2> QED BY <2>5, <2>6, <2>7 DEF StructInv
<1> QED BY <1>1, <1>2

\* The end of a handler, and what the pages do.
LEMMA PageStruct ==
  ASSUME StructInv, NEW c \in Clients, KeepAlive(c) \/ Remove(c) \/ Page(c)
  PROVE  StructInv'
<1>0. TypeOK /\ PushInv /\ HandInv /\ RegistrySound /\ SeenInv
  BY DEF StructInv
<1> USE DEF producerVars, pageVars, stateVars
<1>1. CASE KeepAlive(c)
  <2>1. TypeOK'
    BY <1>0, <1>1 DEF KeepAlive, TypeOK
  <2>2. PushInv' /\ HandInv' /\ RegistrySound' /\ SeenInv'
    BY <1>0, <1>1 DEF KeepAlive, PushInv, HandInv, RegistrySound, SeenInv, TypeOK
  <2> QED BY <2>1, <2>2 DEF StructInv
<1>2. CASE Remove(c)
  <2>0. << >> \in Seq(Events) /\ Len(<< >>) = 0 /\ 0 <= MaxQueue
    BY QueueAssumption DEF QueueAssumption
  <2>1. q' = [q EXCEPT ![c] = << >>] /\ dropped' = [dropped EXCEPT ![c] = {}]
    BY <1>2 DEF Remove
  <2>2. /\ q' \in [Clients -> Seq(Events)] /\ \A d \in Clients : Len(q'[d]) <= MaxQueue
        /\ dropped' \in [Clients -> SUBSET Kinds]
    BY <1>0, <2>0, <2>1 DEF TypeOK
  <2>3. TypeOK'
    BY <1>0, <1>2, <2>2 DEF Remove, TypeOK
  <2>4. PushInv'
    BY <1>0, <1>2 DEF Remove, LockFree, PushInv
  <2>5. HandInv' /\ RegistrySound'
    BY <1>0, <1>2 DEF Remove, HandInv, RegistrySound, TypeOK
  <2>6. SeenInv'
    <3>1. 1 .. Len(<< >>) = {}
      BY <2>0
    <3> DEFINE s == << >>
    <3>2. s \in Seq(Events) /\ q' = [q EXCEPT ![c] = s] /\ \A i \in 1 .. Len(s) : latest[s[i].kind] # 0
      BY <2>0, <2>1, <3>1
    <3> HIDE DEF s
    <3>3. UNCHANGED <<latest, view, hand>>
      BY <1>2 DEF Remove
    <3> QED BY <1>0, <3>2, <3>3, QueueSeen
  <2> QED BY <2>3, <2>4, <2>5, <2>6 DEF StructInv
<1>3. CASE Open(c)
  <2>1. /\ view' = [view EXCEPT ![c] = [k \in Kinds |-> 0]] /\ 0 \in 0 .. MaxEvents
    BY <1>3, QueueAssumption DEF Open, QueueAssumption
  <2>2. /\ view' \in [Clients -> [Kinds -> 0 .. MaxEvents]]
        /\ \A d \in Clients : \A j \in Kinds : latest[j] = 0 => view'[d][j] = 0
    BY <1>0, <2>1 DEF TypeOK, SeenInv
  <2>3. TypeOK'
    BY <1>0, <1>3, <2>2 DEF Open, TypeOK
  <2>4. PushInv' /\ SeenInv'
    BY <1>0, <1>3, <2>2 DEF Open, PushInv, SeenInv
  <2>5. HandInv' /\ RegistrySound'
    BY <1>0, <1>3 DEF Open, HandInv, RegistrySound, TypeOK
  <2> QED BY <2>3, <2>4, <2>5 DEF StructInv
<1>4. CASE PeerChanges(c) \/ StallEnds(c)
  <2>1. /\ peer' \in [Clients -> {"up", "stalled", "gone"}]
        /\ UNCHANGED <<ppc, event, todo, now, latest, count, sseClients, q, hpc, hand, view, dropped>>
    BY <1>0, <1>4 DEF PeerChanges, StallEnds, TypeOK
  <2>2. TypeOK'
    BY <1>0, <2>1 DEF TypeOK
  <2>3. PushInv' /\ HandInv' /\ RegistrySound' /\ SeenInv'
    BY <1>0, <2>1 DEF PushInv, HandInv, RegistrySound, SeenInv
  <2> QED BY <2>2, <2>3 DEF StructInv
<1> QED BY <1>1, <1>2, <1>3, <1>4 DEF Page

\* All steps.
LEMMA NextStruct ==
  ASSUME StructInv, [Next]_vars
  PROVE  StructInv'
<1>1. CASE UNCHANGED vars
  BY <1>1 DEF vars, producerVars, stateVars, pageVars, StructInv, TypeOK, PushInv, HandInv,
              RegistrySound, SeenInv
<1> QED BY <1>1, PublishStruct, PushStruct, SnapshotStruct, LoopStruct, PageStruct
        DEF Next, Handler

-----------------------------------------------------------------------------
(* Where the latest value of a kind is *)

Latest(k) == [kind |-> k, number |-> latest[k]]

\* In a queue the last event of its kind is e, or there is none of kind k.
LastOf(s, e) ==
    \E i \in 1 .. Len(s) : s[i] = e /\ \A j \in 1 .. Len(s) : j > i => s[j].kind # e.kind
Without(s, k) == \A i \in 1 .. Len(s) : s[i].kind # k

\* The event has still to be put into the page's queue.
Pending(c) == ppc = "lock" \/ c \in todo

\* The snapshot of the kind is still to come.
ToCome(c, k) == hpc[c] = "relay" \/ (hpc[c] = "telemetry" /\ k = "telemetry")

\* It was dropped, or it is on its way to the page: pushed, queued, held by the
\* handler with nothing behind it, or shown with nothing behind it.
Follows(c, k) ==
    \/ k \in dropped[c]
    \/ (event # NONE /\ event.kind = k /\ Pending(c))
    \/ LastOf(q[c], Latest(k))
    \/ /\ Without(q[c], k)
       /\ \/ hand[c] # NONE /\ hand[c] = Latest(k)
          \/ /\ hand[c] # NONE => hand[c].kind # k
             /\ view[c][k] = latest[k] \/ ToCome(c, k)

Reading(c) == hpc[c] \in {"relay", "telemetry", "loop", "write"}

FollowInv == \A c \in Clients : Reading(c) => \A k \in Kinds : Follows(c, k)

\* Some value is the newest.
CountInv == \E k \in Kinds : latest[k] = count

\* What was dropped is not the newest, once the push has come by.
NewestInv ==
    \A c \in Clients :
        /\ hpc[c] \in {"off", "register"} => dropped[c] = {}
        /\ ppc \in {"put", "evict", "retry"} /\ c \notin todo => event.kind \notin dropped[c]
        /\ ppc = "idle" /\ count > 0 => \A k \in Kinds : latest[k] = count => k \notin dropped[c]

\* The inductive invariant.
IInv == StructInv /\ FollowInv /\ CountInv /\ NewestInv

\* An event taken out of the queue, by the handler or by an eviction, is the last of
\* its kind or that one is still in the queue.
LEMMA LastTail ==
  ASSUME NEW s \in Seq(Events), s # << >>, NEW e \in Events
  PROVE  /\ LastOf(s, e) => LastOf(Tail(s), e) \/ (Head(s) = e /\ Without(Tail(s), e.kind))
         /\ \A k \in Kinds : Without(s, k) => Without(Tail(s), k) /\ Head(s).kind # k
<1> DEFINE t == Tail(s)
<1>1. /\ Head(s) = s[1] /\ 1 \in 1 .. Len(s) /\ Len(s) \in Nat /\ Len(t) = Len(s) - 1
      /\ \A i \in 1 .. Len(t) : t[i] = s[i + 1] /\ i + 1 \in 1 .. Len(s)
  BY QueueTail
<1> HIDE DEF t
<1>2. ASSUME LastOf(s, e)
      PROVE  LastOf(t, e) \/ (Head(s) = e /\ Without(t, e.kind))
  <2>1. PICK i \in 1 .. Len(s) : s[i] = e /\ \A j \in 1 .. Len(s) : j > i => s[j].kind # e.kind
    BY <1>2 DEF LastOf
  <2>2. CASE i = 1
    <3>1. \A j \in 1 .. Len(t) : j + 1 > i
      BY <1>1, <2>2
    <3> QED BY <1>1, <2>1, <2>2, <3>1 DEF Without
  <2>3. CASE i # 1
    <3>1. i - 1 \in 1 .. Len(t) /\ i - 1 + 1 = i
      BY <1>1, <2>3
    <3>2. t[i - 1] = e
      BY <1>1, <2>1, <3>1
    <3>3. ASSUME NEW j \in 1 .. Len(t), j > i - 1 PROVE t[j].kind # e.kind
      <4>1. j + 1 > i /\ j + 1 \in 1 .. Len(s) /\ t[j] = s[j + 1]
        BY <1>1, <3>1, <3>3
      <4> QED BY <2>1, <4>1
    <3> QED BY <3>1, <3>2, <3>3 DEF LastOf
  <2> QED BY <2>2, <2>3
<1>3. ASSUME NEW k \in Kinds, Without(s, k)
      PROVE  Without(t, k) /\ Head(s).kind # k
  BY <1>1, <1>3 DEF Without
<1> QED BY <1>2, <1>3 DEF t

\* An event put behind the queue is the last of its kind and changes no other kind's.
LEMMA LastAppend ==
  ASSUME NEW s \in Seq(Events), NEW x \in Events, NEW e \in Events
  PROVE  /\ LastOf(Append(s, x), x)
         /\ x.kind # e.kind /\ LastOf(s, e) => LastOf(Append(s, x), e)
         /\ \A k \in Kinds : x.kind # k /\ Without(s, k) => Without(Append(s, x), k)
<1> DEFINE t == Append(s, x)
<1>1. /\ Len(s) \in Nat /\ Len(t) = Len(s) + 1 /\ t[Len(s) + 1] = x
      /\ \A i \in 1 .. Len(s) : t[i] = s[i]
  BY QueueAppend
<1> HIDE DEF t
<1>2. /\ Len(s) + 1 \in 1 .. Len(t)
      /\ \A j \in 1 .. Len(t) : ~(j > Len(s) + 1) /\ (j \in 1 .. Len(s) \/ j = Len(s) + 1)
      /\ \A j \in 1 .. Len(s) : j \in 1 .. Len(t)
  BY <1>1
<1>3. LastOf(t, x)
  BY <1>1, <1>2 DEF LastOf
<1>4. ASSUME x.kind # e.kind, LastOf(s, e) PROVE LastOf(t, e)
  <2>1. PICK i \in 1 .. Len(s) : s[i] = e /\ \A j \in 1 .. Len(s) : j > i => s[j].kind # e.kind
    BY <1>4 DEF LastOf
  <2>2. i \in 1 .. Len(t) /\ t[i] = e
    BY <1>1, <1>2, <2>1
  <2>3. ASSUME NEW j \in 1 .. Len(t), j > i PROVE t[j].kind # e.kind
    <3>1. CASE j \in 1 .. Len(s)
      BY <1>1, <2>1, <2>3, <3>1
    <3>2. CASE j = Len(s) + 1
      BY <1>1, <1>4, <3>2
    <3> QED BY <1>2, <3>1, <3>2
  <2> QED BY <2>2, <2>3 DEF LastOf
<1>5. ASSUME NEW k \in Kinds, x.kind # k, Without(s, k) PROVE Without(t, k)
  <2> SUFFICES ASSUME NEW j \in 1 .. Len(t) PROVE t[j].kind # k
    BY DEF Without
  <2>1. CASE j \in 1 .. Len(s)
    BY <1>1, <1>5, <2>1 DEF Without
  <2>2. CASE j = Len(s) + 1
    BY <1>1, <1>5, <2>2
  <2> QED BY <1>2, <2>1, <2>2
<1> QED BY <1>3, <1>4, <1>5 DEF t

\* A page none of whose variables change, in a step that takes no pending event away.
LEMMA FollowsKept ==
  ASSUME NEW c \in Clients, NEW k \in Kinds, Follows(c, k),
         q'[c] = q[c], hand'[c] = hand[c], view'[c] = view[c], dropped'[c] = dropped[c],
         hpc'[c] = hpc[c], latest'[k] = latest[k],
         event # NONE /\ event.kind = k /\ Pending(c) => event' = event /\ Pending(c)'
  PROVE  Follows(c, k)'
BY DEF Follows, Latest, ToCome, LastOf, Without

\* The push: the pages that read have still to be served, or have the event.
LEMMA PushFollows ==
  ASSUME StructInv, FollowInv, Producer
  PROVE  FollowInv'
<1>0. TypeOK /\ PushInv /\ HandInv /\ RegistrySound /\ SeenInv
  BY DEF StructInv
<1> USE DEF stateVars, pageVars
<1> SUFFICES ASSUME NEW c \in Clients, Reading(c)', NEW k \in Kinds PROVE Follows(c, k)'
  BY DEF FollowInv
<1>1. UNCHANGED <<latest, count, hpc, hand, peer, view>>
  BY DEF Producer, PushBegin, Evict, Retry, PushEnd, Put
<1>2. Follows(c, k) /\ c \in sseClients
  BY <1>0, <1>1 DEF FollowInv, Reading, RegistrySound
<1>3. ASSUME NEW d \in Clients, Enqueue(d), event \in Events, event.number = latest[event.kind],
             event' = event, ppc # "lock"
      PROVE  Follows(c, k)'
  <2>1. /\ q' = [q EXCEPT ![d] = Append(@, event)] /\ todo' = todo \ {d}
        /\ dropped' = [dropped EXCEPT ![d] = @ \ {event.kind}]
    BY <1>3 DEF Enqueue
  <2>2. CASE c # d
    BY <1>0, <1>1, <1>2, <1>3, <2>1, <2>2, FollowsKept DEF TypeOK, Pending
  <2>3. CASE c = d
    <3> DEFINE t == Append(q[c], event)
    <3>1. q[c] \in Seq(Events) /\ latest[k] \in 0 .. MaxEvents /\ Latest(k).kind = k
      BY <1>0 DEF TypeOK, Latest
    <3>2. q'[c] = t /\ dropped'[c] = dropped[c] \ {event.kind}
      BY <1>0, <2>1, <2>3 DEF TypeOK
    <3>3. /\ LastOf(t, event)
          /\ event.kind # k /\ Without(q[c], k) => Without(t, k)
      BY <1>3, <3>1, LastAppend
    <3>4. Latest(k)' = Latest(k)
      BY <1>1 DEF Latest
    <3>5. CASE event.kind = k
      <4>1. event = Latest(k)
        BY <1>3, <3>5 DEF Events, Latest
      <4> QED BY <3>2, <3>3, <3>4, <4>1 DEF Follows, LastOf
    <3>6. CASE event.kind # k
      <4>1. LastOf(q[c], Latest(k)) => LastOf(t, Latest(k))
        <5> SUFFICES ASSUME LastOf(q[c], Latest(k)) PROVE LastOf(t, Latest(k))
          OBVIOUS
        <5>1. PICK i \in 1 .. Len(q[c]) : q[c][i] = Latest(k)
          BY DEF LastOf
        <5>2. Latest(k) \in Events
          BY <3>1, <5>1, ElementOfSeq
        <5> QED BY <1>3, <3>1, <3>6, <5>2, LastAppend
      <4> HIDE DEF t
      <4>2. k \in dropped[c] => k \in dropped'[c]
        BY <3>2, <3>6
      <4>3. LastOf(q[c], Latest(k)) => LastOf(q[c], Latest(k))'
        BY <3>2, <3>4, <4>1 DEF LastOf
      <4>4. Without(q[c], k) => Without(q[c], k)'
        BY <3>2, <3>3, <3>6 DEF Without
      <4> QED BY <1>1, <1>2, <3>4, <3>6, <4>2, <4>3, <4>4 DEF Follows, ToCome
    <3> QED BY <3>5, <3>6
  <2> QED BY <2>2, <2>3
<1>4. ppc # "idle" => event \in Events /\ event.number = latest[event.kind]
  BY <1>0 DEF TypeOK, PushInv
<1>5. CASE PushBegin
  BY <1>2, <1>5, FollowsKept DEF PushBegin, Pending
<1>6. CASE PushEnd
  BY <1>2, <1>6, FollowsKept DEF PushEnd, Pending
<1>7. ASSUME NEW d \in Clients, Put(d) PROVE Follows(c, k)'
  <2>1. CASE Len(q[d]) < MaxQueue
    BY <1>3, <1>4, <1>7, <2>1 DEF Put
  <2>2. CASE ~(Len(q[d]) < MaxQueue)
    <3>1. /\ UNCHANGED <<q, dropped, todo, event, hpc, hand, view, latest>> /\ ppc = "put"
      BY <1>7, <2>2 DEF Put
    <3> QED BY <1>2, <3>1, FollowsKept DEF Pending
  <2> QED BY <2>1, <2>2
<1>8. CASE Retry
  <2>1. now \in Clients /\ Len(q[now]) < MaxQueue
    BY <1>0, <1>8 DEF Retry, PushInv, TypeOK
  <2> QED BY <1>3, <1>4, <1>8, <2>1 DEF Retry
<1>9. CASE Evict
  <2>1. UNCHANGED <<event, todo>> /\ ppc = "evict" /\ now \in Clients
    BY <1>0, <1>9 DEF Evict, PushInv, TypeOK
  <2>2. CASE c # now \/ q[now] = << >>
    <3>1. q'[c] = q[c] /\ dropped'[c] = dropped[c]
      BY <1>0, <1>9, <2>1, <2>2 DEF Evict, TypeOK
    <3> QED BY <1>1, <1>2, <2>1, <3>1, FollowsKept DEF Pending
  <2>3. CASE c = now /\ q[now] # << >>
    <3> DEFINE t == Tail(q[c])
    <3>1. q[c] \in Seq(Events) /\ latest[k] \in 0 .. MaxEvents /\ Latest(k).kind = k
      BY <1>0 DEF TypeOK, Latest
    <3>2. /\ q'[c] = t
          /\ dropped'[c] = IF \E i \in 1 .. Len(t) : t[i].kind = Head(q[c]).kind
                             THEN dropped[c] ELSE dropped[c] \cup {Head(q[c]).kind}
      BY <1>0, <1>9, <2>1, <2>3 DEF Evict, TypeOK
    <3>3. LastOf(q[c], Latest(k)) => LastOf(t, Latest(k)) \/ (Head(q[c]) = Latest(k) /\ Without(t, k))
      <4> SUFFICES ASSUME LastOf(q[c], Latest(k))
                   PROVE  LastOf(t, Latest(k)) \/ (Head(q[c]) = Latest(k) /\ Without(t, k))
        OBVIOUS
      <4>1. PICK i \in 1 .. Len(q[c]) : q[c][i] = Latest(k)
        BY DEF LastOf
      <4>2. Latest(k) \in Events
        BY <3>1, <4>1, ElementOfSeq
      <4> QED BY <2>3, <3>1, <4>2, LastTail
    <3>4. Without(q[c], k) => Without(t, k)
      BY <2>3, <3>1, LastTail
    <3>5. Latest(k)' = Latest(k)
      BY <1>1 DEF Latest
    <3> HIDE DEF t
    <3>6. k \in dropped[c] => k \in dropped'[c]
      BY <3>2
    <3>7. Head(q[c]) = Latest(k) /\ Without(t, k) => k \in dropped'[c]
      BY <3>1, <3>2 DEF Without
    <3>8. LastOf(t, Latest(k)) => LastOf(q[c], Latest(k))'
      BY <3>2, <3>5 DEF LastOf
    <3>9. Without(t, k) => Without(q[c], k)'
      BY <3>2 DEF Without
    <3>10. Pending(c)' = Pending(c)
      BY <1>9, <2>1 DEF Evict, Pending
    <3> QED BY <1>1, <1>2, <2>1, <3>3, <3>4, <3>5, <3>6, <3>7, <3>8, <3>9, <3>10 DEF Follows, ToCome
  <2> QED BY <2>2, <2>3
<1> QED BY <1>5, <1>6, <1>7, <1>8, <1>9 DEF Producer

\* A value comes: it is pending for every page.
LEMMA PublishFollows ==
  ASSUME StructInv, FollowInv, NEW n \in Kinds, Publish(n)
  PROVE  FollowInv'
<1>0. TypeOK /\ PushInv
  BY DEF StructInv
<1> SUFFICES ASSUME NEW c \in Clients, Reading(c)', NEW k \in Kinds PROVE Follows(c, k)'
  BY DEF FollowInv
<1>1. /\ UNCHANGED <<q, hand, view, dropped, hpc>> /\ event = NONE /\ ppc' = "lock"
      /\ latest' = [latest EXCEPT ![n] = count'] /\ event' = [kind |-> n, number |-> count']
      /\ count' = count + 1 /\ count < MaxEvents
  BY <1>0 DEF Publish, pageVars, PushInv
<1>2. count \in Nat /\ count + 1 \in 1 .. MaxEvents
  BY <1>0, <1>1, QueueAssumption DEF TypeOK, QueueAssumption
<1>3. CASE k = n
  <2>1. event' \in Events /\ event' # NONE
    BY <1>1, <1>2, NoneAssumption DEF Events, NoneAssumption
  <2> QED BY <1>1, <1>3, <2>1 DEF Follows, Pending
<1>4. CASE k # n
  <2>1. Follows(c, k) /\ latest'[k] = latest[k]
    BY <1>0, <1>1, <1>4 DEF FollowInv, Reading, TypeOK
  <2> QED BY <1>1, <2>1, FollowsKept
<1> QED BY <1>3, <1>4

\* The step of one page's handler leaves the others alone.
LEMMA OthersFollow ==
  ASSUME FollowInv, NEW c \in Clients, UNCHANGED <<event, latest, todo, ppc>>,
         \A d \in Clients \ {c} : /\ q'[d] = q[d] /\ hand'[d] = hand[d] /\ view'[d] = view[d]
                                  /\ dropped'[d] = dropped[d] /\ hpc'[d] = hpc[d],
         Reading(c)' => \A k \in Kinds : Follows(c, k)'
  PROVE  FollowInv'
<1> SUFFICES ASSUME NEW d \in Clients \ {c}, Reading(d)', NEW k \in Kinds PROVE Follows(d, k)'
  BY DEF FollowInv
<1>1. Follows(d, k)
  BY DEF FollowInv, Reading
<1> QED BY <1>1, FollowsKept DEF Pending

\* The handlers and the pages: registration comes before the snapshot, the snapshot
\* before the queue, and what is taken out of the queue is written before the next.
LEMMA PagesFollow ==
  ASSUME StructInv, FollowInv, NEW c \in Clients, Handler(c) \/ Page(c)
  PROVE  FollowInv'
<1>0. TypeOK /\ PushInv /\ HandInv /\ RegistrySound /\ SeenInv
  BY DEF StructInv
<1> USE DEF producerVars, stateVars, pageVars
<1>1. UNCHANGED <<ppc, event, todo, latest>>
  BY DEF Handler, Page, Register, Snapshot, SnapshotOf, Take, WriteEvent, KeepAlive, Remove, Open,
         PeerChanges, StallEnds
<1>2. \A d \in Clients \ {c} :
        /\ q'[d] = q[d] /\ hand'[d] = hand[d] /\ view'[d] = view[d]
        /\ dropped'[d] = dropped[d] /\ hpc'[d] = hpc[d]
  <2>1. CASE Register(c) \/ Take(c) \/ KeepAlive(c) \/ Remove(c)
    BY <1>0, <2>1 DEF Register, Take, KeepAlive, Remove, TypeOK
  <2>2. CASE Snapshot(c)
    BY <1>0, <2>2 DEF Snapshot, SnapshotOf, Write, TypeOK
  <2>3. CASE WriteEvent(c)
    BY <1>0, <2>3 DEF WriteEvent, Write, TypeOK
  <2>4. CASE Page(c)
    BY <1>0, <2>4 DEF Page, Open, PeerChanges, StallEnds, TypeOK
  <2> QED BY <2>1, <2>2, <2>3, <2>4 DEF Handler
<1> SUFFICES ASSUME Reading(c)', NEW k \in Kinds PROVE Follows(c, k)'
  BY <1>1, <1>2, OthersFollow
<1>3. /\ Latest(k)' = Latest(k) /\ Latest(k).kind = k /\ Latest(k).number = latest[k]
      /\ Pending(c)' = Pending(c)
  BY <1>1 DEF Latest, Pending
<1>4. CASE Register(c)
  <2>1. q'[c] = << >> /\ hpc'[c] = "relay" /\ hand'[c] = NONE
    BY <1>0, <1>4 DEF Register, HandInv, TypeOK
  <2>2. Without(q[c], k)'
    <3>1. 1 .. Len(<< >>) = {}
      OBVIOUS
    <3> QED BY <2>1, <3>1 DEF Without
  <2> QED BY <2>1, <2>2 DEF Follows, ToCome
<1>5. ASSUME NEW j \in Kinds, NEW next \in {"telemetry", "loop"}, SnapshotOf(c, j, next),
             j = "relay" => next = "telemetry", j = "telemetry" => next = "loop"
      PROVE  Follows(c, k)'
  <2>1. hpc[c] = j /\ hand[c] = NONE /\ UNCHANGED <<q, hand, dropped>>
    BY <1>0, <1>5 DEF SnapshotOf, HandInv, Kinds
  <2>2. Follows(c, k)
    BY <2>1 DEF FollowInv, Reading, Kinds
  <2>3. hpc'[c] = next /\ view'[c] \in [Kinds -> 0 .. MaxEvents]
        /\ \A i \in Kinds : view'[c][i] = IF i = j THEN latest[j] ELSE view[c][i]
    <3>1. CASE latest[j] = 0
      <4>1. hpc'[c] = next /\ view' = view
        BY <1>0, <1>5, <3>1 DEF SnapshotOf, TypeOK
      <4>2. view[c] \in [Kinds -> 0 .. MaxEvents] /\ view[c][j] = latest[j]
        BY <1>0, <3>1 DEF TypeOK, SeenInv
      <4> QED BY <4>1, <4>2
    <3>2. CASE latest[j] # 0
      <4>1. view' = [view EXCEPT ![c][j] = latest[j]] /\ hpc' = [hpc EXCEPT ![c] = next]
        BY <1>0, <1>5, <3>2 DEF SnapshotOf, Write, Reading, TypeOK
      <4>2. view \in [Clients -> [Kinds -> 0 .. MaxEvents]] /\ latest[j] \in 0 .. MaxEvents
        BY <1>0 DEF TypeOK
      <4> QED BY <1>0, <4>1, <4>2 DEF TypeOK
    <3> QED BY <3>1, <3>2
  <2>4. /\ LastOf(q[c], Latest(k))' <=> LastOf(q[c], Latest(k))
        /\ Without(q[c], k)' <=> Without(q[c], k)
    BY <1>3, <2>1 DEF LastOf, Without
  <2>5. hand'[c] = NONE
    BY <2>1
  <2>6. ToCome(c, k) /\ k # j => ToCome(c, k)'
    BY <1>5, <2>1, <2>3 DEF ToCome, Kinds
  <2>7. Without(q[c], k) => view'[c][k] = latest'[k] \/ ToCome(c, k)' \/ k \in dropped'[c]
                            \/ (event # NONE /\ event.kind = k /\ Pending(c))
                            \/ LastOf(q[c], Latest(k))
    BY <1>1, <2>1, <2>2, <2>3, <2>6 DEF Follows
  <2>8. \/ k \in dropped'[c] \/ (event' # NONE /\ event'.kind = k /\ Pending(c)')
        \/ LastOf(q[c], Latest(k))'
        \/ Without(q[c], k)' /\ (view'[c][k] = latest'[k] \/ ToCome(c, k)')
    BY <1>1, <1>3, <2>1, <2>2, <2>4, <2>7 DEF Follows
  <2> QED BY <2>5, <2>8 DEF Follows
<1>6. CASE Take(c)
  <2>1. /\ q[c] \in Seq(Events) /\ q[c] # << >> /\ hpc[c] = "loop" /\ hand[c] = NONE
        /\ q'[c] = Tail(q[c]) /\ hand'[c] = Head(q[c]) /\ UNCHANGED <<view, dropped>>
    BY <1>0, <1>6 DEF Take, HandInv, TypeOK
  <2> DEFINE t == Tail(q[c])
             h == Head(q[c])
  <2>2. h \in Events /\ h # NONE
    BY <2>1, QueueTail, NoneAssumption DEF NoneAssumption
  <2>3. Follows(c, k) /\ ~ToCome(c, k)
    BY <2>1 DEF FollowInv, Reading, ToCome
  <2>4. LastOf(q[c], Latest(k)) => LastOf(t, Latest(k)) \/ (h = Latest(k) /\ Without(t, k))
    <3> SUFFICES ASSUME LastOf(q[c], Latest(k))
                 PROVE  LastOf(t, Latest(k)) \/ (h = Latest(k) /\ Without(t, k))
      OBVIOUS
    <3>1. PICK i \in 1 .. Len(q[c]) : q[c][i] = Latest(k)
      BY DEF LastOf
    <3>2. Latest(k) \in Events
      BY <2>1, <3>1, ElementOfSeq
    <3> QED BY <1>3, <2>1, <3>2, LastTail
  <2>5. Without(q[c], k) => Without(t, k) /\ h.kind # k
    BY <2>1, LastTail
  <2> HIDE DEF t, h
  <2>6. q'[c] = t /\ hand'[c] = h
    BY <2>1 DEF t, h
  <2>7. /\ LastOf(t, Latest(k)) => LastOf(q[c], Latest(k))'
        /\ Without(t, k) => Without(q[c], k)'
    BY <1>3, <2>6 DEF LastOf, Without
  <2>8. view'[c][k] = view[c][k] /\ dropped'[c] = dropped[c]
    BY <2>1
  <2>9. \/ k \in dropped[c] \/ (event # NONE /\ event.kind = k /\ Pending(c))
        \/ LastOf(t, Latest(k)) \/ (h = Latest(k) /\ Without(t, k))
        \/ (Without(t, k) /\ h.kind # k /\ view[c][k] = latest[k])
    BY <2>1, <2>3, <2>4, <2>5 DEF Follows
  <2> QED BY <1>1, <1>3, <2>2, <2>6, <2>7, <2>8, <2>9 DEF Follows
<1>7. CASE WriteEvent(c)
  <2>1. /\ hand[c] \in Events /\ hand[c] # NONE /\ hpc[c] = "write" /\ UNCHANGED <<q, dropped>>
        /\ hand' = [hand EXCEPT ![c] = NONE] /\ Write(c, hand[c].kind, hand[c].number, "loop")
    BY <1>0, <1>7 DEF WriteEvent, HandInv, TypeOK
  <2>2. hand[c].kind \in Kinds /\ hand[c].number \in 0 .. MaxEvents
    BY <2>1 DEF Events
  <2>3. Follows(c, k) /\ ~ToCome(c, k)
    BY <2>1 DEF FollowInv, Reading, ToCome
  <2>4. \A i \in Kinds : view'[c][i] = IF i = hand[c].kind THEN hand[c].number ELSE view[c][i]
    <3>1. view' = [view EXCEPT ![c][hand[c].kind] = hand[c].number]
      BY <1>0, <2>1 DEF Write, Reading, TypeOK
    <3>2. view \in [Clients -> [Kinds -> 0 .. MaxEvents]]
      BY <1>0 DEF TypeOK
    <3> QED BY <2>2, <3>1, <3>2
  <2>5. /\ LastOf(q[c], Latest(k)) => LastOf(q[c], Latest(k))'
        /\ Without(q[c], k) => Without(q[c], k)'
    BY <1>3, <2>1 DEF LastOf, Without
  <2>6. hand'[c] = NONE /\ dropped'[c] = dropped[c]
    BY <1>0, <2>1 DEF TypeOK
  <2>7. \/ k \in dropped[c] \/ (event # NONE /\ event.kind = k /\ Pending(c))
        \/ LastOf(q[c], Latest(k))
        \/ (Without(q[c], k) /\ view'[c][k] = latest[k])
    BY <1>3, <2>1, <2>2, <2>3, <2>4 DEF Follows
  <2> QED BY <1>1, <1>3, <2>5, <2>6, <2>7 DEF Follows
<1>8. CASE KeepAlive(c) \/ Remove(c) \/ Open(c)
  BY <1>0, <1>8 DEF KeepAlive, Remove, Open, Reading, TypeOK
<1>9. CASE PeerChanges(c) \/ StallEnds(c)
  <2>1. UNCHANGED <<q, hpc, hand, view, dropped>>
    BY <1>9 DEF PeerChanges, StallEnds
  <2>2. Follows(c, k)
    BY <2>1 DEF FollowInv, Reading
  <2> QED BY <1>1, <1>3, <2>1, <2>2, FollowsKept
<1> QED BY <1>4, <1>5, <1>6, <1>7, <1>8, <1>9 DEF Handler, Page, Snapshot, Kinds

\* What is dropped is not the newest: all steps.
LEMMA NextNewest ==
  ASSUME StructInv, CountInv, NewestInv, Next
  PROVE  CountInv' /\ NewestInv'
<1>0. TypeOK /\ PushInv /\ RegistrySound
  BY DEF StructInv
<1> USE DEF producerVars, stateVars, pageVars
<1>1. ASSUME NEW k \in Kinds, Publish(k) PROVE CountInv' /\ NewestInv'
  <2>1. CountInv'
    BY <1>0, <1>1 DEF Publish, CountInv, TypeOK
  <2>2. ppc' = "lock" /\ UNCHANGED <<hpc, dropped>>
    BY <1>1 DEF Publish
  <2> QED BY <2>1, <2>2 DEF NewestInv
<1>2. CASE PushBegin
  <2>1. /\ ppc' = "put" /\ todo' = sseClients
        /\ UNCHANGED <<event, latest, count, sseClients, hpc, dropped>>
    BY <1>2 DEF PushBegin
  <2>2. \A c \in Clients : c \notin todo' => dropped[c] = {}
    BY <1>0, <2>1 DEF RegistrySound, TypeOK, NewestInv
  <2> QED BY <2>1, <2>2 DEF CountInv, NewestInv
<1>3. CASE PushEnd
  <2>1. /\ ppc = "put" /\ ppc' = "idle" /\ todo = {}
        /\ UNCHANGED <<todo, latest, count, hpc, dropped>>
    BY <1>3 DEF PushEnd
  <2>2. \A k \in Kinds : latest[k] = count => k = event.kind
    BY <1>0, <2>1 DEF PushInv, TypeOK
  <2> QED BY <2>1, <2>2 DEF CountInv, NewestInv
<1>4. ASSUME NEW d \in Clients, Enqueue(d), ppc \in {"put", "retry"}, ppc' = "put",
             UNCHANGED <<event, latest, count, hpc>>
      PROVE  CountInv' /\ NewestInv'
  <2>1. /\ todo' = todo \ {d}
        /\ \A c \in Clients : dropped'[c] = IF c = d THEN dropped[c] \ {event.kind} ELSE dropped[c]
    BY <1>0, <1>4 DEF Enqueue, TypeOK
  <2> QED BY <1>4, <2>1 DEF CountInv, NewestInv
<1>5. ASSUME NEW d \in Clients, Put(d) PROVE CountInv' /\ NewestInv'
  <2>1. CASE Len(q[d]) < MaxQueue
    BY <1>4, <1>5, <2>1 DEF Put
  <2>2. CASE ~(Len(q[d]) < MaxQueue)
    <3>1. /\ ppc = "put" /\ ppc' = "evict"
          /\ UNCHANGED <<event, todo, latest, count, hpc, dropped>>
      BY <1>5, <2>2 DEF Put
    <3> QED BY <3>1 DEF CountInv, NewestInv
  <2> QED BY <2>1, <2>2
<1>6. CASE Retry
  <2>1. now \in Clients /\ Len(q[now]) < MaxQueue
    BY <1>0, <1>6 DEF Retry, PushInv, TypeOK
  <2> QED BY <1>4, <1>6, <2>1 DEF Retry
<1>7. CASE Evict
  <2>1. /\ ppc = "evict" /\ ppc' = "retry" /\ now \in todo /\ now \in sseClients
        /\ UNCHANGED <<event, todo, latest, count, hpc>>
    BY <1>0, <1>7, NoneAssumption DEF Evict, PushInv
  <2>2. \A c \in Clients : c # now => dropped'[c] = dropped[c]
    BY <1>0, <1>7 DEF Evict, TypeOK
  <2>3. now \in Clients => hpc[now] \notin {"off", "register"}
    BY <1>0, <2>1 DEF RegistrySound
  <2> QED BY <2>1, <2>2, <2>3 DEF CountInv, NewestInv
<1>8. ASSUME NEW c \in Clients, Remove(c) PROVE CountInv' /\ NewestInv'
  <2>1. /\ UNCHANGED <<ppc, event, todo, latest, count>>
        /\ \A d \in Clients : \/ dropped'[d] = {}
                              \/ dropped'[d] = dropped[d] /\ hpc'[d] = hpc[d]
    BY <1>0, <1>8 DEF Remove, TypeOK
  <2> QED BY <2>1 DEF CountInv, NewestInv
<1>9. ASSUME NEW c \in Clients,
             Register(c) \/ Snapshot(c) \/ Take(c) \/ WriteEvent(c) \/ KeepAlive(c) \/ Page(c)
      PROVE  CountInv' /\ NewestInv'
  <2>1. UNCHANGED <<ppc, event, todo, latest, count, dropped>>
    BY <1>9 DEF Register, Snapshot, SnapshotOf, Take, WriteEvent, KeepAlive, Page, Open,
                PeerChanges, StallEnds
  <2>2. \A d \in Clients : hpc'[d] \in {"off", "register"} => hpc[d] \in {"off", "register"}
    BY <1>0, <1>9 DEF Register, Snapshot, SnapshotOf, Take, WriteEvent, Write, KeepAlive, Page, Open,
                PeerChanges, StallEnds, TypeOK, Kinds
  <2> QED BY <2>1, <2>2 DEF CountInv, NewestInv
<1> QED BY <1>1, <1>2, <1>3, <1>5, <1>6, <1>7, <1>8, <1>9 DEF Next, Producer, Handler

\* The invariant holds at the start and every step keeps it.
LEMMA Inductive == (Init => IInv) /\ (IInv /\ [Next]_vars => IInv')
<1>1. Init => FollowInv /\ CountInv /\ NewestInv
  BY DEF Init, FollowInv, Reading, CountInv, NewestInv, Kinds
<1>2. IInv /\ UNCHANGED vars => IInv'
  <2> SUFFICES ASSUME IInv, UNCHANGED vars PROVE IInv'
    OBVIOUS
  <2>1. StructInv'
    BY NextStruct DEF IInv
  <2>2. UNCHANGED <<ppc, event, todo, latest, count, q, hpc, hand, view, dropped>>
    BY DEF vars, producerVars, stateVars, pageVars
  <2>3. FollowInv'
    BY <2>2 DEF IInv, FollowInv, Reading, Follows, Latest, Pending, ToCome, LastOf, Without
  <2>4. CountInv' /\ NewestInv'
    BY <2>2 DEF IInv, CountInv, NewestInv
  <2> QED BY <2>1, <2>3, <2>4 DEF IInv
<1>3. IInv /\ Next => IInv'
  <2> SUFFICES ASSUME IInv, Next PROVE IInv'
    OBVIOUS
  <2>1. StructInv' /\ CountInv' /\ NewestInv'
    BY NextStruct, NextNewest DEF IInv
  <2>2. FollowInv'
    BY PushFollows, PublishFollows, PagesFollow DEF IInv, Next
  <2> QED BY <2>1, <2>2 DEF IInv
<1> QED BY InitStruct, <1>1, <1>2, <1>3 DEF IInv

\* A page with nothing to come shows what it has not lost.
LEMMA SettledShows ==
  ASSUME IInv, NEW c \in Clients, Settled(c), NEW k \in Kinds
  PROVE  ShowsLatest(c, k) \/ k \in dropped[c]
<1>1. /\ hpc[c] = "loop" /\ q[c] = << >> /\ event = NONE /\ hand[c] = NONE
  BY DEF Settled, IInv, StructInv, PushInv, HandInv
<1>2. ~LastOf(q[c], Latest(k)) /\ ~ToCome(c, k)
  <2>1. 1 .. Len(<< >>) = {}
    OBVIOUS
  <2> QED BY <1>1, <2>1 DEF LastOf, ToCome
<1>3. Follows(c, k)
  BY <1>1 DEF IInv, FollowInv, Reading
<1> QED BY <1>1, <1>2, <1>3 DEF Follows, ShowsLatest

-----------------------------------------------------------------------------
(* Theorems *)

\* Every variable keeps its type, the queues their bound.
THEOREM TypeInvariance == Spec => []TypeOK
<1>1. IInv => TypeOK
  BY DEF IInv, StructInv
<1> QED BY Inductive, <1>1, PTL DEF Spec

\* add_sse_client, remove_sse_client and _push_sse: a page is in the list exactly
\* while a handler reads its queue; the second put of an event never fails.
THEOREM RegistryIsSound == Spec => []RegistrySound
<1>1. IInv => RegistrySound
  BY DEF IInv, StructInv
<1> QED BY Inductive, <1>1, PTL DEF Spec

\* _serve_sse: a page with nothing to come shows the latest value of each kind, or
\* that one was thrown out of its queue, for any number of pages and any bound.
THEOREM CurrentOrDropped == Spec => []CurrentUnlessDropped
<1>1. IInv => CurrentUnlessDropped
  BY SettledShows DEF CurrentUnlessDropped
<1> QED BY Inductive, <1>1, PTL DEF Spec

\* _push_sse: a full queue loses its oldest event, never the last there is.
THEOREM NewestIsKept == Spec => []NewestKept
<1>1. ASSUME IInv, NEW c \in Clients, Settled(c)
      PROVE  \E k \in Kinds : latest[k] = count /\ ShowsLatest(c, k)
  <2>1. PICK k \in Kinds : latest[k] = count
    BY <1>1 DEF IInv, CountInv
  <2>2. CASE count = 0
    BY <1>1, <2>1, <2>2 DEF IInv, StructInv, SeenInv, ShowsLatest
  <2>3. CASE count # 0
    <3>1. count > 0 /\ ppc = "idle"
      BY <1>1, <2>3, QueueAssumption DEF IInv, StructInv, TypeOK, Settled, QueueAssumption
    <3>2. k \notin dropped[c]
      BY <1>1, <2>1, <3>1 DEF IInv, NewestInv
    <3> QED BY <1>1, <2>1, <3>2, SettledShows
  <2> QED BY <2>2, <2>3
<1>2. IInv => NewestKept
  BY <1>1 DEF NewestKept
<1> QED BY Inductive, <1>2, PTL DEF Spec
================================================================================

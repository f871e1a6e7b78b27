------------------------------ MODULE SseFanout ------------------------------
(***************************************************************************)
(* The dashboard's telemetry (client/dashboard): the connection's receive  *)
(* thread keeps the latest value of each kind and puts every event into    *)
(* the bounded queue of each page; a handler thread per page registers its *)
(* queue, sends the latest values and then what the queue holds.           *)
(*                                                                         *)
(* Events are numbered in the order they come; 0 stands for no value yet.  *)
(* Telemetry, control, PTZ and device events are treated alike: the kind   *)
(* "telemetry" stands for them, "relay" for the relay's state.             *)
(***************************************************************************)
EXTENDS Naturals, Sequences

CONSTANTS Clients,   \* pages that listen to /telemetry
          MaxQueue,  \* the maxsize of a queue, 50
          MaxEvents, \* bounds the events that come
          NONE       \* no event, no page

ASSUME QueueAssumption == MaxQueue \in Nat \ {0} /\ MaxEvents \in Nat

Kinds  == {"relay", "telemetry"}
Events == [kind : Kinds, number : 1 .. MaxEvents]

ASSUME NoneAssumption == NONE \notin Clients \cup Events

VARIABLES
    \* The receive thread.
    ppc,        \* "idle", "lock" before _push_sse takes the lock, then "put",
                \* "evict" and "retry" for one page, and "put" for the next
    event,      \* the event it pushes
    todo,       \* the pages it has still to serve
    now,        \* the page that is evicted for
    \* The Dashboard object and the queues.
    latest,     \* the latest number of each kind
    count,      \* the number of events so far
    sseClients, \* _sse_clients, as a set: the order is never used
    q,          \* each page's queue
    \* The handlers and the pages.
    hpc,        \* "off", "register", "relay" and "telemetry" in the snapshot,
                \* "loop", "write", "remove"
    hand,       \* the event the handler took out of its queue
    peer,       \* the page "up", "stalled" with all buffers full, or "gone"
    view,       \* the number of each kind the page shows
    dropped     \* history: kinds whose latest event was thrown out of the queue

producerVars == <<ppc, event, todo, now>>
stateVars    == <<latest, count>>
pageVars     == <<peer, view>>
vars == <<producerVars, stateVars, sseClients, q, hpc, hand, pageVars, dropped>>

Init == /\ ppc = "idle" /\ event = NONE /\ todo = {} /\ now = NONE
        /\ latest = [k \in Kinds |-> 0] /\ count = 0
        /\ sseClients = {}
        /\ q = [c \in Clients |-> << >>]
        /\ hpc = [c \in Clients |-> "off"]
        /\ hand = [c \in Clients |-> NONE]
        /\ peer = [c \in Clients |-> "gone"]
        /\ view = [c \in Clients |-> [k \in Kinds |-> 0]]
        /\ dropped = [c \in Clients |-> {}]

LockFree == ppc \in {"idle", "lock"}

-----------------------------------------------------------------------------
(* The receive thread: the callbacks and _push_sse *)

\* A new value: it is kept, then it is pushed.
Publish(k) ==
    /\ ppc = "idle" /\ count < MaxEvents
    /\ count' = count + 1
    /\ latest' = [latest EXCEPT ![k] = count']
    /\ event' = [kind |-> k, number |-> count']
    /\ ppc' = "lock"
    /\ UNCHANGED <<todo, now, sseClients, q, hpc, hand, pageVars, dropped>>

PushBegin == /\ ppc = "lock"
             /\ ppc' = "put"
             /\ todo' = sseClients
             /\ UNCHANGED <<event, now, stateVars, sseClients, q, hpc, hand, pageVars, dropped>>

\* The event is in the queue of c: whatever was dropped of its kind is outdated.
Enqueue(c) == /\ q' = [q EXCEPT ![c] = Append(@, event)]
              /\ dropped' = [dropped EXCEPT ![c] = @ \ {event.kind}]
              /\ todo' = todo \ {c}

\* A bug: a queue that is full is left alone, the new event is the one dropped.
PutDropsNew(c) ==
    /\ ppc = "put" /\ c \in todo
    /\ IF Len(q[c]) < MaxQueue THEN Enqueue(c)
                               ELSE todo' = todo \ {c} /\ UNCHANGED <<q, dropped>>
    /\ UNCHANGED <<ppc, event, now, stateVars, sseClients, hpc, hand, pageVars>>

\* put_nowait into the queue of the next page.
Put(c) ==
    /\ ppc = "put" /\ c \in todo
    /\ IF Len(q[c]) < MaxQueue
         THEN Enqueue(c) /\ UNCHANGED <<ppc, now>>
         ELSE ppc' = "evict" /\ now' = c /\ UNCHANGED <<q, dropped, todo>>
    /\ UNCHANGED <<event, stateVars, sseClients, hpc, hand, pageVars>>

\* get_nowait: the oldest event goes.  The handler may have emptied the queue.
Evict ==
    /\ ppc = "evict"
    /\ ppc' = "retry"
    /\ IF q[now] = << >> THEN UNCHANGED <<q, dropped>>
       ELSE LET oldest == Head(q[now])
                rest   == Tail(q[now])
            IN  /\ q' = [q EXCEPT ![now] = rest]
                /\ dropped' = [dropped EXCEPT ![now] =
                     IF \E i \in 1 .. Len(rest) : rest[i].kind = oldest.kind
                       THEN @ ELSE @ \cup {oldest.kind}]
    /\ UNCHANGED <<event, todo, now, stateVars, sseClients, hpc, hand, pageVars>>

\* A bug: room is made and not used.
RetryNever ==
    /\ ppc = "retry"
    /\ ppc' = "put" /\ now' = NONE
    /\ todo' = todo \ {now}
    /\ UNCHANGED <<event, stateVars, sseClients, q, hpc, hand, pageVars, dropped>>

\* The second put_nowait.  A queue that is full again is given up.
Retry ==
    /\ ppc = "retry"
    /\ ppc' = "put" /\ now' = NONE
    /\ IF Len(q[now]) < MaxQueue
         THEN Enqueue(now) /\ UNCHANGED sseClients
         ELSE /\ todo' = todo \ {now}
              /\ sseClients' = sseClients \ {now}
              /\ UNCHANGED <<q, dropped>>
    /\ UNCHANGED <<event, stateVars, hpc, hand, pageVars>>

PushEnd == /\ ppc = "put" /\ todo = {}
           /\ ppc' = "idle" /\ event' = NONE
           /\ UNCHANGED <<todo, now, stateVars, sseClients, q, hpc, hand, pageVars, dropped>>

-----------------------------------------------------------------------------
(* A page's handler thread: _serve_sse *)

\* add_sse_client, with a new queue.
Register(c) == /\ hpc[c] = "register" /\ LockFree
               /\ q' = [q EXCEPT ![c] = << >>]
               /\ sseClients' = sseClients \cup {c}
               /\ hpc' = [hpc EXCEPT ![c] = "relay"]
               /\ UNCHANGED <<producerVars, stateVars, hand, pageVars, dropped>>

\* A write to the page: it waits while the page does not read; if the page is gone
\* its exception leads to the finally clause.
Write(c, k, number, next) ==
    /\ peer[c] # "stalled"
    /\ IF peer[c] = "up"
         THEN /\ view' = [view EXCEPT ![c][k] = number]
              /\ hpc' = [hpc EXCEPT ![c] = next]
         ELSE /\ hpc' = [hpc EXCEPT ![c] = "remove"]
              /\ UNCHANGED view

\* The snapshot: a value that is not there yet is not sent.
SnapshotOf(c, k, next) ==
    /\ hpc[c] = k
    /\ IF latest[k] = 0 THEN hpc' = [hpc EXCEPT ![c] = next] /\ UNCHANGED view
                        ELSE Write(c, k, latest[k], next)
    /\ UNCHANGED <<producerVars, stateVars, sseClients, q, hand, peer, dropped>>

Snapshot(c) == SnapshotOf(c, "relay", "telemetry") \/ SnapshotOf(c, "telemetry", "loop")

Take(c) == /\ hpc[c] = "loop" /\ q[c] # << >>
           /\ hand' = [hand EXCEPT ![c] = Head(q[c])]
           /\ q' = [q EXCEPT ![c] = Tail(@)]
           /\ hpc' = [hpc EXCEPT ![c] = "write"]
           /\ UNCHANGED <<producerVars, stateVars, sseClients, pageVars, dropped>>

WriteEvent(c) == /\ hpc[c] = "write"
                 /\ Write(c, hand[c].kind, hand[c].number, "loop")
                 /\ hand' = [hand EXCEPT ![c] = NONE]
                 /\ UNCHANGED <<producerVars, stateVars, sseClients, q, peer, dropped>>

\* A keepalive to a page that is gone; to any other it changes nothing.
KeepAlive(c) == /\ hpc[c] = "loop" /\ q[c] = << >> /\ peer[c] = "gone"
                /\ hpc' = [hpc EXCEPT ![c] = "remove"]
                /\ UNCHANGED <<producerVars, stateVars, sseClients, q, hand, pageVars, dropped>>

\* A bug: the queue stays in the list.
RemoveNever(c) == /\ hpc[c] = "remove"
                  /\ hpc' = [hpc EXCEPT ![c] = "off"]
                  /\ q' = [q EXCEPT ![c] = << >>]
                  /\ dropped' = [dropped EXCEPT ![c] = {}]
                  /\ UNCHANGED <<producerVars, stateVars, sseClients, hand, pageVars>>

Remove(c) == /\ hpc[c] = "remove" /\ LockFree
             /\ sseClients' = sseClients \ {c}
             /\ hpc' = [hpc EXCEPT ![c] = "off"]
             /\ q' = [q EXCEPT ![c] = << >>]
             /\ dropped' = [dropped EXCEPT ![c] = {}]
             /\ UNCHANGED <<producerVars, stateVars, hand, pageVars>>

-----------------------------------------------------------------------------
(* The pages *)

Open(c) == /\ hpc[c] = "off"
           /\ hpc' = [hpc EXCEPT ![c] = "register"]
           /\ peer' = [peer EXCEPT ![c] = "up"]
           /\ view' = [view EXCEPT ![c] = [k \in Kinds |-> 0]]
           /\ UNCHANGED <<producerVars, stateVars, sseClients, q, hand, dropped>>

PeerChanges(c) == /\ hpc[c] # "off"
                  /\ \/ peer[c] = "up" /\ peer' = [peer EXCEPT ![c] = "stalled"]
                     \/ peer[c] # "gone" /\ peer' = [peer EXCEPT ![c] = "gone"]
                  /\ UNCHANGED <<producerVars, stateVars, sseClients, q, hpc, hand, view, dropped>>

StallEnds(c) == /\ peer[c] = "stalled"
                /\ peer' = [peer EXCEPT ![c] = "up"]
                /\ UNCHANGED <<producerVars, stateVars, sseClients, q, hpc, hand, view, dropped>>

-----------------------------------------------------------------------------
Producer   == PushBegin \/ Evict \/ Retry \/ PushEnd \/ \E c \in Clients : Put(c)
Handler(c) == Register(c) \/ Snapshot(c) \/ Take(c) \/ WriteEvent(c) \/ KeepAlive(c) \/ Remove(c)
Page(c)    == Open(c) \/ PeerChanges(c) \/ StallEnds(c)

Next == Producer \/ (\E k \in Kinds : Publish(k)) \/ \E c \in Clients : Handler(c) \/ Page(c)

Spec == Init /\ [][Next]_vars

\* The threads run, also where they wait for the lock or for a page that reads now
\* and then.
FairSpec == Spec /\ WF_vars(Producer)
                 /\ \A c \in Clients : SF_vars(Handler(c))

-----------------------------------------------------------------------------
(* Properties *)

\* Each variable keeps its type, the program counters their places and the queues
\* their bound.
TypeOK ==
    /\ ppc \in {"idle", "lock", "put", "evict", "retry"}
    /\ event \in Events \cup {NONE} /\ todo \subseteq Clients /\ now \in Clients \cup {NONE}
    /\ latest \in [Kinds -> 0 .. MaxEvents] /\ count \in 0 .. MaxEvents
    /\ sseClients \subseteq Clients
    /\ q \in [Clients -> Seq(Events)] /\ \A c \in Clients : Len(q[c]) <= MaxQueue
    /\ hpc \in [Clients -> {"off", "register", "relay", "telemetry", "loop", "write", "remove"}]
    /\ hand \in [Clients -> Events \cup {NONE}]
    /\ peer \in [Clients -> {"up", "stalled", "gone"}]
    /\ view \in [Clients -> [Kinds -> 0 .. MaxEvents]]
    /\ dropped \in [Clients -> SUBSET Kinds]

\* Only pages with a handler behind them are in the list, and every handler that
\* reads its queue is served: add_sse_client and remove_sse_client, and a queue
\* that was full is never given up although its handler reads beside.
RegistrySound == \A c \in Clients :
    c \in sseClients <=> hpc[c] \in {"relay", "telemetry", "loop", "write", "remove"}

\* A page with nothing to come shows the latest value of each kind, unless that
\* value was thrown out of its queue: between registration and snapshot nothing
\* falls through, and nothing old is left on the page.
Settled(c) == hpc[c] = "loop" /\ q[c] = << >> /\ ppc = "idle"
ShowsLatest(c, k) == view[c][k] = latest[k]
CurrentUnlessDropped == \A c \in Clients : Settled(c) =>
    \A k \in Kinds : ShowsLatest(c, k) \/ k \in dropped[c]

\* The last event of all is never the one thrown out.
NewestKept == \A c \in Clients : Settled(c) => \E k \in Kinds : latest[k] = count /\ ShowsLatest(c, k)

\* A page that goes on reading comes to show the latest values, except those that
\* were thrown out of its queue, and stays with them.
Listens(c) == hpc[c] # "off" /\ peer[c] = "up"
ComesUpToDate == \A c \in Clients : <>[]Listens(c) =>
    <>[](Settled(c) /\ \A k \in Kinds : ShowsLatest(c, k) \/ k \in dropped[c])
=============================================================================

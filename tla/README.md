# A formal model of the HS720 relay and client

TLA+ specifications of the programs of this repository, checked with TLC and
proved about with TLAPS. File references are to the repository; `relay.py` is
`src/relay/relay.py`, `dashboard` is `src/client/dashboard/__init__.py`.

`PROJECT.json` holds the same information for tools: the components, the runs,
which source lines each definition stands for, the hazards, and for every
checked property a mutation of the code's model that breaks it.

## 1. The system

    drone  <-- TCP 8080/UDP -->  relay (Raspberry Pi)  <-- TCP 4900, UDP -->  client(s)
                                                                       |
                                                          dashboard  <-- SSE, WebSocket -->  pages

The **relay** is a state machine that scans for the drone's access point,
associates, dials the drone, authenticates and then copies the drone's frames to
every TCP client and the clients' bytes to the drone. The **client** keeps a
connection to the relay, parses telemetry, receives video, and the **dashboard**
passes both on to browser pages.

### Components

| Component | State | Operations | Talks to |
|---|---|---|---|
| Relay main thread (`run`, `_do_*`) | `state`, `_drone_sock` | scan, associate, dial, authenticate, init sequence, receive, fall back | drone, nmcli, clients |
| Relay accept thread | `_clients` (with `_clients_lock`) | accept, list, greet, start a receive thread | clients |
| Relay receive threads, one per client | socket | receive, forward to the drone, unlist, close | main thread's `_drone_sock` |
| Frame transport | the buffers of `_do_ready` and `_recv_loop` | cut TCP streams into GOL frames | |
| Relay video threads | `_video_clients` with times | register, expire, copy | video receivers |
| Relay serial uplink | none | send a datagram on | drone |
| Authentication | none | encode and decode the key | |
| Client connection | `_sock`, `_running`, latest values | connect, disconnect, send, receive | relay |
| Video receiver (`video.py`) | `_running`, time of the last registration | register, receive | relay |
| Entry point (`main.py`) | two threads over the two above | connect in the background, stop on Enter | all of the client |
| Packets and telemetry parsers | none | build, sum up, validate, read by offset | |
| Dashboard video | stream buffer, SPS, PPS, config, cached keyframe, `_ws_clients` | split and classify NAL units, push, greet pages | pages |
| Dashboard telemetry | latest values, a bounded queue per page | publish, snapshot, write | pages |
| `research/drone_control.py` | `sock`, `_running`, a receive thread per connect | connect and authenticate, disconnect, commands | drone |
| Logger, deployment, the other research scripts, RF scripts | none or local | | |

### What is hard

* Several threads use `_drone_sock` and only the main thread replaces it; nothing
  is locked (relay.py:332-334).
* A greeting races the broadcast of a change of state (relay.py:315); the main
  thread closes sockets other threads use (relay.py:443).
* A drone that restarts does not say so; a session ends only when somebody
  notices (relay.py:188-217).
* TCP cuts streams anywhere, and buffers are cut down when they grow
  (relay.py:199-205, connection.py:146-171).
* A registration may be lost, the relay may be started anew, and the entry has to
  outlive both or come back (relay.py:367-393, video.py:104-111), though the renewal
  waits behind a callback that may be held up (video.py:91).
* The video thread sends, without a timeout, while it holds the lock new pages need;
  handlers read its caches without it, and its parameter sets change (dashboard:119-133,
  243-253, 262-279).
* Whatever the dashboard raises at a damaged packet leaves the video loop
  (video.py:98-102).
* A bounded queue drops while it is read (dashboard:213-226).
* Four threads of the client share fields that no lock guards: `connect` sets
  `_running`, the socket's timeout and the thread one after the other
  (connection.py:89-94), `stop` clears them at any time (main.py:32-34), and a callback is
  tested and called in two reads (connection.py:203).
* After a disconnect and a connect of `drone_control.py` the old receive thread
  may go on with the new socket, beside the new thread and the handshake
  (drone_control.py:462); and a connect that timed out leaves a socket behind on which
  the kernel goes on (drone_control.py:306).
* Fields are read from damaged and shortened packets by hand-written offsets and
  length checks (telemetry.py:183-285), and a start code may be cut between two
  packets (dashboard:286-310).

What makes each component correct, and which property states it, is in section 3;
every place where the code can go wrong is a hazard in `PROJECT.json`.

## 2. The modules

| Module | Models | Extends |
|---|---|---|
| `RelayState` | the states and the edges of the relay's state machine | |
| `RelayLifecycle` | **abstract**: one connection, READY only over a complete one, released before the next scan | `RelayState` |
| `RelaySession` | main thread and drone session, with the clients' threads that write on the drone's socket | `RelayState`, instantiates `RelayLifecycle` |
| `RelayClients` | accept thread, list of clients, greetings, broadcasts, receive threads | `RelayState` |
| `GolStream` | framing over both hops: relay buffer, TCP, client buffer | |
| `ClientProgram` | main thread, `connect_background`, both receive threads, callbacks | |
| `Packets` | packets: builders, checksum, validation, the parsers' layouts | |
| `NalSplitter` | the video stream cut at start codes, with lost packets | |
| `AuthKey` | `log_encode_key`, `log_decode_key` and the exchange of keys | |
| `VideoRegistry` | the relay's table of video receivers and their renewals | |
| `DashboardVideo` | NAL units, caches, pushes, WebSocket handlers, the page's decoder | |
| `SseFanout` | the events' queues, snapshots, keepalives | |
| `DroneControl` | `research/drone_control.py`: command line and receive threads | |
| `RelaySessionProofs`, `RelayClientsProofs`, `VideoRegistryProofs`, `ClientProgramProofs`, `DashboardVideoProofs`, `SseFanoutProofs`, `DroneControlProofs` | theorems | the module of that name |
| `CodecProofs` | theorems about the algorithms on bytes | `AuthKey`, `Packets`, `NalSplitter`, `GolStream` |
| `MC...` | small instances for TLC | |

`RelaySession` and `RelayClients` are two views of one process that meet in
`state`: `RelayClients` lets the main thread take any edge of `RelayState!Edges`
whenever it is not busy, and `RelaySession` proves that it takes no other
(`EdgesOnly`, theorem `EdgesHold`). `ClientProgram` takes frames as whole units,
which is what `GolStream` shows of the stream; what a callback does with a frame
is in `Packets`, `NalSplitter`, `DashboardVideo` and `SseFanout`. `MCCodecs` runs
the four modules about bytes side by side, one at a time. The rest share nothing
but sockets.

### How state and actions correspond to the code

**RelaySession.** `state` and `sock` are the fields of the same names; `pc` says
where the main thread is between two blocking calls (`connect`, waiting for the
challenge, for the acknowledgement, in the init sequence, between `_close_drone`
and `_set_state(SCANNING)`). `open` is history: the sockets not closed. Every
blocking call or send is a step, so every other thread may run in between. An
exception of `_do_drone_connect` is one action, `HandshakeFailed`, that may happen
at each of them, with `_close_drone` inside of it. A client's receive thread has
three steps: `recv`, the test `state == READY`, and the `sendall` that reads
`_drone_sock` a second time. The environment loses and regains the WiFi, and the
drone accepts, rejects, closes, or forgets the connection without a word
(`link = "dead"`), after which data sent provoke a reset.

**RelayClients.** The broadcast holds the lock for one send after the other
(`BroadcastTo`); accepting and unlisting take it for one step. The greeting
(`GreetRead`, `GreetSend`) does not hold it and reads the state in a step of its
own, as `_send_status` does. `AcceptFails` is an exception of `accept` that is no
timeout, which leaves the loop. `missed` and `overtaken` are history: who was not
reached by the last status, and whose last status was a greeting that came after
a newer one.

**GolStream.** A frame is a header with its length, payload tokens and a footer. A
payload may contain what looks like a footer, and what looks like a header with any
length in it (`Start(FAKE, n)`). `Unwrap` is `gol_unwrap`, `Rest` is what
both ends do with their buffers. `delivered` are the frames the client has handled, in
their order, with the relay's greeting as number 0. `StreamAssumption` says how the
bounds are related in the code (4096 + 4096 <= 16384), without which a buffer could
outgrow its bound. `skipped` is history: frames that went by while the
client was away or inside `connect`, which reads once and throws the rest away.

**VideoRegistry.** Time is counted in ticks; `age` is the table, `since`, `wait` and
`held` are the receiver's clocks: since its last registration, in `recvfrom`, and in
`on_packet`, which comes before the renewal is looked at and takes as long as it
takes (`cpc = "call"`). `MaxHeld` bounds only the count of that time. A datagram is
delivered or lost in the step that sends it. Expired entries go when a packet of the
drone comes, as in the code. `listens` is the relay's thread for registrations,
which an exception ends until the relay is started anew (`RegLoopEnds`). `lost` and
`slow` are history: registrations that did not get there in a row, and receivers
held up for longer than the times leave (`Quick`).

**AuthKey.** A word is the set of its one bits, at its full width; `Field` and
`Place` are the shifts and masks, each field with the offsets of the code. The
steps of the two functions are operators applied in the order of the code
(`NewKeys`, `WriteUser`, `Scramble`, `Seal`, the checksum). Around them the state
machine is `_authenticate` with the drone as its peer, which is taken to use the
same functions with `is_app = 0`. `client/auth.py` is a second copy of them that
differs in layout only; some definitions are mapped to it.

**DashboardVideo.** A NAL unit is its kind and a version: with each SPS the drone may go
over to new parameter sets. `sps`, `pps`, the two in the configuration (`config`),
in the cached keyframe (`keyPair`) and in what a page was told (`codec`) are versions.
A keyframe message is false (`"falsekey"`) if its picture needs another, or other parameter sets than
those bundled with it. The handler reads configuration and
keyframe in two steps without the lock and registers in a third with it;
`_push_video` sends to one page after the other with the lock held, and a page
whose buffers are full (`"stalled"`) makes the send wait. The page's decoder
follows `ws.onmessage` of `index.html`.

**SseFanout.** Events are numbered; `latest` is what the snapshot is built from.
`Put`, `Evict` and `Retry` are the three queue operations of `_push_sse`, between
which the handler may take from the queue. All kinds but the relay's state behave
alike and are one kind.

**ClientProgram.** `main`, `bg`, `rx` and `vrx` say where the main thread,
`connect_background`, `Connection._recv_loop` and `VideoReceiver._recv_loop` are
between two accesses to what they share; `running`, `sock`, `vrunning`, `vsock`,
`relay_state` and `hooked` (the dashboard's callbacks) are the fields, a socket being
`"open"` or `"none"`, also when closed. `link` and `wire` are the TCP connection
with the frames on their way. The one read of `connect` takes frames from `wire` and
may end in a cut one, whose rest is then useless to the receive thread: `cut` is
history of that. `late` is history too: the sockets made after `stop` has looked for
them. A callback is one step to test and one to call (`RxHandle`, `RxCall`), as in
the code, so that `Unhook` may come between and the call of `None` ends the thread.
The video thread's callback may raise, which leaves the loop (`raised`), and may be
held in `ws.send` by a page that does not read (`vrx = "held"`), until that page reads
or its connection goes (`PageReads`). Left out: a log that cannot be written, and that
an open page keeps the process alive after `main`.

**Packets.** A packet is a sequence of bytes and offsets count from zero as in the
code. `Telemetry`, `Control` and `Ptz` list, for each field, its place, its size and
how it is read; `Parse` applies them with the length checks of the code, and a read
behind the end is the value `RAISES`. Floats stay integers in the unit of the
packet. Around it a packet is built, then damaged, flipped in one bit or cut. What it
is built from are constants (`Sticks`, `CtrlFlags`, `Commands`, `Coordinates`, `Bodies`);
`PacketAssumption` keeps them to what `bytes()` and `struct.pack` do not raise on.

**NalSplitter.** `Split` is the loop of `_process_h264`: units between two start
codes, the last code onward stays in the buffer. `Raises` are the units on which
`_handle_nal` or `_build_avcc` raise, which ends the video thread (`alive`), since
nothing between there and `VideoReceiver._recv_loop` catches it. `sent` and `lost`
are places in the stream, `handled` is what was given to `_handle_nal`, the empty units
included on which it returns at once. `Positions` is the search for the codes, which goes
on behind the four bytes of the one it has found. `UnitAssumption` states what H.264
guarantees of a unit: no start code in it or across its end, and parameter sets
of a length that `_handle_nal` and `_build_avcc` can take.

**DroneControl.** `Dial` sends the SYN of `connect`, `Establish` is the drone that takes
the connection, at any time, or refuses it, and `DialEnds` is `connect` returning,
raising, or timing out: the last leaves a socket on which the drone may still
answer, and `overdue` is history of that. A connection is numbered by its socket, and so is the receive
thread it was started with; `on[t]` is the socket that thread's `recv` was called on,
which it keeps while `self.sock` changes. Frames are their kinds. `Fails` is each of
the ways `connect_and_auth` can return False; a reset in its `recv` is not caught
and ends the program (`"gone"`). Python closes a socket that nothing refers to any
more: `Open` is derived. `stray` is history.

## 3. What is checked

| Run | Instance | Properties |
|---|---|---|
| `session` | 2 clients, 2 sockets | `TypeOK`, `SingleConnection`, `AssertionsHold`, `ReadyMeansAccepted`, `ImplementsLifecycle`, `BrokenLinkNoticed`, `ServiceReturns` |
| `session_dead_link` | the same | violated, section 6 |
| `clients_safety` | 2 clients, symmetric | `RegistrySound`, `StatusCurrent` |
| `clients_liveness` | 2 clients, the second beside the first | `GoneReleased`, `ChangesArrive` |
| `client` | 2 statuses, 2 frames on their way | `ReceiverStays`, `StatusNeverGoesBack`, `StatusArrives`, `StopEnds` |
| `codecs` | see below | `ChallengeRead`, `AnswerAccepted`, `CorruptionDetected`, `TruncationSafe`, `OneFieldEach`, `GpsRoundTrip`, `CutsDontMatter`, `LossIsLocal`, `BuffersBounded`, `InOrder`, `EveryFrameDelivered` |
| `video` | 1 lost packet; 2 pages, or 1 page and 2 versions of the parameter sets | `CacheSound`, `RegistrySound`, `KeysStandAlone`, `Plays` |
| `video_codec` | 1 page | violated, section 6 |
| `video_stalled` | 2 pages | violated, section 6 |
| `sse` | 2 pages, queues of 1, 2 events | `RegistrySound`, `CurrentUnlessDropped`, `NewestKept`, `ComesUpToDate` |
| `registry` | 1 receiver, the code's times 30, 10, 2, calls of up to 11 ticks | `StaysRegistered`, `RenewsInTime`, `StoppedForgotten` |
| `drone_control` | 2 connections, 3 frames waiting | `NothingBeforeAccept`, `ConnectReturns`, `OldConnectionDropped` |

**session.** `SingleConnection`: whatever fails wherever, the sockets open are
the one `_drone_sock` refers to. `AssertionsHold`: none of the assertions of the
code can fail. `ReadyMeansAccepted`: READY is announced only over a session that
was accepted and fully initialised, or one into which a client's data slipped
(then any frame may be taken for the acknowledgement). `ImplementsLifecycle`: the
refinement of `RelayLifecycle`, as a property of TLC. `BrokenLinkNoticed`: a reset or
closed link is given up. `ServiceReturns`: if a reachable drone is there and faults
stop, the relay ends up in READY for good from any state they left it in; a session whose
drone is gone without a word counts too, as the relay is READY over it (section 6).

**clients.** `RegistrySound`: listed clients are open, and each open connection
has a thread that will notice its end, in spite of three kinds of threads that
close, unlist and greet. `StatusCurrent`: once a broadcast has passed a client it
has the present state unless a status was lost on it or its greeting was
overtaken - the only two explanations. `GoneReleased` and `ChangesArrive` say that
connections are released and changes arrive in the end, also if another client
has stopped reading for good.

**client.** `ReceiverStays`: until Enter the telemetry's receive thread ends only with its
connection, and the video's only with a packet at which the dashboard raises, in
whatever order `connect` and the threads run. `StatusNeverGoesBack`:
`connect` and the receive thread both handle frames, and neither ever puts an older
status over a newer one. `StatusArrives`: the last status comes to the page unless
`connect` has read a part of it, or the connection is reset. `StopEnds`: Enter at any
time, also in the middle of `connect`, closes both sockets and ends both threads,
except for a socket made after `stop` had looked, and for the video thread as long as
a page that does not read holds it: `Dashboard.stop` leaves that connection open.

**codecs.** `ChallengeRead`: what the drone encoded is what `_authenticate` decodes,
whatever keys were drawn. `AnswerAccepted`: the drone reads its own word and user
id back from the answer, and a new word of the application. `CorruptionDetected`:
a packet is valid when built, and no longer with any one byte changed or the end
missing. `TruncationSafe`: a shortened report never raises, and never yields a
part of a number. `OneFieldEach`: each bit of a report belongs to one field, and none but
the two spare ones to no field. `GpsRoundTrip`: what `build_gps_info` writes,
`parse_telemetry` reads. `CutsDontMatter`: the units handled do not depend on how the
stream is cut into packets. `LossIsLocal`: a lost packet harms the units it carries
a part of and no other, until one that lost a part and has a byte of a parameter set's
type in it ends the thread - the rest of it is taken for a parameter set.
`BuffersBounded`: neither buffer of the stream outgrows the code's bound. `InOrder`: no
frame is handled twice or out of order. `EveryFrameDelivered`: none is lost that fits
into the buffers and came after `connect`, and nothing else is taken for one, however TCP
cuts the stream and whatever oversized frame came before. Two kinds of payload are
excepted (`Clear`), since the code loses frames over them. With a footer in a payload
a frame that has come in part is cut in two (`rfind` finds the footer inside of it).
And with a header in a payload `gol_unwrap` comes to read it, with any length it tells,
once the header of the frame itself is gone, to `connect`'s read or to the cut
of a full buffer: then it can hold back and swallow the frames behind. Headers inside
of frames that keep their own are covered. The other two properties are checked with
all of these.

**video.** `CacheSound`: whenever a handler may read them, configuration and keyframe
are of the same parameter sets, but for two gaps of the code: from a new PPS to
the picture behind it, and after an SPS whose PPS was lost. And a handler that has
sent the configuration finds no keyframe of older sets than it told, but in the first gap.
`RegistrySound`: exactly the live pages whose handlers are through are pushed to.
`KeysStandAlone`: a picture that needs another, or other parameter sets than it is
bundled with, is sent as a keyframe only if a packet was lost. `Plays`: a page that
connects once there is a configuration comes to play, on the assumption that each
page that stalls reads again.

**sse.** `RegistrySound`: a queue is listed exactly while its handler reads it.
`CurrentUnlessDropped`, `NewestKept`: what a settled page shows is the latest value of
each kind or was dropped from its full queue, and the newest value is never the one
dropped. `ComesUpToDate` is their liveness.

**registry.** `StaysRegistered`: a running receiver is in the table unless two
registrations in a row are lost, or calls of `on_packet` have held the renewal up by
more than the times leave: three seconds of each of two periods, with the code's. Behind a page that
does not read for longer, the relay forgets a receiver that lost nothing.
`RenewsInTime`: a registration is never older than the period, one wait and the call
that is going on, video or no video; what earlier calls took does not add up.
`StoppedForgotten`: a stopped receiver drops out.

**drone_control.** `NothingBeforeAccept`: on a connection the drone has not accepted
it receives the answer to its challenge and nothing else, although `self.sock` stays
set after a failure and an old thread may take frames of the new handshake. The one
exception is a socket whose connect timed out, which stays open and on which a
drone may answer later (`overdue`).
`ConnectReturns`: no drone can hold the command line up. `OldConnectionDropped`: a
connection that was given up is let go of by the thread that still reads it.

### Bounds, and why they are enough

* Two clients are one that is greeted and one that is told or dropped, or two that
  write on the drone's socket; slots are used again without bound, so that an
  earlier connection meets the steps of a later one.
* Two sockets: the session that ends and the one that follows. The theorems of
  section 5 hold for any number of either.
* `clients_liveness` has a second client that connects only beside the first and
  does not read again once it has stalled: `BesideSpec`. It is the one that holds a
  broadcast up while the first does everything a client does.
* Three frames: one before, one cut and one after. Payloads are
  empty, of one token, which just fits into a buffer that is cut to 3 (`KeepBuf`), or of
  six, which does not and exceeds `MaxBuf = 6` with its header and footer; or they hold a
  footer, a header that tells too much, or one that tells too little.
  Receives take up to 3 tokens.
* `MaxStatus = 2`, `MaxWire = 2`: an older and a newer status, and a read of
  `connect` that takes a whole frame and a part of the next. The theorems of
  `ClientProgramProofs` hold for any number.
* One lost packet of the video: every flag of `_handle_nal` meets the loss of each
  kind of NAL unit. Two pages: one that is pushed to while another connects or stalls.
  Two versions: the sets before and after a change. `PagesOrSetsSpec` has either two
  pages or two versions, to keep liveness within reach; the theorems of
  `DashboardVideoProofs` hold for any number of all three together.
* A queue of one is full after every event, so that eviction meets every step of
  the handler; two events make one of either kind follow the other.
* The functions of `AuthKey` only copy and exclusive-or bits, apart from the three
  shifts and the index of the table, so that three words (none, an uneven pattern,
  the upper half) put both values into nearly every field and all sequences
  of draws are tried, with two users and a table of 512. They do not try every
  shift with every word of a table; the theorems of `CodecProofs` hold for all.
* Packets: every byte of every packet takes every other value, every bit of every
  report is flipped, every place is cut at; sticks are in range and out of it,
  `Coordinates` reach the date line and hold values with distinct bytes of either sign,
  and the bytes of a report are all 0, 1, 128 or 255. The theorems hold for any.
* NAL units: three in any order out of four, an SPS, a one-byte PPS, and two slices
  of which one holds a part of a start code; packets of up to five bytes, longer
  than a start code, so that each code is cut everywhere and each unit lost in part or
  whole. The theorems hold for any units, cuts and losses. `MaxSet = 4` stands for the 65535 bytes whose length fits into the two bytes of
  `_build_avcc`.
* `MaxConns = 2`: the connection given up and the next. `MaxInbox = 3`: a
  challenge, a verdict and a report can wait together.
* One receiver: each is treated by itself. The times are the code's; `MaxHeld = 11` is
  longer than the period and than the times leave (`HeldAssumption`), so that calls
  are within limits, beyond them, and longer than a period.

Deadlock is not checked in `codecs`, where the drone's stream and
the damage to a packet end, and in `client` and `drone_control`, whose programs
stop.

### Fairness, and why the code justifies it

* `RelaySession!FairSpec`: weak fairness of the main thread's own steps (its
  receives and its commands have timeouts, its loop never ends) and of the reset
  TCP reports when data stay unacknowledged. `ServiceReturns` states the
  fairness of the drone (found by scans, associates, accepts) as its premise.
* `RelayClients!FairSpec`: the broadcast goes on, since every send has a timeout;
  the accept thread runs; strong fairness of the receive threads, which wait for a
  lock that is free again and again.
* `ClientProgram!Fairness`: the four threads run, since each `recv` has its timeout. The
  `ws.send` in the video thread's callback has none: `PageReads`, which ends it, is
  not fair. The relay need neither send nor hang up, and nobody need press Enter.
* `DashboardVideo!FairSpec`: threads run, strongly fair where they wait for the lock or
  for a page that reads now and then; the drone repeats its parameter sets. A page may stop
  reading for ever, and `video_stalled` shows what follows. `PatientSpec` adds that none
  does, which the code does not see to: `Plays` is what holds on that assumption.
* `SseFanout!FairSpec`: the receive thread and the handlers run.
* `VideoRegistry!FairSpec`: time passes, receivers run, the drone sends video, as
  entries expire only when a packet comes. `on_packet` need not return.
* `DroneControl!Fairness`: `connect_and_auth` and the receive threads go on, as each of
  their waits has a timeout; the drone may be silent and the operator idle.

## 4. Abstractions to know about

* Payloads, formats and log lines are left out; so is the order of lists that are
  only walked through.
* Bytes of clients are not followed: that the relay forwards what one `recv`
  returned, so that two clients' frames can mix on the drone's stream, is not in
  the model. The init sequence is a count of frames.
* Two relay threads inside `sendall` on one client's socket (a greeting and a
  broadcast) are atomic; the kernel may interleave large ones.
* A header or footer of which only a part has come is one that has not come, and what
  looks like one in a payload is whole within it; its bytes and those around it do
  not make another.
* A handler of the dashboard that waits in a send takes the configuration or keyframe
  that is there when it goes on, not when it began.
* A page connects again only after its old handler ended; a browser may be faster.
* In `DashboardVideo` each NAL unit comes whole or not at all; what a lost part of a
  unit does is `NalSplitter`'s.
* `DroneControl` has a drone that sends challenges, verdicts and reports only, and
  reports to whom it has accepted; `_authenticated`, which is written and never read,
  is left out.
* Locks are not assumed to be fair beyond the fairness above.

## 5. What is proved

All theorems are checked by `tlapm` from the assumptions on constants named in
the modules, for any clients, pages, sockets, queues, times, payloads, units and cuts.
Every safety property the runs check is the statement of a theorem.

* **`RelaySessionProofs`**: `TypeInvariance`, `SingleConnectionHolds`,
  `NoAssertionFails`, `ReadyIsAccepted`, `EdgesHold`, `Refinement`. The invariant is
  `IInv == TypeOK /\ SingleConnection /\ PcInv /\ ProgressInv`. The properties are
  not inductive: that `InitDone` leads to an accepted session rests on what each
  step of the handshake established (`ProgressInv`), and that it finds a socket on
  where the main thread is (`PcInv`). `CleanStart`, a part of it, says that nothing
  of an earlier connection survives `_close_drone`. `Refinement` shows
  `Spec => Lifecycle!Spec` with `conn` computed from `pc`, `sock` and how far the
  handshake is: initial states map to initial states and steps to steps or stutters.
* **`RelayClientsProofs`**: `TypeInvariance`, `RegistryIsSound`, `StatusIsCurrent`,
  from `IInv == TypeOK /\ GreetInv /\ RegistrySound /\ StatusCurrent`. `GreetInv`
  says that the accept thread greets one client at a time, which has no receive
  thread yet: this is how a connection is handed over without a gap.
* **`VideoRegistryProofs`**: `TypeInvariance`, `Renewal`, `Registration`, from
  `IInv == TypeOK /\ Renews /\ EntryAge`: a registration is at most `Period` plus
  the present wait and the present call old (`Renews`), and the entry of a receiver that
  was not held up for too long at most one renewal older (`EntryAge`). `OneLossAssumption`,
  `2 * (Period + Poll) <= Timeout`, is what the code's constants satisfy (24 <= 30);
  how long the calls may be follows from what is left.
* **`ClientProgramProofs`**: `TypeInvariance`, `ReceiversStay`, `StatusOrder`, from
  `IInv == TypeOK /\ StartInv /\ ReceiverStays /\ OrderInv`. `StartInv` says how far
  `connect` and `start` have come when a thread runs: fields before threads, which
  is why no thread looks too early, and that a video thread that is over without Enter has
  raised. `OrderInv` lines up what the page shows, what
  `connect` holds, what the receive thread holds and what is on its way, each status
  at least the one before.
* **`DashboardVideoProofs`**: `TypeInvariance`, `CacheIsSound`, `KeyframesStandAlone`,
  `RegistryIsSound`, from `IInv == TypeOK /\ FlagInv /\ VersionInv /\ CacheSound /\
  KeysStandAlone /\ RegistrySound`. `FlagInv` says, while nothing is lost, which units can
  come next after what was cached and of which versions the sets are, and that the flag
  is set only before a slice that stands alone. `VersionInv` orders the versions, from the
  pages over the configuration and the fields to the drone: the configuration can be
  behind the fields in the SPS alone, and the keyframe behind it only under the flag.
* **`SseFanoutProofs`**: `TypeInvariance`, `RegistryIsSound`, `CurrentOrDropped`,
  `NewestIsKept`. The registry's soundness needs that an evicted queue has room for
  the second put, though its handler runs beside (`PushInv`). For the other two,
  `FollowInv` says of each page and kind where the latest value is: still to be
  pushed, last of its kind in the queue, in the handler's hand with nothing of its kind
  behind it, on the page or in the snapshot to come with nothing behind it - or
  dropped. `NewestInv` says that the push leaves no page whose drop is the newest.
* **`DroneControlProofs`**: `TypeInvariance`, `NothingStrays`, from `IInv == TypeOK /\
  HandshakeInv /\ AcceptanceInv /\ ReachInv /\ NothingBeforeAccept`: an
  acknowledgement in a connection's frames means that the drone has accepted it, and a
  socket to which a command can go is accepted, closed, reset, was never connected or
  is one whose connect timed out.
* **`CodecProofs`** is about the four modules on bytes. What they compute is written with
  recursive functions and folds, and induction over data is done with sets: a set of
  natural numbers that is not empty has a least one (`Least`, from the library's
  well-founded orders), hence what passes from each number to the next holds of all
  (`Ascent`, `Descent`), and a sum over a finite set is changed by what one summand is
  changed by (`SumChange`). A recursive function is first shown to exist as an
  equation (`SearchExists`).
  * **GolStream**: `StreamInvariance`, `StreamBounded`, `StreamOrder`, `StreamDelivers`,
    from `StreamInv == StreamTyped /\ BufInv /\ OrderInv /\ FilledInv /\ NothingLost /\
    NothingMore`.
    `BufInv` says that between two receives a buffer that still holds a whole frame was
    cut down to `KeepBuf`, and that any other has at most `MaxBuf`. `OrderInv` says that the numbers of the heads still on the way - client's buffer, pipe,
    relay's buffer, input - rise, and are greater than what was delivered; `FilledInv`
    that behind each head there is as much payload as it promises, however the stream
    was cut; `NothingLost` that a frame that fits and was not skipped is delivered or
    its head is still on the way; `NothingMore` that nothing else was taken for a frame. The
    headers inside of payloads are kept apart by `Covered`: as long as the stream is `Clear`,
    each of them stands behind the header of its own frame and before that frame's end, so
    that `gol_unwrap` steps over it. What `gol_unwrap` takes and `rfind` leaves is treated
    once, for both ends.
  * **NalSplitter**: `NalInvariance`, `CutsAreHarmless`, `LossStaysLocal`, from `NalInv`: what
    was handled and what is in the buffer are what `Split` finds in all that was received,
    taken at once. That this survives a packet is `SplitCat`: the codes in the last code
    onward and the new bytes are, moved, those of the whole, as two codes never
    overlap. `PositionsAre` says that the search of the code finds every place where a
    code stands, and finds it in order. With losses, `UnitWhole` shows that between two codes
    that enclose a byte of an unharmed unit that unit stands, since what is not lost arrives in a row
    and a code in a row of the stream is the code of a unit; a parameter set that raises is
    hence a unit of which something was lost (`RaisesSpoilt`).
  * **Packets**: `CorruptionIsDetected`, `TruncationIsSafe`, `OneFieldChanges`,
    `GpsRoundTrips`. `PacketInv` says what was done to the packet. A sum that one byte more or
    less enters changes modulo 256 (`LowBytes`); each field of a layout has one of a few
    shapes (`LayoutShape`), no two are made of the same bit (`LayoutOnce`), and a value
    depends on the bits it is made of and on each of them.
  * **AuthKey**: `ChallengeIsRead`, `AnswerIsAccepted`, for every word of 32 bits,
    every user id of 30 and every table. The lemma they rest on is `RoundTrip`: what either
    side encodes the other decodes. It follows the layers of the encoding, each undone in
    the reverse order: the checksum leaves a version of 0 behind, `Unseal` opens what
    `Seal` has closed (`SealOpened`), `Scramble` done twice changes nothing
    (`ScrambleTwice`) and `ReadUser` reads what `WriteUser` wrote (`UserRead`). Below
    are facts about fields placed into words: fields apart from each other do not
    touch, and each use in the code is an instance with its own offsets. The
    invariant of the exchange, `ExchangeInv`, says that what is on its way was encoded
    from what the peers have put in.

Only model-checked is all liveness, since the prover does not reason about fairness:
`BrokenLinkNoticed`, `ServiceReturns`, `GoneReleased`, `ChangesArrive`, `StatusArrives`,
`StopEnds`, `Plays`, `ComesUpToDate`, `StoppedForgotten`, `ConnectReturns` and
`OldConnectionDropped`.

## 6. Where code and words differ

Three runs find a behaviour of the modelled code that contradicts what the
repository says:

* `session_dead_link` - relay.py:9 "On failure at any stage, returns to
  SCANNING": a drone that restarted while the interface associates again is not
  noticed as long as no client sends.
* `video_codec` - docs/dashboard.md:44 "Config (sent once per connect)": a page
  that connects before the first parameter sets is never sent the configuration.
* `video_stalled` - docs/dashboard.md:60-63 "Per-client `Queue(maxsize=60)`", "On full
  queue: flush all frames", "WebSocket ping every 5s idle": the code has no queue for
  video, no flush and no ping. `_push_video` sends to one page after the other with
  the lock held, and one that does not read keeps all others from playing.

Other places a reader should know of, which the properties name as exceptions or
which lie outside of the models:

* relay.py:331-334: a receive thread that has found READY may be overtaken by a fall
  back and a new `connect`, and then sends before the handshake of the new session
  (the exception in `ReadyMeansAccepted`).
* relay.py:314-315: the greeting can arrive after the broadcast of a newer state and
  stays the last (the exception in `StatusCurrent`).
* client/protocol.py:112-123, connection.py:168: headers and footers inside of payloads
  (the exceptions in `EveryFrameDelivered`).
* video.py:91: a callback that is held up delays the renewal behind it, so that the relay
  forgets a receiver that lost nothing (`slow` in `StaysRegistered`).
* relay.py:377: an exception of the registration loop ends it for good, and the receivers
  are forgotten one after the other while the relay runs (`RegLoopEnds`).
* dashboard:269-279: a configuration is new with its PPS, the keyframe of before stays
  until the next picture, and a lost PPS leaves an SPS the configuration does not have
  (the gaps in `CacheSound`).
* connection.py:136: after the relay has closed the connection the receive thread ends,
  while `connected` stays true and `relay_state` keeps its last value.
* main.py:32: Enter in the middle of `connect` leaves a socket open that is made
  after `disconnect` has looked (`late` in `StopEnds`).
* drone_control.py:462: two threads may read one socket after a reconnect; then a
  handshake can miss its acknowledgement, and only the timeout ends it.
* drone_control.py:306: a connect that timed out leaves its socket open and in
  `self.sock`, and a drone that answers late gets commands on it (the exception in
  `NothingBeforeAccept`).
* dashboard:262, 313-327, video.py:98: a parameter set of which a packet was lost can raise
  and end the video thread with the stream going on (the exceptions in `LossIsLocal` and
  `ReceiverStays`).
* dashboard:249, video.py:62-72: a page that does not read keeps the video thread beyond `stop`
  (the exception in `StopEnds`).
* docs/protocol.md:143-144 gives `SetFence` as `aa 02 08 55 0f 1e 1e 00` and the status
  query as `aa 03 06 0e 05 00`; `build_set_fence` and `build_status_query`
  (client/protocol.py:188-193) build packets of 5 and 4 bytes. No property is about that:
  no other code of the repository sends either.
* docs/protocol.md:336: `CMD_UNLOCK` and `CMD_GEO_CAL` have the same value, 4.

## 7. Not modelled

The serial uplink (no state), the logger (output), `parse_device_info` and the names
derived for display (text), rendering of the page, deployment, the
research scripts but for `drone_control.py` (straight exchanges), and the RF scripts (pins).
`PROJECT.json` has a reason for each. A composition of relay and client in one module
is not written: they share one TCP stream, whose two ends are together in
`GolStream`, while what the relay says of its state and what the client makes of it
is cut at the order of statuses, which `RelayClients` keeps per connection and
`ClientProgram` starts from.

## 8. What is left

1. The two clients' bytes on the drone's stream (relay.py:334), with frames of several
   bytes, so that a mixture can be told from a frame.
2. The safety halves of the liveness properties as theorems: what must hold while
   something is awaited, such as which thread can still notice a closed connection.
3. The text of `parse_device_info`, if a property about it is wanted.

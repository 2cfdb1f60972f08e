# A TLA+ model of rtcd

rtcd is the media server of Mattermost Calls: a WebRTC selective forwarding
unit with a websocket API for the Mattermost nodes, an authentication service
and a small key-value store. The repository also holds the clients: the one
the Calls plugin embeds (`service.Client`) and a client that takes part in
calls (`client`). This directory models the parts in which goroutines and
messages meet, checks them with TLC on small instances, and proves the main
safety properties with TLAPS for every value of the constants.

`PROJECT.json` lists the components, the runs, the source lines behind each
definition (`map`), a mutation for each property, the disagreement found
between code and comment (`findings`), the hazards of the code and the
theorems.

## The system and its inventory

| Part | State | Operations | What is hard about it |
| --- | --- | --- | --- |
| `rtc.Server` registry (`sfu.go`, `session.go`, `server.go`, `group.go`, `call.go`) | maps of groups, calls and sessions under four kinds of mutex; `closeCh`, `doneCh`, `drainCh` | `InitSession`, `addSession`, `CloseSession`, `handleNegotiations`, `Stop` | lookups by ID after the lock was released; session IDs used again; a goroutine that closes the session it serves |
| Tracks of a call (`sfu.go` `OnTrack`, `handleTracks`; `session.go` `addTrack`, `removeTrack`; `call.go`) | outgoing tracks, `tracksCh`, senders, `screenTrackSender`, `rxTracks`, `screenSession` | a track arrives, is announced, negotiated, removed; screen on and off; close | queues that outlive what they speak of; an answer that comes late or never |
| Signaling (`session.go`, `server.go`, `dc/`, `client/rtc.go`) | offer, answer and candidate channels of both ends, `makingOffer` | offers both ways, ICE, over two transports | glare, timeouts, late answers, candidates before descriptions |
| Simulcast, rate monitor, voice detector, `multiConn` | level, rings of samples, voice state, pool of buffers | level changes, rate, activation, fan-in of sockets | thresholds, ring buffers, a close beside readers |
| `service` (`service.go`) | `connMap` | join, leave, reconnect, RTC messages, close callback | the callback runs in other goroutines than the loop |
| `auth`, `store` | accounts, token cache | register, unregister, login, authenticate | handlers run beside each other; the cache is not under the store's lock |
| `ws` server and client | connections, send and receive channels | upgrade, send, close, flush | close beside open; full channels |
| `service.Client`, `client` | connection state, reconnection | connect, reconnect, share, close | close beside reconnect |
| `api`, `perf`, `logger`, `config`, `cmd` | little or none | start, stop, decode | - |

The nodes talk to rtcd over websockets. One goroutine of the service handles
all their messages in order; `rtc.Server` answers over `receiveCh`, which
another goroutine forwards to the connection `connMap` names. Sessions also end
by themselves, in callbacks of the WebRTC library or in their negotiation
goroutine, at any time. `rtc.Server` is also a package of its own, embedded by
the Calls plugin, so its model lets calls of `InitSession` run beside each
other.

## Modules

| Module | Models | Proofs |
| --- | --- | --- |
| `SessionLifecycle` | what `rtc.Server` promises: a session enters its call once, leaves it once, is reported closed once | |
| `SessionRegistry` | `InitSession`, `addSession`, `CloseSession`, `handleNegotiations`, `Stop` | `SessionRegistryProofs` |
| `ServiceRouting` | `handleClientMsg`, `handleRTCMsg`, the close callback; uses `SessionLifecycle` for `rtc.Server` | `ServiceProofs` |
| `CallTracks` | `OnTrack`, `handleTracks`, `addTrack`, `removeTrack`, screen messages of `msgReader`, `handleSessionClose` | `CallTracksProofs` |
| `Signaling` | offers, answers and candidates between `client/rtc.go` and `service/rtc/session.go` | `SignalingProofs` |
| `Auth` | HTTP handlers of `service/auth.go`, `auth.Service`, `SessionCache`, the store | `ServiceProofs` |
| `WSServer` | `ws.Server` (`ServeHTTP`, `connWriter`, `Send`, `Close`) with the loops of the service | `WSServerProofs` |
| `WSClient` | `ws.Client`: reader, writer, flush | |
| `ServiceClient` | `service.Client` over links of `WSClient` | `ServiceClientProofs` |
| `CallsClient` | the Calls client: `Connect`, `wsReader`, `Close`, screen sharing | `CallsClientProofs` |
| `VoiceActivity` | `vad.Monitor` and its use by `OnTrack` and the mute messages | `MediaProofs` |
| `ScreenLevels` | the simulcast level a viewer is sent (`simulcast.go`, `OnTrack`, track loop) | `MediaProofs` |
| `RateMonitor` | `rate.go` | `MediaProofs` |
| `MultiConn` | readers, `ReadFrom` and `Close` of `multi_conn.go` | `MediaProofs` |
| `MC...` | instances for TLC; `MCMedia` runs the four last modules, one at a time | |

Many modules have *history variables*: they remember that something out of the
ordinary happened (a race was lost, a channel was full) and change nothing
else. What follows from such an event is modelled like everything else; a
property that holds only without it names the history. These exemptions are
part of the result: they are the behaviours in which the code does not keep the
property, or in which nobody promises it.

### SessionRegistry

A *join* is one call of `InitSession`, and names the session, group and call
objects it may allocate. Each section of code under a mutex is one step; local
variables that survive an unlock (`g`, `c`, `us`, `group`, `call`) are
variables of the model. *Closers* are the goroutines that call `CloseSession`
with an ID; the negotiation goroutine of a session is a closer too. `panic`
records a nil dereference, a second close of `closeCh` or a send on a closed
channel, after which nothing happens. `raced` is a history variable: the joins
that lost a race with a `CloseSession` (the call they fetched was unlinked, or
their entry taken, before `InitSession` was through). What such a race leads to
is modelled, not assumed away: a session in a call no lookup finds
(`session.go:110`), a nil group in `InitSession` (`sfu.go:260`), a nil call in
`handleTracks` (`sfu.go:773`).

### ServiceRouting

`handling` is what the loop over the nodes' messages is in the middle of:
between `InitSession` and the entry in `connMap`, or in the `CloseSession` of a
leave. `rtc.Server` is an instance of `SessionLifecycle`, the specification
`SessionRegistry` is shown to implement. `handleRTCMsg` takes two steps: it looks
`connMap` up, and sends on what it has found once it has let go of `Service.mut`
(`speaking` is what lies between). `moved` marks a message whose client has
reconnected between the two. `overlapped` marks session IDs that
joined while an earlier session of that ID was closing, `late` those whose
entry was made once the session was closed. `sent` is what was handed to
`wsServer.Send`, which may still drop it when a channel is full.

### CallTracks

One call. Tracks are records (kind, session, share, copy). An `OnTrack`
goroutine takes three steps: it classifies the track by the screen stream it
reads, sets it on its session, announces it to the others. `handleTracks` takes
one message of `tracksCh` at a time and waits for the answer in between
(`negotiating`). `CloseDetach` is `handleSessionClose` with the removal from
`call.sessions`, one section under `call.mut`. `msgReader` takes two steps for
a ScreenOn, since it holds on to the session it looked up. The Mattermost node
grants the screen to one client at a time (external, `StartShare`). Histories:
`orphaned`, tracks their session let go of while a queue, a negotiation or an
`OnTrack` goroutine still held them; `blocking`, screen tracks for which
another share was refused; `marred`, sessions whose queue was full or whose
negotiation failed. Packets, AV1 and simulcast selection are left out: a screen
track stands for the level and codec both ends agree on.

### Signaling

A Calls client and its session, with the node between them on the websocket
path. The client offers when the WebRTC library asks for it and queues its
candidates until it has a remote description; the session queues offers and
candidates, offers its tracks, and waits for an answer until
`signalingTimeout`. The client sets a description in one step and sends it in a
later one (`MakeOffer` and `SendOffer`, `SetAnswer` and `SendAnswer`), so that
its candidates, which the first step lets it gather, and what either transport
brings may come between. Messages may be lost with the websocket. Histories:
`timedOut`, the session gave up on an answer; `crossed`, offers crossed; `lost`.
`AddICECandidate` is taken to succeed.

### Auth

A worker is the goroutine of one HTTP request. A request goes through
`authHandler` (basic or bearer), then its handler; each access of the store or
of the cache is a step. A hash is a record that can be compared with a key
only. The store may fail before or after it took a change, tokens expire, and
the process may restart with what the store holds. `lapsed` marks clients whose
login crossed an unregistration or whose deletion was not synced: the token of
such a login stays in the cache until it expires.

### WSServer, WSClient, ServiceClient

`WSServer` has a handler per connection, the goroutine of `connWriter`, the two
loops of the service and `Close`; steps are sections under `Server.mut` and
operations on channels and sockets. The ping of `connWriter` is not modelled:
a node that is gone is found by the read deadline, which is a failing read.
`seen` and `wire` are what the service took from a connection and what the node
read on it; `gauge` is the metric of connections, which the loop of the service
moves up with an open and down with a close.
`upgraded` and `unhailed` are histories: connections whose upgrade succeeded,
and those whose hello was dropped. A handler whose upgrade failed is in no map
and nobody waits for it, so it may send on the closed `receiveCh`; the model
reaches that panic, and `NoSendOnClosed` speaks of the upgraded ones.

A *link* is one `ws.Client`, with the places of its reader and writer.
`ServiceClient` adds the mutex of `service.Client`, its reconnecting goroutine
per link and `Close`. `overlapped` remembers that a user connected while the
client reconnected by itself.

### CallsClient

The server is external: it says hello on each connection, admits the client
after the join, and may end the call. Time is what the code asks of it: whether
`wsReconnectionTimeout` is over since `wsLastDisconnect` (`outage` is the true
length). `collided` marks a `close` by `wsReader` while `Close` waits for it,
`dropped` a connection lost before the first hello.

### Media modules

`VoiceActivity` has the steps of `PushAudioLevel` in two `OnTrack` goroutines
that share a monitor under a read lock: the comparison of the length (`Fill`),
the append, which loses a level when two happen at once, the write at the
pointer, its advance, the decision. Average and deviation are rounded as the
code rounds them.

`ScreenLevels` has one sharer and one viewer; rates are in units of 100 kbit/s.
The `OnTrack` goroutine of each track reads the screen stream, sets the track,
compares its level with the expected one, and announces it; the goroutine of the
rate changes reads the share, the viewer's sender, the rate of its source, the
track of the new level and its rate one after the other, each under a lock of
its own, and then queues a removal and an addition. Each is a step, and a share
may end, or the next one's tracks arrive, between any two. `clearScreenState` is
one step: it holds `call.mut`, which `iterSessions` and `getScreenSession` need.
What reads only a session's own lock meanwhile finds the sharer's tracks still
there, as before the step, or gone, as after it.

`RateMonitor` compares the ring with the packets that were
pushed; each is remembered with the bytes before it, so that the bytes of a
window are a difference and need no sum. `MultiConn` numbers the reads of each
socket; a buffer holds what was last read into it, and a result remembers which
read it is of (`num`, which nothing reads). A `ReadFrom` after `Close` receives
the zero result and puts a nil buffer in the pool (`ReadFromClosed`); no reader
is left then to take it out.

## Runs

| Run | Shows | Distinct states |
| --- | --- | --- |
| `registry_races` | until a race is lost nothing panics (`NoRegistryPanic`) and a call in use is never unlinked (`LiveCallKept`); whatever was lost, the close callback runs once and last (`CallbackLast`) and nothing empty is left behind (`NoEmptyShells`) | 2,149,167 |
| `registry_stop` | the registry implements `SessionLifecycle` (`KeepsPromises`), `CloseSession` returns (`CloseCompletes`), a drained `Stop` is released (`DrainReleases`) | 135,656 |
| `auth` | a client has one token (`OneTokenPerClient`), which an account backs (`TokenBacked`); only expired tokens are purged (`PurgesOnlyExpired`) | 661,200 |
| `routing` | an open session has its entry (`LiveRouted`), no message of a session in a call is dropped for want of an entry, and it goes to the connection its client is at, unless that one reconnects between lookup and send (`SpokenHome`); the loop always comes back (`LoopReturns`) | 201,756 |
| `tracks_voice` | nobody misses a voice (`Heard`); no sender stays for a track nobody lists (`SendersListed`) | 847,653 |
| `tracks_screen` | a receiver has one screen (`OneScreen`), a share that ended in good order is not in the way of the next (`BlockedByOrphans`), the loop gets through its queue (`LoopServes`) | 181,148 |
| `ws_server` | no send on a closed channel (`NoSendOnClosed`), open, data, close in order (`SeenInOrder`), in the end every opened connection is reported closed and the gauge is back but for failed upgrades (`NothingLeftOpen`), the hello comes first (`HelloFirst`), `Close` returns (`CloseReturns`) | 224,692 |
| `service_client` | channels are closed once and not used afterwards (`NoPanic`), what the flush leaves (`CloseFlushes`), `Close` returns (`CloseCompletes`), a lost link is noticed (`LostIsNoticed`) | 243,288 |
| `calls_client` | one close (`ClosesOnce`), giving up only after the timeout (`GivesUpLate`), outages end (`OutageEnds`), `Close` returns (`CloseCompletes`) | 22,699 |
| `signaling` | answers fit the offers they are taken for (`AnswerFits`), an awaited answer is there or on its way (`AwaitedIsThere`), offers settle (`OfferSettles`), candidates arrive (`CandidateReaches`) | 355,699 |
| `media` | reported voice is the state of the monitor (`VoiceAgrees`), a viewer is served through level changes (`ViewerServed`), the rate is that of the window (`RateOfWindow`), packets come out once and in order (`PacketsInOrder`), `Close` returns (`ConnCloseReturns`) | 2,227,848 |
| `signaling_ice` | violated, see below: `QueueDrained` | |

`signaling_ice` shows that `handleAnswer` (`client/rtc.go:118`) leaves half of
the queued candidates in `iceCh`: it counts up to a length that its own receives
make shorter. The comment at `client/rtc.go:78` says candidates are queued
until the remote description is set. The flush of `ws.Client`
(`service/ws/client.go:161`) has the same loop; `CloseFlushes` says what it
does guarantee.

### Where the code keeps less than one might expect

These behaviours are reached by the models, and exempted in the properties by
the history named, where one is. Some are at odds with what a comment says: of
`connMap`, that it serves "to route any message" (`service.go:40`); of a closing
session, that its tracks are cleaned up (`call.go:196`) and that a screen track
goes as it does when sharing ends (`call.go:211`); of the gauges, that they count
active sessions, tracks and websocket sessions (`perf/metrics.go:83`, `:60` and
`:116`). The main ones
are in `hazards` too; no run of their own refutes those comments.

- A session in a call that no lookup finds, after a lost race (`raced`,
  `session.go:110`).
- The close callback of a session deletes the `connMap` entry that a later
  session of the same ID made (`overlapped`, `service.go:303`); an entry made
  after the close stays (`late`, `service.go:326`); the close message goes to
  the connection of the join, not of the reconnect (`service.go:312`). A message
  to a client that reconnects between the lookup and the send goes to its old
  connection (`moved`, `service.go:249`).
- A failed upgrade lowers the gauge of websocket connections, which it never
  raised (`ws/server.go:135`, `service.go:178`).
- Tracks of a closed session, or of a share that is over, are added later from
  a queue (`orphaned`, `call.go:204` and `call.go:108`). `msgReader` may set a
  screen session that has closed (`server.go:256`).
- Both gauges may stay too high: after a failed `InitSession` (`sfu.go:199`)
  and after a close during `addTrack` (`session.go:458`).
- A late answer is taken for the answer to a later offer (`timedOut`); a
  client's offer that crosses one of the session is not answered (`crossed`).
- Two audio tracks that push to one voice monitor may index past its ring
  (`vadPanic`, `vad.go:101`); the second one replaces the monitor (`replaced`).
- A user who calls `Connect` while the service client reconnects
  (`overlapped`); a call that ends while the Calls client's `Close` waits
  (`collided`).

### Bounds

- `registry_races`: three joins of one call, two of them with one session ID
  and interchangeable (symmetry), and one closer, beside the negotiation
  goroutines. That gives the close of each of two sessions of an ID beside a
  join, and the close of the last session of a call beside a join.
  `registry_stop`: two joins of one ID, two closers, and `Stop`.
- `auth`: two workers, two clients, two good keys and a short one, two tokens,
  so that a second login replaces a first; the administrator is enabled.
  Registration is by the administrator (`AllowSelfRegistration` is FALSE): the
  other branch is modelled and not exercised. Workers are interchangeable.
- `routing`: a session ID that joins twice, from two nodes, and one that only
  reconnects; messages on their way are bounded by `MaxOut`.
- `tracks_voice`: two sessions with a voice each, one shares the audio of its
  screen and may leave, queues of three. Two are enough: what a session sends
  another depends on these two only. `tracks_screen`: a sharer with two shares
  in two copies (`NumCPU`), a receiver, queues of two, so that they also
  overflow. Sessions do not join again under a second object: that is the
  registry's subject.
- `ws_server`: two connections, one of which sends a frame; a `receiveCh` of one, so
  that handlers wait for room, and a `sendCh` of two, so that a hello has another
  message behind or before it.
- `service_client`: two links, so one reconnection; a frame per link, two
  sends; `reconnectCb` may fail.
- `calls_client`: four connections, so three losses.
- `signaling`: one change of the client's tracks after the first offer, two
  track actions of the session, three candidates, queues of two.
- `media`: a voice window of three samples of three levels; two shares, two
  estimates, on either side of the threshold, and a queue of three; the screens
  stop once something was `cut` or `stale`, which `ViewerServed` exempts for
  good (all 37,723,078 states of the instance without that stop were checked
  once, for `ViewerServed` and for the invariant of its proof); a rate window of two ticks, a clock of seven
  and six packets of two sizes; two sockets with two packets between them.

Deadlock is checked in `registry_races`, `registry_stop` and `auth`, where a
state without a successor would be an error: someone may always call
`CloseSession` or send a request. The other systems may stop: connections, shares or
messages are used up.

### Fairness

Goroutines that can run do run: weak fairness of the steps of `InitSession`,
`CloseSession`, `handleNegotiations`, of the close callback and the loop in
`routing`, of `handleTracks`, of the handlers and loops of the websocket server
and the clients, of the readers of sockets. The timeouts of the code
(`signalingTimeout`, the read deadline, the reconnection timeout) are steps
that are fair. In `CallsClient` the step in which `wsReader` sees `wsCloseCh`
is strongly fair, because its `select` chooses at random among what is ready;
there the server says hello on a connection that stays. Otherwise nothing is
assumed of clients and nodes: they need not join, leave, offer or answer, and
nobody need call `ReadFrom`. Fairness of `CloseCb` in `ServiceRouting` is what
`CloseCompletes` shows of the registry.

## Proofs

Constants are arbitrary sets and numbers; the assumptions are the ones named in
the modules, which TLC evaluates in every run.

- `SessionRegistryProofs`, first part, with every race lost: type correctness,
  then `CloseInv`: a session sits in no slot but that of its call and ID, a
  `CloseSession` holds a session of the ID it closes, and the end of a session
  goes through detached, closed, done, reported. It gives `ClosedIsDetached`
  and `CallbackLast`; `ClosedIsDetached` alone is not inductive: nothing in it
  says which slot a `CloseSession` empties. `DrainNotLost` has a proof of its
  own, and `ShellInv`, which says who will still fill or delete an empty call
  or group, gives `NoEmptyShells`.
- Second part, `RegistryInv`. As long as no race was lost a session has one
  owner (its `InitSession`, its entry in `Server.sessions`, or the one
  `CloseSession` that took the entry), and the owner's pointers are the ones the
  session's IDs lead to. From it follow `NoRegistryPanic`, that lookups succeed
  (`RegisteredReachable`, `CloseFindsSession`), and that only empty calls and
  groups are deleted (`LiveCallKept`).
- Third part: `SessionRegistry` implements `SessionLifecycle`. The mapping takes
  a session to a stage (new, rejected, member, closing, closed) by where its
  `InitSession` is, whether it sits in its slot, and whether its callback ran.
  `MembersLinked`, on top of the two invariants above, says that the IDs of
  every session in a call lead to that call, which is what makes `addSession`
  find the session whose ID is taken.
- `ServiceProofs`, the routing: `RoutingInv`, which adds to `LiveRouted` that
  two open sessions share an ID only if it is marked overlapped, what the loop
  knows between `InitSession` and the entry, that every open session has been
  heard of, and where a message goes that is looked up and not sent. It gives
  `SpokenHome` and `EntriesHaveSessions`: a session speaks only after its entry
  was made, and while it is in a call nobody but a session of its ID removes it.
- `ServiceProofs`, the accounts: `AccountInv` relates a token to the login that
  made it, and a login to the hash it read. It gives `OneTokenPerClient` and
  `TokenBacked`; `KeyNotReplaced` and `PurgesOnlyExpired` follow step by step.
- `WSServerProofs`: `CloseFacts` says that a handler which may still send has
  its connection in `conns`, and that `Close` has it among those it will wait
  for, or has not begun. It gives `NoSendOnClosed`. `StreamInv` relates what
  the service has seen of a connection to what waits in `receiveCh` and to the
  place of the handler (`SeenInOrder`, and the first half of `NothingLeftOpen`);
  `GaugeInv` counts the connections the service has seen, those upgraded and
  open against those failed (the other half); `HelloInv` follows
  the hello from the service through `sendCh` to the socket (`HelloFirst`).
- `ServiceClientProofs`: `LinkFacts` (one goroutine reads, and it reads the
  client's connection) gives `LostIsOwn` and `ConnIDForward`; `EndInv` adds,
  until connections overlap, that one goroutine is active and that none is once
  the channels are closed, which gives `NoPanic`. `FlushInv` counts what the
  writer has flushed against what it found (`CloseFlushes`).
- `CallsClientProofs`: `CloseFacts` ties the state of the client to the places
  of `Close` and `wsReader` (`ClosesOnce`, `ClosedHasNoSession`); `IdFacts` gives
  `IdsKept`, `OutageFacts` relates `wsLastDisconnect` to the true outage and
  gives `GivesUpLate`; `ShareIsTold` is inductive.
- `SignalingProofs`: an answer does not name its offer. `TokenAt(w)` says that
  of the session's offer on its way, the client's handler, the answer on its
  way and the answer queued there is one only, at `w`, with the number of the
  last offer; `StateFacts` ties the signaling states of both ends to it. They
  give `AnswerFits` and `AwaitedIsThere`.
- `CallTracksProofs`: `TracksInv`, from which all four safety properties of
  `CallTracks` follow. `Heard` needs types and `OwnTracks` only. The others
  need each other and more: `QueuedListed` (a queued track is listed or
  orphaned) makes `SendersListed` hold when a sender is made; `ScreensCurrent`
  (listed screens are of the share that is on) makes the removals of
  `handleSessionClose` and `clearScreenState` meet the right senders, together
  with `ScreenSenders` (a screen with a sender is the `screenTrackSender`, or
  being added, or about to be removed), which gives `OneScreen`; `RemovedFirst`
  (a removal is queued before the screens of the next share) gives
  `BlockedByOrphans`. `ScreensCurrent` has one exception:
  a session that leaves between the two steps of its ScreenOn stays
  `screenSession` for good (`Stuck`), the next ScreenOff clears nothing, and
  what saves the properties is that `OnTrack` then turns every screen down
  (`Quiet`). Every step is sorted once by its effect on one part of the state
  (`Goes`, `AddsCome`, `ListsGo`, ...), and the invariants are derived from
  these effects.
- `MediaProofs`, `VoiceActivity`: `VoiceAgrees` is nearly inductive
  (`VoiceReported`). `PointerBounded` says that the index out of range at
  `vad.go:101` takes a second track: until the monitor is replaced one
  goroutine pushes, and between its comparison with the end and its move of the
  pointer nobody else moves it: a mute resets it only between two pushes. Nor
  does the window shrink while a push is under way.
- `ScreenLevels`: `ScreenInv`. No track queued, sent or read by the rate handler
  is of a share still to come (`NoneAhead`), and once the track of the
  expected level was looked at, and the level has not moved, a track was chosen
  (`ExpectedChosen`). Unless something was cut or stale, what is to be added and
  what the viewer has is of the share that is on (`OfThisShare`); its tracks with
  a sender are in use, so none of them is refused while the viewer has none
  (`SendersInUse`); a removal of one of them has an addition behind it, in the
  channel or in the hands of the rate handler (`Replaced`); and once a track
  was announced the viewer has one or one is to be added (`AnnouncedServed`).
  `Replaced` is what a change of level keeps, though another goroutine may queue
  between its two sends: what it queues then is an addition too, or the end of
  the share. A channel without room for both sends counts as cut.
- `RateMonitor`: `RateInv` says which packet an index of the ring holds
  (`RingHolds`) and that the bytes before a packet add up (`BytesAddUp`). The
  loop of `GetRate` is a recursive function. `GatherIsLoop` shows that it obeys
  its equation, by giving a function that does; the result at an index is then
  the difference of two packets' `before`. If it were not, there would be a
  first index at which it is not (`LeastNumber`), and the equation refutes that
  one.
- `MultiConn`: `ConnInv`. A buffer is in one place only: the pool, one reader,
  one result in the channel, or `ReadFrom` (`BuffersApart`), so nobody writes to
  one that is to be copied, and the nil buffer gets into the pool only when no
  reader is left (`NilUnused`). What a reader holds and what stands in line for its
  socket are the reads that follow the ones returned, in order (`ReaderFacts`,
  `LineFacts`). It gives `PacketsInOrder`.

Induction over data goes through sets here: the library's induction theorems
take an operator, which none of the provers instantiates, but a nonempty set of
naturals has a least member, and the set of counterexamples to a claim is such
a set.

Proved and in no run: the type correctness of the modules with a proof of it,
the inductive invariants themselves (`RegistryInv`, `CloseInv`, `AccountInv`,
`RoutingInv`, `SigInv`, `TracksInv`, and the ones named above) and the
properties that follow from them without a line in the table above, such as
`PointerInWindow`. The invariants of the media modules were model-checked on
larger instances than that of `media` before they were proved.

Every safety property of a passing run, invariant or action property, and the
refinement `KeepsPromises` has a theorem. Only model-checked is what is about
liveness, which is out of the prover's reach: `CloseCompletes` of the registry
and of both clients, `DrainReleases`, `LoopReturns`, `LoopServes`,
`CloseReturns`, `LostIsNoticed`, `OutageEnds`, `OfferSettles`,
`CandidateReaches` and `ConnCloseReturns`. So is that `Avg` and `StdDev` of the
voice detector are what the code computes: no proof depends on their values.

## Not modelled

- Packet forwarding, RTCP, AV1 selection, and shares without simulcast in
  `ScreenLevels`: data, or a choice between constants.
- `WriteTo` and the deadlines of `multiConn`: no state but a counter.
- Ping messages of the websocket and the data channel, and statistics
  (`rtc_monitor.go`).
- In the Calls client: receivers, `user_left` and the events of jobs, hosts,
  mutes, hands, reactions and captions, which are handed to the user.
- HTTP calls of `service.Client`, the HTTP wrapper (`api`), version, system and
  audit.
- Sockets, STUN and TURN, configuration, logging, metrics other than the
  three gauges, start-up.

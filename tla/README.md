# TLA+ verification of the Ameba Pro2 WebRTC firmware

The firmware makes an Ameba Pro2 camera the master of an AWS Kinesis Video
WebRTC channel: it receives SDP offers from viewers through a signaling
websocket, finds a path to each viewer with ICE, secures it with DTLS and streams
H.264/H.265 video and Opus/G.711 audio over SRTP.  This directory holds TLA+
models of the code under `examples/` and of the IoTConnect client under
`project/`, the TLC configurations that check them and TLAPS proofs.
`PROJECT.json` lists every run, mutant, mapped source line, hazard and theorem.

## 1. The system

### Tasks

| task | created in | does |
|---|---|---|
| master task | the entry point | starts the application, IoTConnect and signaling, then deletes itself |
| signaling task | `app_common.c` | websocket loop, handles offers, answers and candidates, connects and reconnects |
| session task, one per session | `PeerConnection_Init` | waits at a start-up barrier, then handles the session's request queue |
| socket listener, one per session | `PeerConnection_Init` | `select` over the ICE sockets; STUN, TURN, DTLS, SRTP, SRTCP |
| media tasks: video, audio, received audio | `app_media_source.c` | write frames to every ready session, play what comes back |
| FreeRTOS timer task | | ICE timer, SDP timer, RTCP report timers |
| usrsctp's thread | `sctp_utils.c` | reports outgoing SCTP packets |
| telemetry task | `iotconnect.c` | MQTT telemetry |

Sessions are slots that are used again for the next viewer, so what one
connection leaves behind is what the next one starts from.  Between the tasks of
a session there are mutexes for the sockets, the ICE agent, the SRTP sessions and
each SRTP sender; `pSession->state`, the ICE state, the timers, the DTLS context,
the data channels and the jitter buffers have none.

### Components

| component | state | operations | hard behaviour | correct when |
|---|---|---|---|---|
| Jitter buffer (`peer_connection_jitter_buffer.c`) | slots, newest and oldest number, timestamps | Create, AllocateBuffer, Push, scan, FillFrame, Free | loss, reordering, wrap of 16 and 32 bit counters, slots shared by numbers equal modulo the size | frames whole, once, in order; nothing held too long; no buffer lost |
| SRTP sending (`peer_connection_srtp.c`, `_rolling_buffer.c`, `_srtcp.c`, codec helpers) | SRTP session, rolling buffer, sequence numbers, mutexes | WriteFrame, NACK handling, Init, DeInit | media task, NACK handler and two closers; eviction; reuse | a NACK gets the original packet; no buffer lost or freed twice; closes end |
| Peer connection session (`peer_connection.c`) | session state, queue, barrier, transceivers, timers, DTLS, SRTP | Start, SetRemoteDescription, AddRemoteCandidate, request handlers, CloseSession | four tasks without a lock; deadlines; reuse | a reusable session is clean; every phase ends; viewers are counted right |
| Message queue, timers | queue, armed timers | send, receive, set, reset | full queue, blocked receiver | bounded; nobody waits for ever |
| ICE controller (`ice_controller.c`, `_net.c`) | ICE state, socket contexts, candidates, pairs, timer | Start, gathering, checks, Destroy, closing | two tasks in one table of contexts; TURN allocations outlive a session | closed means no socket; the nominated pair is known; checks and closes end |
| Socket listener (`ice_controller_socket_listener.c`) | polling flag | poll, dispatch, nominate | runs against Destroy and gathering | a lost path ends the session |
| Signaling controller (`signaling_controller.c`) | credentials, endpoints, ICE servers, send queue | connect steps, events, refresh | expiry, partial failure of a reconnect | connected again after any failure; accepted messages complete once, in order |
| WebSocket and HTTP helpers (`wslay_helper.c`, `core_http_helper.c`) | wslay context, TLS connection, wake-up socket | connect, receive, send, ping, disconnect | each step of a connect may fail | no connection lost |
| Application sessions (`app_common.c`) | client of each slot, SDP buffer, candidate buffers | offer, answer, candidates, close | clients compete for slots; one buffer for all SDPs | what is written for a client is meant for it |
| Media source (`app_media_source.c`, port) | counts of ready peers, three queues, frames | peer ready, peer closed, enqueue, write, play | full queues, several sessions | the camera runs exactly while someone watches; no frame lost |
| SCTP data channels (`peer_connection_sctp.c`, `sctp_utils.c`) | pool, list of each session, association | open, accept, close, tear-down | a shared pool without a lock | channels in use are listed and counted |
| IoTConnect client | MQTT connection, settings, region | Init, Start, telemetry, Stop, Deinit, credentials | failure of each step, a lost link | users keep their data; a client that gave up holds nothing |
| Start of the master (`master.c`, `app_common.c`) | place of the master task, barrier, ICE server list | initialise, start, wait, clean up | the waiting task, the telemetry task and the signaling task share settings | as above; a session gets the servers that were offered |
| SDP controller, `peer_connection_sdp.c` | parsed description; what was chosen stays in the session | parse, choose codecs, answer | second descriptions, skipped lines, numbers that begin another number | an answer mirrors its offer line by line |
| DTLS and TLS transports | mbedtls contexts | init, handshake, process, disconnect | shared by two tasks | freed once, never used after |
| RTCP reports, TWCC, REMB | statistics | build, parse | report lists | values stem from the right source |
| Base64, strings, metrics, entry point, cJSON | | | | see section 5 |

`offer -> GetSession -> Start -> SetRemoteDescription -> IceController_Start ->
(timer) ProcessIceCandidatesAndPairs -> nomination by the listener ->
ExecuteDtlsHandshake -> OnDtlsHandshakeComplete -> streaming -> CloseSession ->
ICE_CLOSED -> reusable` is the main path; requests go through the session's queue,
the ICE timer is a one-shot timer that every handler arms again.

## 2. Modules

| module | models | checked by | proofs |
|---|---|---|---|
| `JitterBuffer` | one receiver: jitter buffer, frame assembly | `MCJitterBuffer` | `JitterBufferProofs` |
| `SrtpSender` | the senders of a session: WriteFrame, rolling buffers, NACK, SRTP set-up and tear-down | `MCSrtpSender` | `SrtpSenderProofs` |
| `PeerConnectionSession` | the life of a session across its tasks, with what it sees of ICE | `MCPeerConnectionSession` | `PeerConnectionSessionProofs` |
| `SessionLife` | abstract: the phases of a session, what it holds and how it is counted | implemented by `PeerConnectionSession` | `PeerConnectionSessionProofs` |
| `IceController` | gathering, contexts, pairs, nomination, close, with the socket listener | `MCIceController` | `IceControllerProofs` |
| `MessageService` | abstract: what `SignalingController_SendMessage` promises | implemented by `SignalingController` | `SignalingControllerProofs` |
| `SignalingController` | the signaling task with the WebSocket and HTTP helpers | `MCSignalingController` | `SignalingControllerProofs` |
| `AppSessions` | slots for clients, offers, answers, candidates | `MCAppSessions` | `ApplicationProofs` |
| `MediaSource` | ready peers, the camera, three frame queues | `MCMediaSource` | `MediaSourceProofs` |
| `DataChannels` | the pool of channels, the lists and the associations | `MCDataChannels` | `DataChannelsProofs` |
| `IoTConnect` | the IoTConnect client | through `Master` | |
| `IceServers` | the list of ICE servers, as operators | through `Master` | |
| `SdpNegotiation` | offers and answers of one viewer: payload types, lines of the answer | through `Master` | |
| `Master` | the start: composes the three with the signaling task | `MCMaster` | `ApplicationProofs` |

How they fit together.  `SignalingController` shows under its own state the
`MessageService` that `AppSessions` uses as its queue.  `AppSessions`,
`MediaSource` and `DataChannels` each have several sessions and see of each one
only the few states their code reads; `PeerConnectionSession` is one session in
full, with ICE reduced to a state, a timer and two sockets, and what the media source and the
media tasks may expect of it is `SessionLife`; `IceController` is that
part in full, with the session reduced to its request queue.  `SrtpSender` and
`JitterBuffer` are the data paths of a session that is streaming.

In each module a definition whose name ends in a suffix such as `_NoWake` and
that is introduced as a mutant is a faulty version of the definition that follows.
No specification uses it; it is substituted to show that a property notices the
fault.  Several properties are conjunctions: the parts are named and commented
beside them in the module and belong to one question, and the names of the parts
are given in parentheses below.

### JitterBuffer

State: the fields of `PeerConnectionJitterBuffer_t` (`isInit`, `isStart`,
`newestSeq`, `newestTs`, `oldestSeq`, `lastPopTs`, `slots`), the local variables
of `ParseFramesInJitterBuffer` while it runs (`pc`, `i`, `prev`, `firstSeq`,
`popSeq`, `isContinuous`, `isClosing`), the network (`stream`, `pending`), and
what the application has seen (`delivered`).

* `PeerConnectionJitterBuffer_Create`, `_Free`, `PeerConnectionSrtp_HandleSrtpPacket`
  (decrypt, AllocateBuffer, copy, Push) are the operations; `AllocateRefused` and
  `PushPacket` are its two outcomes.
* The scan is one step per iteration: `ScanMissing`, `ScanSameFrame`,
  `ScanFrameReady`, `ScanFrameExpired`, `ScanFrameTolerated`, then `InspectGood` or
  `InspectBad` for the property callback, `CloseSlot` and `CloseEnd` for the last
  frame of a closing scan, `Release` for the slots Free gives back.
* A payload is what the depacketizer makes of it: `start`, `cont`, `bad`
  (undecodable) or `empty`.  The replay check of libsrtp lets a packet in once.
* `SeqMod` and `TsMod` stand for 2^16 and 2^32, and all comparisons and
  subtractions are the C ones modulo these.
* Not modelled: exhaustion of the heap, and Free running in another task than Push.

### SrtpSender

One media task per sender, the listener (NACKs, DTLS alerts) and the session task
(closes).  `senderMutex` is held over several steps, sections under
`srtpSessionMutex` are one step.  A packet buffer has an identity, so a lost or
twice freed buffer can be seen; `key` in a packet is the connection whose SRTP
session protected it.

* `WriteFrame`, `TakeSenderMutex`, `GetBuffer`, `GetPacket`, `Protect`
  (`ConstructSrtpPacket`), `StorePacket` (`SetPacket`, `ForceEnqueue`, `Evicted`),
  `SendPacket`, `LeaveWrite` and the failing variants are the codec helper's loop.
* `OnRtcpNackEvent` and the `Resend...` steps are `ResendSrtpPacket` for each number
  of the list; with an RTX payload type the packet is protected again under an RTX
  number, else under the original one.
* `CloseSession`, `Destroy...`, `DeInitSession`, `DeInitSender`, `AddressClosing`,
  `OnClosePeerConnection` are the close; `CreateOffer` (payload types and numbers),
  `SrtpInitSession`, `SrtpInitBuffers` and `SrtpInitFails` the set-up.
* Assumed: allocation of a packet succeeds, a rolling buffer holds a packet at
  least, and a set-up does not run at the same time as a close (that race is
  `PeerConnectionSession`'s).

### PeerConnectionSession

Four tasks (`app`, `session`, `listener`, `daemon`), each with a program counter in
`pc`.  A step is what a task does between two accesses to state that another task
may change, so `CloseSession` is six steps (`Close`, `Destroy`, `FreeSockets`,
`Destroyed`, `DeInit`, `PeerConnection_ResetTimer`), which the session task and the
listener may both be in.

* Session task: `SessionTask` (the barrier), `Recv`, one action per request type,
  `CheckInactivity` at the end of an iteration.
* Listener: `Nominate` to `SetP2P` are `UpdateNominatedSocketContext` with its
  callback; `RxHandshakeDone`, `HandshakeComplete`, `PeerConnection_SetTimer`,
  `ConnectionReady` and `ReleaseOtherSockets` are the end of the handshake;
  `RxTermination`, `RxMedia`, `RxTurnTerminated`, `RxError` are the other packets.
* Signaling task: `GetSession`, `AppEmptiesQueue`, `PeerConnection_Start`,
  `SetRemoteDescription`, `IceController_Start`, `IceController_StartKick`,
  `FindConnection`, `AddRemoteCandidate`.
* Timer task: the ICE timer, the SDP timer (which empties the queue, posts
  CLOSE_NO_ICE_FLOW and raises the barrier), the report timers.  `Deadline` lets
  time pass the DTLS, connectivity and inactivity deadlines.

Some windows are so narrow that whether they count as behaviour of the system is a
question of timing.  They are named in the constant `Timings` and can be switched
on: `quickOffer` (a message for a session just closed, before its ICE timer has
expired or a task has finished its close), `raceDeadline` (a deadline or the SDP
timer expires while messages still arrive), `slowGather` (packets arrive while the
relay candidate is made), `dtlsErrors` (the handshake function returns an error).
The runs say which timings they allow; section 3 says what the others break.

Assumed: calls into the DTLS library are atomic and only a received packet
completes a handshake; an offer is handled for a session that is INITED or START
(`MediaSource` has the second offer in a live session); the peer sends packets
after the answer; `IceController_Start` is one step up to its timer callback and
`Ice_Init` does not fail; the notification of the transceivers happens with the
write of the state; at most one report request waits in the queue.

`SessionLife` is what the rest of the application sees of a session: the phases idle,
starting, connecting, securing, streaming and closing, the keys and report timers it
holds, and its share in the viewers of the media source.  A session starts holding
nothing of the viewer before; it acquires its keys and timers while it is secured, streams
with all of them, gives them back only after a close has begun, and becomes idle by a close
alone.  The mapping takes `state` to the phase, `srtp` and `reportTimer` to what is held.
One action is there because of the code: `CloseAgain`.  After a close without ICE the
session task goes on to wait for requests, so the barrier bit that the next offer sets
(`FindConnection`) stays set; when that connection has ended the task passes the barrier
at once and may handle a CLOSE that was left in the queue, for a session that is INITED.
The session is CLOSING for a moment and then INITED again, which PhasesEnd covers.

### IceController

The session task (`session.at`), the listener (`listener.at`) and a media sender
share the table `sock` of socket contexts, the nominated context and the lists of
the ICE library.  A section under `socketMutex` is one step; `iceMutex` is `lock`.

* `IceController_Start` begins a life.  `ProcessIceCandidatesAndPairs` sets
  the candidates to gather (`GatherJobs`: the host address, one for each STUN server,
  the relays that `RelayUsable` finds in the configuration), which are made in the
  order of `IsNext`, by kind and then by server; for each `CreateSocketContext`, `ExecuteTlsHandshake` (for a
  relay over TLS), `AddCandidate` and `UpdateGathered` are the steps of
  `IceControllerNet_AddLocalCandidates`, with the failures of each.
* `ProcessCandidatePairs`, `PeriodConnectionCheck`, `RequestsSent`, `LocalCandidate`
  are the checks; `SendPacket` is what a failing send does to a context.
* The listener: `Poll`, `Dispatch`, then `RxNothing`, `RxError`, `RxAddress`
  (a reflexive or relayed address), `RxReady` (a permission), `RxRequest`, `Answer`,
  `Nominate`, `RxData`, `ReleaseOtherSockets`, `Deliver`, `RxTurnTerminated`.
* The close: `IceController_Destroy`, `DestroyContext` for each context,
  `IceController_AddressClosing` on every request of the closing timer until no relay
  is left, then CLOSED.
* The failing variants have names of their own: `CandidateNotSent` (the host candidate
  cannot be passed to the peer), `SendPacketFails` and the like.  Freeing the context
  after a failed send and telling the session are one step; the code does the second
  right after it has given the mutex back.
* Ghost variables `raced`, `doubled`, `deaf` and `reopened` each name one race that
  the code has; the actions that set them say which.  Properties that a race breaks
  except exactly the runs in which it happened.
* Not modelled: the text of candidates, refresh of permissions and allocations
  (timers inside the library), IPv6 and several local addresses.

### SignalingController and MessageService

One action is one call that may block or fail; `pc` is where the signaling task is,
`caller` and `tries` the loop it is in.  `creds` keeps for key and token the fetch
each came from, because the code keeps keys, token and expiration in separate
fields that different steps write; `ws` is the WebSocket context with the wslay
context, the wake-up socket, the TLS connection and two flags.

* `ConnectServers`, `FetchTemporaryCredentials`, `DescribeSignalingChannel`,
  `GetSignalingChannelEndpoints`, `QueryIceServerConfigs`, `GetIceServerConfigs`,
  `JoinStorageSession`, `WebsocketConnect` are the steps of
  `ConnectToSignalingService`; `HttpRetry`, `HttpFail`, `HttpNullSocket`,
  `FetchRefusedHalfway` and `WebsocketConnectFail` their failures (the last at each
  step of the connect: TLS, upgrade, wake-up socket, bind, timeout of the upgrade).
* `HandleWssMessage`, `RecvReturns`, `RecvPingOrSelectFails`, `RecvReadFails`,
  `RecvWhileDown` are the outcomes of `Websocket_Recv`; `HandleSendEvent`,
  `HandleReconnectEvent`, `HandleRefreshEvent` and the `Refresh...` steps drain the
  queue.
* `NullContextFault` is a dereference of a context that is NULL: either the device
  halts or it goes unnoticed.
* The contents of the ICE configurations are not kept, only their age: an answer that is
  refused half-way leaves some servers newer than the others, with the count and the
  expiration of before.
* `MessageService` promises: a message that was accepted is completed exactly
  once, with a status, in the order of acceptance, and in the end.
  `SignalingController` implements it with `pending` as the calls whose message is in
  the queue, without the control events that share it, and `done` as the completion
  callbacks.  `Service!Safety` is proved (`ImplementsMessageService`); the property
  ServicePromise that TLC checks also has the weak fairness of `CompleteOldest`, that
  the oldest accepted message is completed.

### AppSessions

`Receive` is `OnSignalingMessageReceived` up to `PickSlot`
(`AppCommon_GetPeerConnectionSession`: the client's own slot, else the first free
one); `Start`, `Describe`, `AddCandidate` and `Answer` are the rest of the handlers;
`Drain` and `HandleEvent` are the signaling task at its queue.  An answer in the
queue points into the one `sdpBuffer`, so its text is read only when it is written
(`TextOf`).  `LocalCandidate` allocates a buffer that the completion callback frees.
`owner` is the client the session was started for, while `client` is
`remoteClientId`, which the code never clears.

### MediaSource

`Describe`, `HandshakeComplete`, `CloseSession`, `SessionClosed` are what a session
does; `toReady` and `toClosed` are the events it has still to give, one per
transceiver, so that the events of several sessions mix.  A session may be described in
any state, also while it is being closed (`closing`), because
`PeerConnection_SetRemoteDescription` looks at none.  `RemotePeerReady` and
`RemotePeerClosed` count, and start and stop the camera.  A frame has an identity:
`CaptureFrame` or `ReceiveFrame`, `CheckFull`, `DropOldest`, `SendCaptured` or
`SendReceived` are the producers (drop-oldest is three calls, between which the
consumer runs), `TakeFrame`, `WriteFrame`, `PlayAudioFrame`, `ItemPlayed` the
consumers.

### DataChannels

The pool (`active`, `total`), the objects' `next` pointers, each session's `head` and
`count`, and the association.  The remote peer's open is four steps of the listener
(`ReceiveOpen`, `FindChannel`, `TakeChannel`, `LinkChannel`, then
`SendOpenDataChannelAck`), the tear-down six of the closing task (`CloseSession`,
`ResetCount`, `CloseChannel`, `Advance`, `ClearList`, `Sctp_FreeSession`,
`Closed`).  `raced` is set by the three places where two tasks meet in the pool or a
list without a lock.  A loop over a list is one operator: `Reach(nx, c)` is the least
set of channels that has `c` and with each channel the one after it, so `Listed` is
what a loop from `pDataChannels` on meets, and ListsEnd says that the loop ends.

### IoTConnect, IceServers, SdpNegotiation, Master

`IoTConnect` has the client's state and one action per call of Init, Start, Stop and
Deinit; the place that follows a call is the action's parameter, since the master
decides it.  `IceServers` is pure: `UriAccepted` is `ParseIceServerUri` on the parts
of a URI, with the port as `StringUtils_ConvertStringToUl` reads it (32 bits), and
`GetIceServerList` the list.  ServersAreConfigured does not ask what the parser accepts:
it says of each entry what the URI it was made from means (`Serves`), and which URIs may
not be missing, those of the form the comment of the parser gives as its first example
(`IsExampleTurn`) that fit into the fields (`Fits`).  The second example has a property
of its own, StunExampleIsServed.  `Master` composes them: `Master_Task`, the signaling
task with its barrier, and the list a session is started with.

`SdpNegotiation` follows a message of a viewer through `HandleSdpOffer` or
`HandleSdpAnswer`: `SetPayloadTypes` (with `GetPayloadTypes`, `CollectAttributesCodec`,
`SetPayloadType`) writes what it chooses into the session, `PopulateMediaDescriptions`
makes the lines of the answer from that and from the lines of the offer.  A line is a
record of its kind, formats, rtpmap and fmtp attributes, mid and direction; the text
of an attribute is abstracted to its payload type, codec, features and apt, and
`DecimalPrefix` says when `strncmp` takes one number for another.  The handler of a
message is one step; a close is three (`CloseSession`, `ClearDataRemote`,
`OnClosePeerConnection`), in either order at the end, since ICE may report its end
early.  The build has data channels, and an offer has no more lines than the array
of them holds.

## 3. Runs

| run | bounds | shows |
|---|---|---|
| `jitter_buffer` | streams of 5 packets over 6 slots, two lives. Plain ones: every cut into frames, at most one undecodable. Rough ones, from number 14 of 16 and time 29 of 32: start flags on every packet, at most one undecodable or empty, the last packet in the slot of the first | every loss and order. Plain: WholeFramesInOrder (FramesComplete, FramesInOrder), NothingStale (NoNullRead, NoExpiredFrameHeld, NoStaleSlot). Plain and rough: FramesWellFormed, SlotsAccounted (SlotsConsistent, FreeReleasesAll), ScanTerminates, TypeOK |
| `srtp_sender` | one sender, 3 packets, numbers modulo 3, buffer of 2, one NACK of two numbers, 2 closes, 2 connections | BuffersAccounted (with ClosedReleasesAll), ResendIsOriginal (with RollingBufferIsSuffix), NoCrossSession (with SentPacketsAreSrtp), NumbersAdvance, TasksGetOn (CloseCompletes, WriteReturns), TypeOK |
| `pc_session` | 2 offers, 1 candidate, queue of 3, relay, dtlsErrors allowed | ReusableIsClean (with ClosedHasNoSocket), ReadyIsSecured (with ViewersMatch, TransceiversPresent), LifePromise (the refinement of SessionLife, which includes ClosedBeforeReuse), PhasesEnd (ClosingEnds, SessionsSettle, StartTimesOut), TypeOK |
| `pc_quick_offer` | 2 offers, no relay, quickOffer allowed | ClosedBeforeReuse violated, see below |
| `ice_controller` | 2 contexts, candidates for a host and relays over TLS, TCP and UDP, 2 remotes (one of the wrong protocol), one failing call anywhere, 1 life | SocketsFollowState (ClosedReleasesSockets, GhostsExplained), PairsHaveContexts (OneOwner, ReadyHasPair), LossNoticed, TypeOK |
| `ice_live` | the same, no failing call, fair | ChecksAndClosesEnd (DeadlineDecides, ClosingEnds) |
| `sc_signaling` | queue of 2, 2 attempts, credentials live 2 with a grace of 1, ICE servers 1 without grace, clock 2, 2 failures anywhere, 2 messages in, 2 out, both builds | ServicePromise (the refinement), ConnectsAlways (ReconnectsAlways, BarrierReleased), NothingOutlived (CredentialsNotOverstated, ServedIceConfigsFresh), ConnectionsAccounted (EstablishedIsComplete, LeaksExplained), TypeOK |
| `app` | 3 clients, 2 slots, queue of 2, 3 messages, 1 local candidate per life | WrittenForItsClient (with OneSlotPerClient), BuffersAccounted, TypeOK |
| `media` | 2 viewers, 3 offers, queues of 1, 1 output item, 2 frames | CountsAreViewers (with CameraFollowsCount), FramesAccounted, TypeOK |
| `datachannels` | 2 sessions (symmetric), pool of 3, 2 per session, 3 opens, 2 closes | ChannelsAccounted, AckedIsHeld, ListsEnd, TypeOK |
| `master` | 1 region or none, 1 publish, lists of 3 servers from URIs that fail for every reason, 2 messages out of 8, 3 builds | UsersHaveTheirData, ServersAreConfigured, AnswersMirrorOffers |
| `master_stun` | as `master`, with room for 7 servers | StunExampleIsServed violated, see below |

Why the bounds are enough.

* Jitter buffer: a packet may be more than half the buffer from the newest, which is
  refused; five packets make two complete frames with a hole in either, a
  packet that comes after a later frame was delivered, and an expired frame behind a
  gap; where the numbers wrap, the last packet of the five meets the slot of the first
  in use, and the distance of two numbers that share a slot is just more than what is
  accepted at once, as with the code's 1000 slots; the small moduli wrap both counters.
* Sender: three numbers with a buffer of two make the sequence number wrap while the
  rolling buffer evicts; two connections are the least in which something of an old
  one can reach a new one.
* Session: two offers are two lives of a session; the queue of 3 fills (the mutant of
  TypeOK shows it), while the code's is 30 and fills only later.
* ICE: two contexts and three servers are more servers than contexts, so that the
  limit is met; two contexts are the least in which a nomination releases another.
* Signaling: two failures make a reconnection fail inside the handling of an event
  and again in the outer loop, and use up both attempts of a retry loop; the clock
  passes the end of the ICE servers and of the credentials, and ICE servers are handed
  out both fresh and at the last moment of their life.
* Application: three clients for two slots; the queue fills; three messages let an
  offer overtake an answer that waits.  Media: two viewers mix their events; a queue
  of one is full and empty by turns.  Channels: three opens on a pool of three with a
  share of two meet both limits.
* Start: two messages are two descriptions of one connection or, with a close between
  them, of two connections of one session; the offers have lines with and without a
  mid, in both orders, with several H264 payload types, RTX, static payload types, an
  unknown kind and a number that begins another.

Deadlock is checked in `sc_signaling`, where the signaling task never rests.  It is
off in the other runs: a stream ends, a session without further messages rests, the
master idles and a bound is used up.  That tasks do not wait for each other for ever
is what TasksGetOn, PhasesEnd and ChecksAndClosesEnd say.

Fairness.  Weak fairness of each task's steps: FreeRTOS is preemptive, and each of
these tasks blocks in every iteration.  Weak fairness of timers and of time
passing a deadline.  Strong fairness of `RxTurnTerminated`: the refresh request with
lifetime 0 is repeated by the closing timer, and the answer waits in the socket, so
the TURN server is assumed to answer.  In `IceController` also strong fairness of
`IceController_Destroy`, the listener's steps, `RxNothing` and `Poll`: the mutex they
wait for is given back again and again, a socket that is drained is left, and `select`
returns every readable one.  In
`SignalingController` weak fairness of the signaling task only; failures are
bounded by `MaxFaults`, so what ConnectsAlways says is that the task is connected
again once failures stop.  Nothing is assumed of viewers, of the signaling service or
of the media tasks: frames, packets, offers and alerts may never come.
`MessageService` is fair in `CompleteOldest`, which the refinement has to show.

### What the violations show

Each states what a comment of the code says, and TLC shows a behaviour that breaks it;
`PROJECT.json` quotes the comments.

* `pc_quick_offer`: an ICE_CLOSED of the old connection, posted by a timer that stays
  armed, comes after `EmptyMessageQueue` and resets the session being set up to INITED.
* `master_stun`: the URI given as an example of a STUN server (`app_common.c:405`) has no
  transport text, which the parser asks of every URI (`:505`).

### Where the properties make an exception

The code has races and gaps that the models contain and that the properties state
as exceptions, through a ghost variable that only the step in question sets, or that
a constant switches on.  Each is listed under "hazards" with its line.  What an
exception leaves out is not claimed.

* Jitter buffer: after 0xFFFF the next packet, 0, does not become the newest
  (`peer_connection_jitter_buffer.c:338`); a packet that is refused has already
  emptied the slot of an accepted one (`:578`, against the comment at `:678`); with
  several start flags in a frame, a frame without its first packet counts as complete
  (`:142`), so WholeFramesInOrder is about streams with one start per frame; a packet that comes after a later
  frame was delivered moves the buffer back (`tardy`).
* Session: a handshake that fails is never timed out, since the deadline is looked at
  only when the handshake function has returned no error (`peer_connection.c:876`:
  `dtls = "broken"` in SessionsSettle).  With `slowGather`, ReusableIsClean fails:
  the relay socket is opened after the controller was closed.  With `raceDeadline`,
  PhasesEnd fails: a task that is behind overwrites the state of a session that was
  reset, and its slot is lost; with `quickOffer` or `raceDeadline` ReusableIsClean and
  ReadyIsSecured fail too.  With three candidates the timer task can block in the
  queue of a session (`:165`, `:288`).  The state INITED alone does not mean that the
  SRTP sessions are freed, since ICE_CLOSED may be handled before the connection is
  deinitialised; ReusableIsClean therefore asks for every task to be at rest.
* ICE: a task frees a context the other one is working on, and
  `IceControllerNet_UpdateSocketContext` revives it without its socket
  (`ice_controller_net.c:1322`), after which the close waits for ever (`raced`); two
  tasks add a candidate at once (`doubled`); a late nomination makes a closing
  controller READY (`reopened`); the listener closes the nominated socket and tells
  nobody (`deaf`; `ice_controller_socket_listener.c:483`, against the comment at `:481`),
  so that only the session's inactivity check gives the peer up.
* Signaling: a failed read leaves the TLS connection to be overwritten
  (`wslay_helper.c:1809`, against the comment at `:1728`), a connect that fails late
  leaves a wslay context (LeaksExplained counts both); a ping or a message with a NULL
  context faults (`:1187`), as does an HTTP exchange that disconnects a NULL socket
  (`core_http_helper.c:442`).
* Application: answers of all slots point into one SDP buffer (`app_common.c:1389`),
  so an answer that waits while another SDP is handled is sent with the other text
  (`overtaken`); a failed SetRemoteDescription is only logged and the slot is lost
  when no candidate follows.
* Media: a session that is closed while it is still announced, or described again
  while it streams or is being closed, is counted wrongly (`disturbed`).  FramesAccounted
  has no exception, but is no promise that the camera gets on: it blocks in the receive of
  its drop-oldest when the consumer was faster (`app_media_source.c:477`, against the
  comment at `:473`).
* Data channels: three places use the pool or a list without a lock (`raced`);
  CreateDataChannel loses a channel when the session has its share (`leaked`); a
  socket whose set-up fails is not closed (`"lost"`).
* Descriptions: AnswersMirrorOffers is about regular offers (`Regular`), the first of
  their connection or with the same lines as those before.  A media line that is
  skipped (unknown kind, no codec in common) shifts the lines after it, so that they
  get the mid of another; a second description with other lines is appended to the
  first (`peer_connection_sdp.c:617`); format 8 without an rtpmap is written to the
  place of MULAW (`:518`) and answered as payload type 0; of two static formats only
  the first is seen; fmtp attributes are compared by their first digits
  (`sdp_controller.c:1956`, `peer_connection_sdp.c:194`); only H264 describes the RTX
  payload type it names; an answer is sent after a SetRemoteDescription that failed.
* Start: without a channel ARN the region is NULL and the signaling task faults; once
  signaling has started, the cleanup is not reachable, because the master task deletes
  itself; the URI given as an example for STUN is refused (`master_stun`); a
  port that wraps modulo 2^32 into range is accepted; a lost MQTT link is not noticed.

## 4. Proofs

Eight modules, one per component; `AppSessions` and `Master`, the two parts of the
application, share one.  Each theorem is about every value of the constants
the module's assumptions allow, and of the bounds: no theorem assumes a number of
sessions, clients, packets, failures or of steps, except where it is named below.  The
assumptions are those of the models: sizes and capacities are positive numbers, model
values that stand for "none" are not members of the sets they are added to.

In each module an invariant `IInv`, a conjunction of named parts, is shown to hold in
the beginning and to be kept by every step; there is one lemma for each action (or
group of actions that change the same variables) and part, and one that puts them
together.  The parts of an `IInv` that TLC can evaluate were checked as invariants on a
small instance of the component before they were proved.

### JitterBuffer

`JitterBufferProofs` proves, for every set of streams, every modulus, buffer size,
threshold and tolerance allowed by `SizesAssumption` (moduli and sizes positive,
`MaxEntries < SeqMod`) and `StreamsAssumption` (streams are sequences of packets):

* `TypeCorrect`: `Spec => []TypeOK`;
* `SlotsAreConsistent`: a slot is empty or holds one packet with its own number and
  time at the index the number selects;
* `FreeLeavesNothing`: after Free no payload buffer is held;
* `DeliveredFramesWellFormed`: a delivered frame has no hole, no payload the
  depacketizer refuses, and one timestamp.

* `FramesAreWhole`, `NothingStaleIsLeft`, `BurstsAreWhole`: WholeFramesInOrder and
  NothingStale, under hypotheses given below.

The first four follow from `ReceiverInvariant`: `Spec => []ReceiverInv`.  FramesWellFormed
is not inductive: `ScanFrameReady` delivers what lies between `popSeq` and `prev`
without looking at it, because the scan has.  `ReceiverInv` adds what the scan
knows: `ScanFrame` says that while a frame without a hole is being collected
(`popSeq # -1`, `isContinuous`) every slot from `popSeq` to `prev` holds a good packet
of the frame's timestamp and that `prev` is the number before `i`; `ScanMode` says
that a scan belongs to Free exactly when `isInit` is clear, so that no packet is
added during a closing scan; SlotsConsistent ties a slot to its packet.  The lemmas
on `Index`, `Inc` and `SeqRange` say that a range of numbers grows by one element
when its end is incremented, also across the wrap, and that a discarded range is
empty afterwards.  `NextReceiverInv` has one step per action.

WholeFramesInOrder and NothingStale say what a stream's frames become, so they need to
know the stream.  `OrderlyStream` is the hypothesis they have on it: consecutive numbers,
timestamps that never go back, no wrap of either (nor within `TsThreshold` of it), no
timestamp 0, a start flag on the first packet of a frame only.  The plain streams of
`jitter_buffer` are orderly; how packets are lost, delayed and reordered stays open.  Each part is needed: the wraps and
the repeated start flag are the exceptions of section 3, and an empty slot has the
timestamp 0, so it would look like a packet of the head frame.  `InWindow` is the
hypothesis on the sender: nothing in the buffer is `MaxEntries` or more ahead of the
head.  The code does not see to that (the newest packet then takes the slot of another
number), so `FramesAreWhole` and `NothingStaleIsLeft` are about the behaviours in which
it is so, and `BurstsAreWhole` has a case in which it always is, streams of at most
`MaxEntries` packets.  `WindowInv` strengthens the two properties by where the head is
(`HeadFrame`: `oldestSeq` is the number of a packet and `lastPopTs` its timestamp),
what is held (`HeldPackets`: nothing behind the head or newer than `newestTs`), how far
a scan has come (`ScanPlace`: what it has passed and left belongs to the head frame, and
a frame it collects begins at the head), what became of each packet (`DeliveredOnce`:
on its way, held or delivered, and a held one is later than all delivered ones unless
it came tardily) and the time before the first packet (`BeforeStart`).

### SrtpSender

TypeCorrect, BuffersAccountedAlways, ResendIsOriginalAlways, NoCrossSessionAlways and
NumbersAdvanceAlways, for any number of senders in any order, every buffer capacity and
width of the sequence numbers, with and without RTX.  The accounting alone is not
inductive: whether a buffer may be given back depends on who holds the sender's mutex
(`MutexInv`), whether a rolling buffer still exists on how far the two closers have come
(`LifeInv`: once ICE is not open, everything is released or some closer is still to do
it, in the order of the senders), what a NACK finds on the numbers in the queue being the
ones before the next (`NumberInv`, with `After` for "k numbers later modulo SeqMod"), and
the connection a packet belongs to on which SRTP session can be installed while ICE is
open (`KeyInv`).  NumbersAdvanceAlways assumes `MaxNacks <= SeqMod \div 2`: a
resend that fails after it took an RTX number leaves a gap, and "ahead" is the half of
the numbers that comes next; the code has no such limit, but needs 2^15 resends that
fail in a row for it.

### PeerConnectionSession

TypeCorrect, ReadyIsSecuredAlways, ClosedBeforeReuseAlways, LifePromiseAlways and
ReusableIsCleanAlways, under `Calm`: neither `quickOffer` nor `raceDeadline` is among the
timings (with either TLC finds all but the first violated; `dtlsErrors` may be).
ReusableIsCleanAlways also leaves out `slowGather`, with which it fails, the others do
not.  The four tasks share the session without a lock, so what makes it correct is what
the others cannot be doing meanwhile, and `IInv` says that per task: while the session is started or described the listener is idle and the session
task is at its barrier or at the queue (`AppInv`); the daemon acts only on a session in START
(`DaemonInv`); no packet is handled while the session task closes (`ListenerInv`,
`CloserInv`: then nobody polls or the peer is silent); a request that ends a session is
in the queue only while there is something to end (`QueueInv`).  `StateInv` and
`PacketInv` tie the state to ICE, DTLS and the timers.

For ReusableIsClean a close has to be followed through its six steps, in either task and
with the other one, the timers and the queue going on: `CleanInv` says what is still
there at which step.  ICE is closed when the session is INITED or START again, but for
the moment in which the listener has posted ICE_CLOSED and not yet set the state
(`IceInv`); candidates are made only while a path is looked for (`GatherInv`); the SRTP
sessions outlive ICE only until the step that frees them (`SrtpInv`); the close timer is
stopped by the last steps, or its request comes to a session that got no SDP and can do
nothing else meanwhile (`TimerInv`, `NoIceFlow`); the transceivers go when the session is
INITED (`TrxInv`).  Only `SocketInv`, that no socket is opened after the close, needs
that no packet comes while the relay candidate is made.

LifePromiseAlways is the refinement, from the same invariant: eleven actions change what
`SessionLife` is about, and each has its place in a lemma that names the step it implements, with what
the invariant knows of the state it is taken in; every other action is a stutter.

### IceController

TypeCorrect and SocketsFollowStateAlways for any number of contexts, servers, remote
candidates, faults and lives.  `IInv` says where each task is at work (`Places`), that an open
socket belongs to a context in use or to the one just being made (`OpenInv`), that a controller
that is CLOSED has nothing open and nobody who will open it (`ClosedInv`), and, unless
`raced`, that the context in the hand of each task stays as the task left it (`GhostInv`).
PairsHaveContextsAlways and LossNoticedAlways assume `OneLife` (`MaxStarts <= 1`, as in
the run): a listener that receives a packet while the session is closed and started
again nominates a context of the life before, which then has a candidate of the new
life or none, and TLC shows both properties violated with `MaxStarts = 2`.  Their
invariant adds that unused contexts are as they were in the beginning (`Fresh`), that a
context that is being made or connected is not the nominated one (`Apart`), and that the
newest candidate belongs to nobody until the task that made it gives it to its context
(`Reserved`), unless both tasks were doing that (`doubled`).

### SignalingController and MessageService

TypeCorrect, NothingOutlivedAlways, ConnectionsAccountedAlways, and
ImplementsMessageService (`Spec => Service!Safety`: the initial states map to initial
states, each step to Accept, Complete or a stutter), for every queue capacity, number of retries, life
and grace time.  `LentInv` adds to NothingOutlived that an expiration lies at most one
life time ahead; `MsgInv`, on which the refinement rests, says that call numbers rise
along the queue and that whatever is completed is older than whatever is queued, which
is what makes the oldest message the one that is completed.

### AppSessions

TypeCorrect, WrittenForItsClientAlways and BuffersAccountedAlways for any clients, slots
and queue.  A slot is picked when a message arrives and used steps later, so `SlotInv`
says that the slot still belongs to the sender, or the sender has none, until it is started;
`QueueInv` says what the queue's pointers point to, candidates one to one to the heap,
an answer to the shared buffer, which holds its text or is known to hold another;
`WrittenInv` carries that over to what was written.  `FreshBuffer` is a pigeonhole: a
queue that is not full leaves a buffer.

### MediaSource

TypeCorrect, FramesAccountedAlways and CountsAreViewersAlways for any viewers, frames
and capacities.  The invariant has two parts that no action changes both of:
`PeerInv`, by which the counts are the ready sessions and the events they have still to
give (as long as none was disturbed: a description during a close lets the events of two
closes of one session overlap), and `FrameInv`, by which every allocated frame is in exactly one place and a
producer that came through its drop-oldest has room, since nobody else fills its queue.

### DataChannels

TypeCorrect, ListsAlwaysEnd, ChannelsAccountedAlways and AckedIsHeldAlways, for any
sessions, pool, share of a session, streams, opens and closes.  That a list is a least
set is what makes it provable without induction over its length: each lemma about a
write to a pointer names a set that the walk cannot leave.  A write outside the list
changes nothing (`ReachFrame`), a channel behind the last adds itself (`LinkedAtTheEnd`),
one that is taken out leaves the others (`HeadTakenOut`, `LaterTakenOut`), and each kind
of write keeps all walks ending (`CutKeepsEnds`, `LinkKeepsEnds`, `SkipKeepsEnds`).  That
is why ListsAlwaysEnd has no exception: the look through the list before a channel is
linked keeps a channel that two tasks have from being linked to itself, as the mutant of
ListsEnd shows.

The other properties are about tasks at rest, and the invariant says who has a channel
until then.  `PoolInv`: one that is in use was lost by CreateDataChannel, or is in the
hands of one listener (`Taken`), or is held by one session (`Held`), in its list or among
those its closer has still to give back (`From`, which moves along the list); a channel
whose pointer the closer has still to read is in nobody's use.  `CountInv` says when the
counts are true and that a listener that takes a channel has found its session's share
not used up; `AckInv` that a stream has its channel or a refusal before it is
acknowledged; `PhaseInv` who works on a session in which state.  All four are claimed only
while `raced` is false.

### Master

UsersHaveTheirDataAlways, for all regions, failures and messages.  The property speaks
of three places of the program; the invariant says for every place of `Master_Task` what
has been acquired by then and not given back (`InitInv`, `ConnectionInv`, `SignalingInv`).

### Only model-checked

* Everything under fairness: ScanTerminates, TasksGetOn, PhasesEnd, ChecksAndClosesEnd,
  ConnectsAlways and the liveness half of ServicePromise.  The prover has neither
  ENABLED nor liveness rules.
* ServersAreConfigured and AnswersMirrorOffers: the operators fold over lists, and what
  a fold computes for every list needs induction over data, which is out of the prover's
  reach.

## 5. Not modelled

* Text: reading and printing SDP, its session attributes and SSRCs, candidate strings,
  JSON, HTTP headers and signing, Base64 and hexadecimal.  These are conversions
  without state beyond one call; the models take their result as accepted or refused.
* Cryptography and what happens inside mbedtls and lwIP; two tasks in one mbedtls
  context is undefined there, and no outcome can be given for it.
* RTCP sender and receiver reports, TWCC and REMB: they fill structures for the log or
  an estimator in floating point, which TLC cannot evaluate.
* The viewer role (`viewer.c`, `PeerConnection_CreateOffer`) and the sample bandwidth
  estimator.
* Third-party code (cJSON, and the submodules: coreHTTP, libsrtp, usrsctp, wslay, the
  ICE, STUN, RTP, RTCP and signaling libraries, the SDK), the camera and network
  drivers, the platform's entry point, logging and metrics.

## 6. Plan

1. A ghost variable for the listener that spans two lives in `IceController`, so that
   PairsHaveContexts and LossNoticed can be stated, checked and proved for later lives.
2. WholeFramesInOrder and NothingStale of `JitterBuffer` across a wrap of the counters.
3. Composition of the jitter buffer's Push with Free in the closing task; the loops
   that fill a frame in the codec helpers (numbers at 0xFFFF); TWCC numbers shared by
   two media tasks.

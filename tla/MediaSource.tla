----------------------------- MODULE MediaSource -----------------------------
(***************************************************************************)
(* The media source of the master (app_media_source.c, the Ameba port in   *)
(* ameba_pro2_media_port.c, master.c): it counts the peers that are ready, *)
(* switches the camera on and off, and carries frames between the media    *)
(* modules and the sessions through three queues that drop the oldest      *)
(* frame when they are full.                                               *)
(*                                                                         *)
(*   "video", "audio"  filled by the task of the media modules ("camera"), *)
(*                     emptied by VideoTx_Task and AudioTx_Task, which     *)
(*                     write each frame to every session that is ready     *)
(*   "rx"              filled by the listeners of the sessions, emptied by *)
(*                     AudioRx_Task, which plays the frames                *)
(*                                                                         *)
(* Peers become ready in the listener of their session and are closed by   *)
(* the listener or by the session task; only the counters are protected by *)
(* a mutex.                                                                *)
(***************************************************************************)
EXTENDS Naturals, Sequences, FiniteSets, Functions

CONSTANTS
    MaxViewers,  \* AWS_MAX_VIEWER_NUM
    QueueCap,    \* DEMO_TRANSCEIVER_MAX_TX_QUEUE_MSG_NUM and ..._RX_...
    MaxItems,    \* output items of the webrtc module that the player recycles
    MaxOffers,   \* bound: offers that are described
    MaxFrames    \* bound: frames allocated

ASSUME MediaConstants ==
    /\ MaxViewers \in Nat \ {0} /\ QueueCap \in Nat \ {0} /\ MaxItems \in Nat \ {0}
    /\ MaxOffers \in Nat /\ MaxFrames \in Nat

VARIABLES
    state,       \* peerConnectionSession.state of each slot
    closing,     \* the slots whose session is being closed
    toReady,     \* REMOTE_PEER_READY events the listener of a slot has still to give
    toClosed,    \* REMOTE_PEER_CLOSED events the task closing a slot has still to give
    numReady,    \* numReadyPeer of the video and the audio source
    total,       \* totalNumReadyPeer
    mediaStart,  \* mediaStart of the webrtc module
    queue,       \* dataTxQueue of both sources and dataRxQueue
    producer,    \* what each task that fills a queue is doing
    consumer,    \* the frame each task that empties a queue holds
    items,       \* free items in output_recycle
    heap,        \* the frames that are allocated
    frames,      \* frames allocated so far
    offers,      \* offers so far
    disturbed    \* history: a peer was closed before all of it was counted as
                 \* ready, or was described again while it was ready or being closed

peerVars == <<state, closing, toReady, toClosed, offers, disturbed>>
countVars == <<numReady, total, mediaStart>>
frameVars == <<queue, producer, consumer, items, heap, frames>>
vars == <<peerVars, countVars, frameVars>>

Slots == 1..MaxViewers
Kinds == {"video", "audio"}
Paths == Kinds \cup {"rx"}
Camera == 0  \* the task of the media modules
Producers == {Camera} \cup Slots
Nothing == [at |-> "idle"]
Holding(step, path, frame) == [at |-> step, path |-> path, frame |-> frame]
BothKinds == <<"video", "audio">>

\* AppMediaSource_Init and AppMediaSourcePort_Init have succeeded.
Init ==
    /\ state = [s \in Slots |-> "INITED"]
    /\ toReady = [s \in Slots |-> <<>>] /\ toClosed = [s \in Slots |-> <<>>]
    /\ closing = {} /\ offers = 0 /\ disturbed = FALSE
    /\ numReady = [k \in Kinds |-> 0] /\ total = 0 /\ mediaStart = FALSE
    /\ queue = [p \in Paths |-> <<>>]
    /\ producer = [t \in Producers |-> Nothing]
    /\ consumer = [p \in Paths |-> Nothing]
    /\ items = MaxItems /\ heap = {} /\ frames = 0

------------------------------------------------------------------------------
(* The sessions. *)

\* PeerConnection_SetRemoteDescription looks at no state: it sets that of a streaming
\* session back, and of one that is being closed.
Describe(s) ==
    /\ offers < MaxOffers
    /\ offers' = offers + 1
    /\ state' = [state EXCEPT ![s] = "FIND"]
    /\ disturbed' = (disturbed \/ state[s] = "READY" \/ s \in closing)
    /\ UNCHANGED <<closing, toReady, toClosed, countVars, frameVars>>

\* OnDtlsHandshakeComplete: the state comes first, the events follow one by one.
HandshakeComplete(s) ==
    /\ state[s] = "FIND" /\ toReady[s] = <<>>
    /\ state' = [state EXCEPT ![s] = "READY"]
    /\ toReady' = [toReady EXCEPT ![s] = BothKinds]
    /\ UNCHANGED <<closing, toClosed, offers, disturbed, countVars, frameVars>>

\* PeerConnection_CloseSession: the events are given when the state was READY,
\* although the listener may still be giving those of the connection.
CloseSession(s) ==
    /\ state[s] \in {"FIND", "READY"}
    /\ state' = [state EXCEPT ![s] = "CLOSING"] /\ closing' = closing \cup {s}
    /\ toClosed' = IF state[s] = "READY" THEN [toClosed EXCEPT ![s] = @ \o BothKinds] ELSE toClosed
    /\ disturbed' = (disturbed \/ toReady[s] # <<>>)
    /\ UNCHANGED <<toReady, offers, countVars, frameVars>>

\* OnClosePeerConnection ends the close, whatever the state has become meanwhile: the
\* transceivers are gone, which also ends the listener's loop.
SessionClosed(s) ==
    /\ s \in closing /\ toClosed[s] = <<>>
    /\ closing' = closing \ {s}
    /\ state' = [state EXCEPT ![s] = "INITED"]
    /\ toReady' = [toReady EXCEPT ![s] = <<>>]
    /\ UNCHANGED <<toClosed, offers, disturbed, countVars, frameVars>>

\* Mutant: peers beyond the limit are counted too.
RemotePeerReady_NoLimit(s) ==
    /\ toReady[s] # <<>>
    /\ numReady' = [numReady EXCEPT ![Head(toReady[s])] = @ + 1]
    /\ total' = total + 1
    /\ mediaStart' = (mediaStart \/ total' = 1)
    /\ toReady' = [toReady EXCEPT ![s] = Tail(@)]
    /\ UNCHANGED <<state, closing, toClosed, offers, disturbed, frameVars>>

\* OnPcEventRemotePeerReady, under mediaMutex; AppMediaSourcePort_Start registers the
\* callbacks, then sets mediaStart.
RemotePeerReady(s) ==
    /\ toReady[s] # <<>>
    /\ LET k == Head(toReady[s])
           counted == numReady[k] < MaxViewers
       IN  /\ numReady' = IF counted THEN [numReady EXCEPT ![k] = @ + 1] ELSE numReady
           /\ total' = IF counted THEN total + 1 ELSE total
    /\ mediaStart' = (mediaStart \/ total' = 1)
    /\ toReady' = [toReady EXCEPT ![s] = Tail(@)]
    /\ UNCHANGED <<state, closing, toClosed, offers, disturbed, frameVars>>

\* Mutant: the media stop when the source of one kind has no peer.
RemotePeerClosed_OneKind(s) ==
    /\ toClosed[s] # <<>>
    /\ LET k == Head(toClosed[s])
           counted == numReady[k] > 0
       IN  /\ numReady' = IF counted THEN [numReady EXCEPT ![k] = @ - 1] ELSE numReady
           /\ total' = IF counted THEN total - 1 ELSE total
           /\ mediaStart' = (mediaStart /\ numReady'[k] # 0)
    /\ toClosed' = [toClosed EXCEPT ![s] = Tail(@)]
    /\ UNCHANGED <<state, closing, toReady, offers, disturbed, frameVars>>

\* OnPcEventRemotePeerClosed and AppMediaSourcePort_Stop, under mediaMutex.
RemotePeerClosed(s) ==
    /\ toClosed[s] # <<>>
    /\ LET k == Head(toClosed[s])
           counted == numReady[k] > 0
       IN  /\ numReady' = IF counted THEN [numReady EXCEPT ![k] = @ - 1] ELSE numReady
           /\ total' = IF counted THEN total - 1 ELSE total
    /\ mediaStart' = (mediaStart /\ total' # 0)
    /\ toClosed' = [toClosed EXCEPT ![s] = Tail(@)]
    /\ UNCHANGED <<state, closing, toReady, offers, disturbed, frameVars>>

Peer(s) ==
    \/ Describe(s) \/ HandshakeComplete(s) \/ CloseSession(s) \/ SessionClosed(s)
    \/ RemotePeerReady(s) \/ RemotePeerClosed(s)

------------------------------------------------------------------------------
(* The tasks that fill the queues. *)

Full(path) == Len(queue[path]) = QueueCap
SetProducer(t, doing) == producer' = [producer EXCEPT ![t] = doing]

\* HandleModuleFrameHook: while the media are started a frame is copied into memory
\* of its own; without memory it is skipped.
CaptureFrame(k) ==
    /\ producer[Camera] = Nothing /\ mediaStart /\ frames < MaxFrames
    /\ frames' = frames + 1
    /\ heap' = heap \cup {frames'}
    /\ SetProducer(Camera, Holding("check", k, frames'))
    /\ UNCHANGED <<peerVars, countVars, queue, consumer, items>>

\* HandleRxAudioFrame: a frame that the jitter buffer of a session hands over; it is
\* copied once there is room for it.
ReceiveFrame(s) ==
    /\ producer[s] = Nothing /\ state[s] = "READY" /\ frames < MaxFrames
    /\ frames' = frames + 1
    /\ SetProducer(s, Holding("check", "rx", frames'))
    /\ UNCHANGED <<peerVars, countVars, queue, consumer, items, heap>>

\* MessageQueue_IsFull.
CheckFull(t) ==
    /\ producer[t].at = "check"
    /\ SetProducer(t, [producer[t] EXCEPT !.at = IF Full(producer[t].path) THEN "drop" ELSE "send"])
    /\ UNCHANGED <<peerVars, countVars, queue, consumer, items, heap, frames>>

\* Mutant: the frame that is dropped is not freed.
DropOldest_Kept(t) ==
    LET path == producer[t].path
    IN  /\ producer[t].at = "drop" /\ queue[path] # <<>>
        /\ queue' = [queue EXCEPT ![path] = Tail(@)]
        /\ SetProducer(t, [producer[t] EXCEPT !.at = "send"])
        /\ UNCHANGED <<peerVars, countVars, consumer, items, heap, frames>>

\* MessageQueue_Recv for the oldest frame, which waits for ever if the consumer has
\* emptied the queue in the meantime; the frame is freed.
DropOldest(t) ==
    LET path == producer[t].path
    IN  /\ producer[t].at = "drop" /\ queue[path] # <<>>
        /\ queue' = [queue EXCEPT ![path] = Tail(@)]
        /\ heap' = heap \ {Head(queue[path])}
        /\ SetProducer(t, [producer[t] EXCEPT !.at = "send"])
        /\ UNCHANGED <<peerVars, countVars, consumer, items, frames>>

\* MessageQueue_Send of a captured frame: a frame that cannot be sent is not freed.
SendCaptured ==
    LET path == producer[Camera].path  frame == producer[Camera].frame
    IN  /\ producer[Camera].at = "send"
        /\ queue' = IF Full(path) THEN queue ELSE [queue EXCEPT ![path] = Append(@, frame)]
        /\ SetProducer(Camera, Nothing)
        /\ UNCHANGED <<peerVars, countVars, consumer, items, heap, frames>>

\* The last part of AppMediaSource_RecvFrame: the copy, unless there is no memory, and
\* MessageQueue_Send; a frame that cannot be sent, as another listener has filled the
\* queue, is freed.
SendReceived(s) ==
    LET frame == producer[s].frame
    IN  /\ producer[s].at = "send"
        /\ \/ /\ ~Full("rx")
              /\ queue' = [queue EXCEPT !["rx"] = Append(@, frame)]
              /\ heap' = heap \cup {frame}
           \/ UNCHANGED <<queue, heap>>
        /\ SetProducer(s, Nothing)
        /\ UNCHANGED <<peerVars, countVars, consumer, items, frames>>

Produce ==
    \/ \E k \in Kinds : CaptureFrame(k)
    \/ SendCaptured
    \/ \E t \in Producers : CheckFull(t) \/ DropOldest(t)
    \/ \E s \in Slots : ReceiveFrame(s) \/ SendReceived(s)

------------------------------------------------------------------------------
(* The tasks that empty the queues. *)

SetConsumer(p, doing) == consumer' = [consumer EXCEPT ![p] = doing]

\* VideoTx_Task, AudioTx_Task, AudioRx_Task: MessageQueue_Recv.
TakeFrame(p) ==
    /\ consumer[p] = Nothing /\ queue[p] # <<>>
    /\ SetConsumer(p, Holding(IF p = "rx" THEN "play" ELSE "write", p, Head(queue[p])))
    /\ queue' = [queue EXCEPT ![p] = Tail(@)]
    /\ UNCHANGED <<peerVars, countVars, producer, items, heap, frames>>

\* OnMediaSinkHook has written the frame to every session that was ready when the
\* loop came to it, whatever the results were; the frame is freed.
WriteFrame(k) ==
    /\ consumer[k].at = "write"
    /\ heap' = heap \ {consumer[k].frame}
    /\ SetConsumer(k, Nothing)
    /\ UNCHANGED <<peerVars, countVars, queue, producer, items, frames>>

\* AppMediaSourcePort_PlayAudioFrame: waits for a free item, fills it and passes it on.
PlayAudioFrame ==
    /\ consumer["rx"].at = "play" /\ items > 0
    /\ items' = items - 1
    /\ heap' = heap \ {consumer["rx"].frame}
    /\ SetConsumer("rx", Nothing)
    /\ UNCHANGED <<peerVars, countVars, queue, producer, frames>>

\* The audio module has played an item (external).
ItemPlayed ==
    /\ items < MaxItems
    /\ items' = items + 1
    /\ UNCHANGED <<peerVars, countVars, queue, producer, consumer, heap, frames>>

Consume ==
    \/ \E p \in Paths : TakeFrame(p)
    \/ \E k \in Kinds : WriteFrame(k)
    \/ PlayAudioFrame \/ ItemPlayed

Next == (\E s \in Slots : Peer(s)) \/ Produce \/ Consume

Spec == Init /\ [][Next]_vars

------------------------------------------------------------------------------
(* Properties. *)

\* Every variable keeps its type, the queues their capacity and the counters their limit.
TypeOK ==
    /\ state \in [Slots -> {"INITED", "FIND", "READY", "CLOSING"}] /\ closing \subseteq Slots
    /\ \A s \in Slots : Range(toReady[s]) \subseteq Kinds /\ Range(toClosed[s]) \subseteq Kinds
    /\ numReady \in [Kinds -> 0..MaxViewers] /\ total \in 0..(2 * MaxViewers)
    /\ mediaStart \in BOOLEAN /\ disturbed \in BOOLEAN
    /\ \A p \in Paths : Len(queue[p]) <= QueueCap /\ Range(queue[p]) \subseteq heap
    /\ items \in 0..MaxItems /\ heap \subseteq 1..frames
    /\ frames \in 0..MaxFrames /\ offers \in 0..MaxOffers

\* The camera runs exactly while a peer is counted, however the events of several
\* sessions are mixed.
CameraFollowsCount ==
    /\ mediaStart <=> total > 0
    /\ total = numReady["video"] + numReady["audio"]

Pending(seqs, k) == {s \in Slots : k \in Range(seqs[s])}

\* The camera runs exactly while a session is ready, once the events have been given:
\* it follows the counts (OnPcEventRemotePeerReady starts it at one peer,
\* OnPcEventRemotePeerClosed stops it at none), and the counts are the ready sessions,
\* unless a session was closed while its listener was still announcing it or was
\* described again while it was streaming or being closed.
CountsAreViewers ==
    /\ CameraFollowsCount
    /\ ~disturbed =>
        \A k \in Kinds :
            numReady[k] + Cardinality(Pending(toReady, k))
              = Cardinality({s \in Slots : state[s] = "READY"}) + Cardinality(Pending(toClosed, k))

\* No frame is leaked or freed while in use: what is allocated is in a queue or in the
\* hands of one task.
FramesAccounted ==
    LET inQueues == UNION {Range(queue[p]) : p \in Paths}
        captured == {producer[t].frame : t \in {u \in {Camera} : producer[u] # Nothing}}
        held == {consumer[p].frame : p \in {q \in Paths : consumer[q] # Nothing}}
    IN  /\ heap = inQueues \cup captured \cup held
        /\ inQueues \cap (captured \cup held) = {}
==============================================================================

----------------------------- MODULE DataChannels -----------------------------
(***************************************************************************)
(* SCTP data channels (peer_connection_sctp.c, sctp_utils.c): the pool of  *)
(* channel objects that all sessions share, the list of channels of each   *)
(* session and the SCTP association under it.                              *)
(*                                                                         *)
(* The listener of a session makes the association when the DTLS handshake *)
(* is complete and handles what arrives; a channel the remote peer opens   *)
(* is taken from the pool in several steps, without a lock.  The task that *)
(* closes a session (the session task, or its listener between two         *)
(* packets) gives its channels back and waits for usrsctp, whose own       *)
(* thread reports outgoing packets.                                        *)
(***************************************************************************)
EXTENDS Naturals, FiniteSets

CONSTANTS
    Sessions,      \* the peer connection sessions
    MaxChannels,   \* MAX_SCTP_DATA_CHANNELS
    PerPeer,       \* PEER_CONNECTION_MAX_SCTP_DATA_CHANNELS_PER_PEER
    LocalFirst,    \* the stream of the first local channel: 0, or 1 for a DTLS server
    RemoteStreams, \* the streams the remote peer opens channels on
    MaxOpens,      \* bound: channels opened by remote peers or made by the application
    MaxCloses      \* bound: closes of sessions

ASSUME DataChannelConstants ==
    /\ MaxChannels \in Nat \ {0} /\ PerPeer \in Nat \ {0} /\ LocalFirst \in {0, 1}
    /\ RemoteStreams \subseteq Nat /\ MaxOpens \in Nat /\ MaxCloses \in Nat

VARIABLES
    active,    \* ucChannelActive of each channel object
    total,     \* uKVSDataChannelCount
    stream,    \* dataChannel.channelId
    next,      \* pxNext
    head,      \* pDataChannels of each session
    count,     \* uKvsDataChannelCount of each session
    state,     \* peerConnectionSession.state
    shutdown,  \* shutdownStatus of the association
    socket,    \* the usrsctp socket of the association; "lost": made and not closed
    listener,  \* what the listener is doing: the step, the stream, the channel
    closer,    \* what the task that closes the session is doing: the step, pxIterator
    opens, closes,
    acked,     \* history: the streams acknowledged in this life of the session
    refused,   \* history: those of them for which no channel was left
    leaked,    \* history: channels taken from the pool and never linked
    raced      \* history: one of the races named in the actions has happened

poolVars == <<active, total, stream, next>>
sessionVars == <<head, count, state, shutdown, socket>>
historyVars == <<acked, refused, leaked, raced>>
vars == <<poolVars, sessionVars, listener, closer, opens, closes, historyVars>>

Channels == 1..MaxChannels
NULL == 0
Idle == [at |-> "idle", stream |-> 0, channel |-> NULL]

\* The data is zero-initialised: shutdownStatus 0 is SCTP_SESSION_SHUTDOWN_INITIATED.
Init ==
    /\ active = [c \in Channels |-> FALSE] /\ total = 0
    /\ stream = [c \in Channels |-> 0] /\ next = [c \in Channels |-> NULL]
    /\ head = [s \in Sessions |-> NULL] /\ count = [s \in Sessions |-> 0]
    /\ state = [s \in Sessions |-> "INITED"]
    /\ shutdown = [s \in Sessions |-> "initiated"] /\ socket = [s \in Sessions |-> "none"]
    /\ listener = [s \in Sessions |-> Idle] /\ closer = [s \in Sessions |-> Idle]
    /\ opens = 0 /\ closes = 0
    /\ acked = [s \in Sessions |-> {}] /\ refused = [s \in Sessions |-> {}]
    /\ leaked = {} /\ raced = FALSE

------------------------------------------------------------------------------
(* The list of a session. *)

\* The channels a walk along the pointers nx meets from c on: the least set that has c
\* and with each channel the one after it.
Reach(nx, c) ==
    {d \in Channels : \A S \in SUBSET Channels :
        c \in S \cup {NULL} /\ (\A e \in S : nx[e] \in S \cup {NULL}) => d \in S}

Listed(s) == Reach(next, head[s])
Last(s) == CHOOSE c \in Listed(s) : next[c] = NULL
Before(s, c) == CHOOSE d \in Listed(s) : next[d] = c

\* pxGetDataChannelWithID.
ChannelOf(s, str) == {c \in Listed(s) : stream[c] = str}

\* Mutant: the channel is put at the end even if it is in the list.
LinkIn_NotLooked(s, c, nx) ==
    IF head[s] = NULL
    THEN head' = [head EXCEPT ![s] = c] /\ next' = [next EXCEPT ![c] = NULL]
    ELSE next' = [next EXCEPT ![c] = NULL, ![Last(s)] = c] /\ UNCHANGED head

\* The channel is put at the end of the list, unless it is there already; nx are the
\* pointers as the task finds them.
LinkIn(s, c, nx) ==
    CASE head[s] = NULL ->
            head' = [head EXCEPT ![s] = c] /\ next' = [next EXCEPT ![c] = NULL]
      [] head[s] # NULL /\ c \in Listed(s) -> next' = nx /\ UNCHANGED head
      [] OTHER -> next' = [next EXCEPT ![c] = NULL, ![Last(s)] = c] /\ UNCHANGED head

LinkOut(s, c) ==
    IF head[s] = c
    THEN head' = [head EXCEPT ![s] = next[c]] /\ UNCHANGED next
    ELSE next' = [next EXCEPT ![Before(s, c)] = next[c]] /\ UNCHANGED head

\* PeerConnectionSCTP_AllocateDataChannel: the object that will be taken.
Vacant == {c \in Channels : ~active[c]}
CanAllocate == total < MaxChannels /\ Vacant # {}
Lowest == CHOOSE c \in Vacant : \A d \in Vacant : c <= d

\* Two races: another task has taken the object since it was found vacant, or the task
\* that gave it back has still to read its pxNext.
Contended(c) ==
    active[c] \/ \E s \in Sessions : closer[s].at = "advance" /\ closer[s].channel = c

\* ... and taking it: memset, ucChannelActive, the count.
Take(c) ==
    /\ active' = [active EXCEPT ![c] = TRUE]
    /\ total' = total + 1
    /\ stream' = [stream EXCEPT ![c] = 0]
    /\ raced' = (raced \/ Contended(c))

\* Mutant: the count of the pool is not lowered.
Deallocate_KeepsCount(c) == active' = [active EXCEPT ![c] = FALSE] /\ UNCHANGED total

\* PeerConnectionSCTP_DeallocateDataChannel.
Deallocate(c) ==
    /\ active' = [active EXCEPT ![c] = FALSE]
    /\ total' = IF total > 0 THEN total - 1 ELSE 0

------------------------------------------------------------------------------
(* The application (the viewer) and the handshake. *)

\* PeerConnectionSCTP_CreateDataChannel, before the connection is made.  A channel
\* beyond the limit of the session has been taken from the pool and is not linked.
CreateDataChannel(s) ==
    /\ state[s] = "INITED" /\ CanAllocate /\ opens < MaxOpens
    /\ opens' = opens + 1
    /\ Take(Lowest)
    /\ IF count[s] < PerPeer
       THEN /\ LinkIn(s, Lowest, [next EXCEPT ![Lowest] = NULL])
            /\ count' = [count EXCEPT ![s] = @ + 1]
            /\ UNCHANGED leaked
       ELSE /\ leaked' = leaked \cup {Lowest}
            /\ next' = [next EXCEPT ![Lowest] = NULL]
            /\ UNCHANGED <<head, count>>
    /\ UNCHANGED <<state, shutdown, socket, listener, closer, closes, acked, refused>>

\* Sctp_OpenDataChannel: the streams of one's own channels are numbered in steps of two,
\* in the order of the list.
LocalStream(s, c) == LocalFirst + 2 * Cardinality(Listed(s) \ Reach(next, c))

\* PeerConnectionSCTP_AllocateSCTP: the association is made and the channels of the
\* application are opened on every second stream.
SctpMade(s) ==
    /\ socket' = [socket EXCEPT ![s] = "open"]
    /\ shutdown' = [shutdown EXCEPT ![s] = "active"]
    /\ stream' = [c \in Channels |-> IF c \in Listed(s) THEN LocalStream(s, c) ELSE stream[c]]

\* OnDtlsHandshakeComplete of a session with or without an SDP section for data.
HandshakeComplete(s) ==
    /\ state[s] = "INITED"
    /\ SctpMade(s) \/ UNCHANGED <<socket, shutdown, stream>>
    /\ state' = [state EXCEPT ![s] = "READY"]
    /\ UNCHANGED <<active, total, next, head, count, listener, closer, opens, closes, historyVars>>

\* Sctp_CreateSession fails: Sctp_FreeSession does nothing as the session is not
\* active yet, so a socket that was created stays.  Or a channel cannot be opened.
HandshakeFails(s) ==
    /\ state[s] = "INITED" /\ closes < MaxCloses
    /\ \/ SctpMade(s)
       \/ socket' = [socket EXCEPT ![s] = "lost"] /\ UNCHANGED <<shutdown, stream>>
       \/ UNCHANGED <<socket, shutdown, stream>>
    /\ closes' = closes + 1
    /\ state' = [state EXCEPT ![s] = "CLOSING"]
    /\ closer' = [closer EXCEPT ![s] = [Idle EXCEPT !.at = "reset"]]
    /\ UNCHANGED <<active, total, next, head, count, listener, opens, historyVars>>

\* PeerConnectionSCTP_CloseDataChannel, which nothing in the repository calls: taken
\* while no task works on the session.  The stream cannot be reset, or all is done.
CloseDataChannel(s) ==
    /\ state[s] = "READY" /\ socket[s] = "open" /\ listener[s] = Idle /\ closer[s] = Idle
    /\ \E c \in Listed(s) :
        /\ LinkOut(s, c)
        /\ Deallocate(c)
        /\ count' = [count EXCEPT ![s] = IF @ > 0 THEN @ - 1 ELSE 0]
        /\ acked' = [acked EXCEPT ![s] = @ \ {stream[c]}]
    /\ UNCHANGED <<stream, state, shutdown, socket, listener, closer, opens, closes, refused,
                   leaked, raced>>

------------------------------------------------------------------------------
(* The listener handles a DATA_CHANNEL_OPEN. *)

ListenerDoes(s, step, str, c) ==
    listener' = [listener EXCEPT ![s] = [at |-> step, stream |-> str, channel |-> c]]

\* ProcessDtlsPacket hands the packet on while the session is READY.
ReceiveOpen(s, str) ==
    /\ listener[s] = Idle /\ state[s] = "READY" /\ socket[s] = "open" /\ opens < MaxOpens
    /\ opens' = opens + 1
    /\ ListenerDoes(s, "find", str, NULL)
    /\ UNCHANGED <<poolVars, sessionVars, closer, closes, historyVars>>

\* Mutant: the limit of the session is not looked at.
FindChannel_NoPeerLimit(s) ==
    LET str == listener[s].stream
    IN  /\ listener[s].at = "find"
        /\ IF CanAllocate
           THEN ListenerDoes(s, "take", str, Lowest) /\ UNCHANGED refused
           ELSE /\ ListenerDoes(s, "ack", str, NULL)
                /\ refused' = [refused EXCEPT ![s] = @ \cup {str}]
        /\ UNCHANGED <<poolVars, sessionVars, closer, opens, closes, acked, leaked, raced>>

\* OnSCTPSessionDataChannelOpen looks at the limits and at the pool.
FindChannel(s) ==
    LET str == listener[s].stream
    IN  /\ listener[s].at = "find"
        /\ IF count[s] < PerPeer /\ CanAllocate
           THEN ListenerDoes(s, "take", str, Lowest) /\ UNCHANGED refused
           ELSE /\ ListenerDoes(s, "ack", str, NULL)
                /\ refused' = [refused EXCEPT ![s] = @ \cup {str}]
        /\ UNCHANGED <<poolVars, sessionVars, closer, opens, closes, acked, leaked, raced>>

\* The object is cleared and marked.
TakeChannel(s) ==
    LET c == listener[s].channel
    IN  /\ listener[s].at = "take"
        /\ Take(c) /\ next' = [next EXCEPT ![c] = NULL]
        /\ ListenerDoes(s, "link", listener[s].stream, c)
        /\ UNCHANGED <<sessionVars, closer, opens, closes, acked, refused, leaked>>

LinkChannel(s) ==
    LET c == listener[s].channel
    IN  /\ listener[s].at = "link"
        /\ LinkIn(s, c, next)
        /\ stream' = [stream EXCEPT ![c] = listener[s].stream]
        /\ count' = [count EXCEPT ![s] = @ + 1]
        /\ ListenerDoes(s, "ack", listener[s].stream, c)
        /\ UNCHANGED <<active, total, state, shutdown, socket, closer, opens, closes, historyVars>>

\* HandleDcepMessage acknowledges the channel in any case; the packet may not go out.
SendOpenDataChannelAck(s) ==
    /\ listener[s].at = "ack"
    /\ \/ acked' = [acked EXCEPT ![s] = @ \cup {listener[s].stream}]
       \/ UNCHANGED acked
    /\ listener' = [listener EXCEPT ![s] = Idle]
    /\ UNCHANGED <<poolVars, sessionVars, closer, opens, closes, refused, leaked, raced>>

Listener(s) ==
    \/ \E str \in RemoteStreams : ReceiveOpen(s, str)
    \/ FindChannel(s) \/ TakeChannel(s) \/ LinkChannel(s) \/ SendOpenDataChannelAck(s)

------------------------------------------------------------------------------
(* The close.  *)

CloserDoes(s, step, c) == closer' = [closer EXCEPT ![s] = [Idle EXCEPT !.at = step, !.channel = c]]

\* PeerConnection_CloseSession.  Race: the listener is handling an open.
CloseSession(s) ==
    /\ state[s] = "READY" /\ closes < MaxCloses
    /\ closes' = closes + 1
    /\ state' = [state EXCEPT ![s] = "CLOSING"]
    /\ raced' = (raced \/ listener[s] # Idle)
    /\ CloserDoes(s, "reset", NULL)
    /\ UNCHANGED <<poolVars, head, count, shutdown, socket, listener, opens, acked, refused, leaked>>

ResetCount(s) ==
    /\ closer[s].at = "reset"
    /\ count' = [count EXCEPT ![s] = 0]
    /\ CloserDoes(s, "close", head[s])
    /\ UNCHANGED <<poolVars, head, state, shutdown, socket, listener, opens, closes, historyVars>>

\* The loop of PeerConnectionSCTP_DeallocateSCTP gives a channel back ...
CloseChannel(s) ==
    /\ closer[s].at = "close" /\ closer[s].channel # NULL
    /\ Deallocate(closer[s].channel)
    /\ CloserDoes(s, "advance", closer[s].channel)
    /\ UNCHANGED <<stream, next, sessionVars, listener, opens, closes, historyVars>>

\* ... and then reads its pxNext.
Advance(s) ==
    /\ closer[s].at = "advance"
    /\ CloserDoes(s, "close", next[closer[s].channel])
    /\ UNCHANGED <<poolVars, sessionVars, listener, opens, closes, historyVars>>

ClearList(s) ==
    /\ closer[s].at = "close" /\ closer[s].channel = NULL
    /\ head' = [head EXCEPT ![s] = NULL]
    /\ CloserDoes(s, "free", NULL)
    /\ UNCHANGED <<poolVars, count, state, shutdown, socket, listener, opens, closes, historyVars>>

\* Mutant: an association that is being shut down is waited for only.
Sctp_FreeSession_NoClose(s) ==
    /\ closer[s].at = "free"
    /\ shutdown' = [shutdown EXCEPT ![s] = IF @ = "active" THEN "initiated" ELSE @]
    /\ CloserDoes(s, "wait", NULL)
    /\ UNCHANGED <<poolVars, head, count, state, socket, listener, opens, closes, historyVars>>

\* Sctp_FreeSession of an association that is active.
Sctp_FreeSession(s) ==
    /\ closer[s].at = "free"
    /\ IF shutdown[s] = "active"
       THEN /\ shutdown' = [shutdown EXCEPT ![s] = "initiated"]
            /\ socket' = [socket EXCEPT ![s] = "none"]
       ELSE UNCHANGED <<shutdown, socket>>
    /\ CloserDoes(s, "wait", NULL)
    /\ UNCHANGED <<poolVars, head, count, state, listener, opens, closes, historyVars>>

\* OnSctpOutboundPacket, in the thread of usrsctp: the first packet after the
\* shutdown ends the wait.
OnSctpOutboundPacket(s) ==
    /\ shutdown[s] = "initiated"
    /\ shutdown' = [shutdown EXCEPT ![s] = "completed"]
    /\ UNCHANGED <<poolVars, head, count, state, socket, listener, closer, opens, closes, historyVars>>

\* The wait is over, at the latest after SCTP_SHUTDOWN_TIMEOUT_SEC; the session can
\* be used again.  The listener has left what it was doing by then.
Closed(s) ==
    /\ closer[s].at = "wait" /\ listener[s] = Idle
    /\ closer' = [closer EXCEPT ![s] = Idle]
    /\ state' = [state EXCEPT ![s] = "INITED"]
    /\ acked' = [acked EXCEPT ![s] = {}] /\ refused' = [refused EXCEPT ![s] = {}]
    /\ UNCHANGED <<poolVars, head, count, shutdown, socket, listener, opens, closes, leaked, raced>>

Closer(s) ==
    \/ CloseSession(s) \/ ResetCount(s) \/ CloseChannel(s) \/ Advance(s) \/ ClearList(s)
    \/ Sctp_FreeSession(s) \/ Closed(s)

Next ==
    \E s \in Sessions :
        \/ CreateDataChannel(s) \/ HandshakeComplete(s) \/ HandshakeFails(s) \/ CloseDataChannel(s)
        \/ Listener(s) \/ Closer(s) \/ OnSctpOutboundPacket(s)

Spec == Init /\ [][Next]_vars

------------------------------------------------------------------------------
(* Properties. *)

\* Every variable keeps its type, and no session that is not being closed has more
\* channels than its share, unless a race has put one into its list.
TypeOK ==
    /\ active \in [Channels -> BOOLEAN] /\ next \in [Channels -> Channels \cup {NULL}]
    /\ head \in [Sessions -> Channels \cup {NULL}]
    /\ state \in [Sessions -> {"INITED", "READY", "CLOSING"}]
    /\ shutdown \in [Sessions -> {"initiated", "active", "completed"}]
    /\ socket \in [Sessions -> {"none", "open", "lost"}]
    /\ raced \/ \A s \in Sessions : closer[s] = Idle => Cardinality(Listed(s)) <= PerPeer

\* Every walk along pxNext ends, even after a race has put one channel into two lists:
\* no task is caught in the loops over the list of a session.
ListsEnd == \A c \in Channels : \E d \in Reach(next, c) : next[d] = NULL

AtRest(s) == listener[s] = Idle /\ closer[s] = Idle

\* Once the tasks are at rest each channel object that is in use is in the list of one
\* session, or was lost by CreateDataChannel, and the counts say how many there are:
\* the pool does not run dry however sessions come and go, unless two tasks have met in
\* one of the three places where the pool and the lists are used without a lock.
ChannelsAccounted ==
    ~raced /\ (\A s \in Sessions : AtRest(s)) =>
        /\ {c \in Channels : active[c]} = leaked \cup UNION {Listed(s) : s \in Sessions}
        /\ total = Cardinality({c \in Channels : active[c]})
        /\ \A s \in Sessions :
            /\ count[s] = Cardinality(Listed(s))
            /\ \A t \in Sessions \ {s} : Listed(s) \cap Listed(t) = {}

\* A stream that was acknowledged has its channel as long as the session streams, so
\* its messages find it, unless no channel was left when it was opened; and a session
\* that can be used again holds no socket (HandleDcepMessage, Sctp_FreeSession).
AckedIsHeld ==
    ~raced => \A s \in Sessions :
        /\ state[s] = "READY" =>
            \A str \in acked[s] \ refused[s] : ChannelOf(s, str) # {}
        /\ state[s] = "INITED" => socket[s] # "open"
==============================================================================

------------------------------ MODULE SrtpSender ------------------------------
(***************************************************************************)
(* The sending half of a peer connection session: frames are cut into RTP  *)
(* packets, protected by the SRTP session, kept in a rolling buffer for    *)
(* retransmission and handed to the ICE controller.                        *)
(*                                                                         *)
(* Tasks: one media task per sender (it calls PeerConnection_WriteFrame),  *)
(* the socket listener task (it answers NACKs, completes the DTLS          *)
(* handshake and closes on a DTLS alert) and the session task (it closes   *)
(* on inactivity or on request and handles ICE_CLOSED).  A sender's        *)
(* rolling buffer and sequence number are guarded by its senderMutex, the  *)
(* SRTP session by srtpSessionMutex.                                       *)
(*                                                                         *)
(* A section that holds srtpSessionMutex takes no other lock and waits for *)
(* nothing, so it is one step.  senderMutex is held over several steps and *)
(* is a variable.  A packet's payload is its number in the order the       *)
(* packetizer produced it.                                                 *)
(***************************************************************************)
EXTENDS Integers, Sequences, FiniteSets

CONSTANTS
    Senders,        \* the SRTP senders: video, audio
    SenderOrder,    \* the order in which they are created and cleaned up
    RtxChoices,     \* the sets of senders that may negotiate an RTX payload type
    SeqMod,         \* 2^16 in the code
    Capacity,       \* packets in a rolling buffer
    NackLists,      \* the sequence number lists a NACK may carry
    MaxPackets,     \* bound: packets per sender
    MaxNacks,       \* bound: NACK packets
    MaxCloses,      \* bound: calls of CloseSession per connection
    MaxSessions     \* bound: connections made with this session object

ASSUME SenderAssumption ==
    /\ IsFiniteSet(Senders)
    /\ RtxChoices \subseteq SUBSET Senders
    /\ SenderOrder \in Seq(Senders) /\ SenderOrder # <<>>
    /\ Senders = {SenderOrder[i] : i \in 1 .. Len(SenderOrder)}
    /\ \A i, j \in 1 .. Len(SenderOrder) : SenderOrder[i] = SenderOrder[j] => i = j
    /\ Senders \cap {"listener", "session", "none", "idle", "init", "destroy",
                    "destroyed", "deinit"} = {}

ASSUME BoundAssumption ==
    /\ Capacity \in Nat \ {0}
    /\ SeqMod \in Nat /\ SeqMod > Capacity
    /\ NackLists \subseteq Seq(0 .. SeqMod - 1)
    /\ MaxPackets \in Nat /\ MaxNacks \in Nat
    /\ MaxCloses \in Nat /\ MaxSessions \in Nat

SeqNums == 0 .. SeqMod - 1
\* One buffer more than the queue holds for the packet in the making, and one
\* that only a lost buffer would use.
Buffers == 1 .. Capacity + 2
Closers == {"listener", "session"}

VARIABLES
    state,          \* PeerConnectionSession_t.state
    iceState,       \* IceControllerContext_t.state
    relay,          \* which of the sockets is a relay: none, another, nominated
    selected,       \* the nominated socket is open and SELECTED
    closedMsg,      \* ICE_CLOSED waits in the session's request queue
    rtx,            \* the senders with an RTX payload type of their own
    session,        \* connections made so far
    txSession,      \* srtpTransmitSession: the connection it was made for, or 0
    senderMutex,    \* the task that holds each sender's mutex
    isInit,         \* PeerConnectionRollingBuffer_t.isInit
    packetQueue,    \* PeerConnectionRollingBuffer_t.packetQueue
    allocated,      \* packet buffers taken from the heap and not given back
    content,        \* what was written in each packet buffer
    rtpSeq,         \* rtpConfig.{video,audio}SequenceNumber
    rtxSeq,         \* rtpConfig.{video,audio}RtxSequenceNumber
    writer,         \* progress of each media task
    nack,           \* progress of the listener's NACK handler
    closer,         \* progress of CloseSession in each task that may run it
    produced,       \* packets made by each sender's packetizer
    stored,         \* packets put in each rolling buffer since it was created
    nacks,          \* NACKs received
    closes,         \* calls of CloseSession since the last connection
    lastPayload,    \* the last payload sent under each sequence number
    lastProtected   \* the last sequence number of each SRTP stream, and how many

sessionVars == <<state, iceState, relay, selected, closedMsg, rtx, session, closes>>
bufferVars == <<isInit, packetQueue, allocated, content, stored>>
vars == <<state, iceState, relay, selected, closedMsg, rtx, session, txSession,
          senderMutex, isInit, packetQueue, allocated, content, rtpSeq, rtxSeq,
          writer, nack, closer, produced, stored, nacks, closes,
          lastPayload, lastProtected>>

NoPacket == [hdr |-> 0, payload |-> 0, key |-> 0]
WriterIdle == [pc |-> "idle", buf |-> 0, key |-> 0]
NackIdle == [pc |-> "idle", s |-> "none", list |-> <<>>, buf |-> 0, key |-> 0]
NothingProtected == [seq |-> 0, n |-> 0]

Init ==
    /\ state = "inited" /\ iceState = "closed" /\ relay = "none"
    /\ selected = FALSE /\ closedMsg = FALSE /\ rtx = {} /\ session = 0
    /\ txSession = 0
    /\ senderMutex = [s \in Senders |-> "none"]
    /\ isInit = [s \in Senders |-> FALSE]
    /\ packetQueue = [s \in Senders |-> <<>>]
    /\ allocated = [s \in Senders |-> {}]
    /\ content = [s \in Senders |-> [b \in Buffers |-> NoPacket]]
    /\ rtpSeq = [s \in Senders |-> 0]
    /\ rtxSeq = [s \in Senders |-> 0]
    /\ writer = [s \in Senders |-> WriterIdle]
    /\ nack = NackIdle
    /\ closer = [t \in Closers |-> "idle"]
    /\ produced = [s \in Senders |-> 0]
    /\ stored = [s \in Senders |-> 0]
    /\ nacks = 0 /\ closes = 0
    /\ lastPayload = [s \in Senders |-> [q \in SeqNums |-> 0]]
    /\ lastProtected = [x \in Senders \X {"rtp", "rtx"} |-> NothingProtected]

-----------------------------------------------------------------------------
(* The rolling buffer *)

\* PeerConnectionRollingBuffer_GetRtpSequenceBuffer: pvPortMalloc.
FreshBuffer(s) == CHOOSE b \in Buffers \ allocated[s] : TRUE

\* PeerConnectionRollingBuffer_DiscardRtpSequenceBuffer: a buffer is given back
\* only while the rolling buffer is initialized.
DiscardRtpSequenceBuffer(s, b) ==
    IF isInit[s]
    THEN allocated' = [allocated EXCEPT ![s] = @ \ {b}]
    ELSE UNCHANGED allocated

\* RtpPacketQueue_ForceEnqueue: when the queue is full its oldest packet leaves.
ForceEnqueue(q, e) ==
    IF Len(q) = Capacity THEN Append(Tail(q), e) ELSE Append(q, e)

Evicted(q) == IF Len(q) = Capacity THEN {q[1].buf} ELSE {}

\* RtpPacketQueue_Retrieve: the buffers that hold sequence number n.
Retrieved(s, n) ==
    {packetQueue[s][i].buf :
        i \in {j \in 1 .. Len(packetQueue[s]) : packetQueue[s][j].seq = n}}

\* PeerConnectionRollingBuffer_SetPacket.
SetPacket(s, n, b) ==
    IF isInit[s]
    THEN /\ packetQueue' = [packetQueue EXCEPT
                ![s] = ForceEnqueue(@, [seq |-> n, buf |-> b])]
         /\ allocated' = [allocated EXCEPT ![s] = @ \ Evicted(packetQueue[s])]
         /\ stored' = [stored EXCEPT ![s] = @ + 1]
         /\ UNCHANGED <<isInit, content>>
    ELSE UNCHANGED bufferVars

\* PeerConnectionRollingBuffer_Free.
RollingBufferFree(s) ==
    IF isInit[s]
    THEN /\ isInit' = [isInit EXCEPT ![s] = FALSE]
         /\ packetQueue' = [packetQueue EXCEPT ![s] = <<>>]
         /\ allocated' = [allocated EXCEPT
                ![s] = @ \ {packetQueue[s][i].buf : i \in 1 .. Len(packetQueue[s])}]
         /\ UNCHANGED <<content, stored>>
    ELSE UNCHANGED bufferVars

-----------------------------------------------------------------------------
(* PeerConnectionSrtp_ConstructSrtpPacket under srtpSessionMutex: without an
   SRTP session the serialized packet is left as it is and the call succeeds. *)

Protect(s, stream, n) ==
    lastProtected' =
        IF txSession = 0
        THEN lastProtected
        ELSE [lastProtected EXCEPT ![<<s, stream>>] = [seq |-> n, n |-> @.n + 1]]

-----------------------------------------------------------------------------
(* A media task writes a frame: PeerConnection_WriteFrame and the codec
   helper's loop over the packets of the frame. *)

\* Mutant: frames are accepted in every state.
WriteFrame_AnyState(s) ==
    /\ writer[s].pc = "idle"
    /\ writer' = [writer EXCEPT ![s].pc = "lock"]
    /\ UNCHANGED <<sessionVars, txSession, senderMutex, bufferVars, rtpSeq, rtxSeq,
                   nack, closer, produced, nacks, lastPayload, lastProtected>>

\* PeerConnection_WriteFrame: the state is read without a lock.
WriteFrame(s) ==
    /\ writer[s].pc = "idle"
    /\ state = "ready"
    /\ writer' = [writer EXCEPT ![s].pc = "lock"]
    /\ UNCHANGED <<sessionVars, txSession, senderMutex, bufferVars, rtpSeq, rtxSeq,
                   nack, closer, produced, nacks, lastPayload, lastProtected>>

TakeSenderMutex(s) ==
    /\ writer[s].pc = "lock"
    /\ senderMutex[s] = "none"
    /\ senderMutex' = [senderMutex EXCEPT ![s] = s]
    /\ writer' = [writer EXCEPT ![s].pc = "alloc"]
    /\ UNCHANGED <<sessionVars, txSession, bufferVars, rtpSeq, rtxSeq, nack, closer,
                   produced, nacks, lastPayload, lastProtected>>

\* The frame is done or an error ended it: the mutex is given back.
LeaveWrite(s) ==
    /\ senderMutex' = [senderMutex EXCEPT ![s] = "none"]
    /\ writer' = [writer EXCEPT ![s] = WriterIdle]

GetBuffer(s) ==
    /\ writer[s].pc = "alloc"
    /\ \/ /\ isInit[s]
          /\ allocated' = [allocated EXCEPT ![s] = @ \cup {FreshBuffer(s)}]
          /\ writer' = [writer EXCEPT ![s].pc = "packet", ![s].buf = FreshBuffer(s)]
          /\ UNCHANGED senderMutex
       \/ /\ ~isInit[s]
          /\ LeaveWrite(s)
          /\ UNCHANGED allocated
    /\ UNCHANGED <<sessionVars, txSession, isInit, packetQueue, content, stored, rtpSeq,
                   rtxSeq, nack, closer, produced, nacks, lastPayload, lastProtected>>

\* The packetizer fills the buffer; its header takes the current number.
GetPacket(s) ==
    /\ writer[s].pc = "packet"
    /\ produced[s] < MaxPackets
    /\ produced' = [produced EXCEPT ![s] = @ + 1]
    /\ content' = [content EXCEPT ![s][writer[s].buf] =
            [hdr |-> rtpSeq[s], payload |-> produced[s] + 1, key |-> 0]]
    /\ writer' = [writer EXCEPT ![s].pc = "protect"]
    /\ UNCHANGED <<sessionVars, txSession, senderMutex, isInit, packetQueue, allocated,
                   stored, rtpSeq, rtxSeq, nack, closer, nacks, lastPayload,
                   lastProtected>>

\* The packetizer has no more packets, or it fails.
NoMorePackets(s) ==
    /\ writer[s].pc = "packet"
    /\ DiscardRtpSequenceBuffer(s, writer[s].buf)
    /\ LeaveWrite(s)
    /\ UNCHANGED <<sessionVars, txSession, isInit, packetQueue, content, stored, rtpSeq,
                   rtxSeq, nack, closer, produced, nacks, lastPayload, lastProtected>>

ConstructSrtpPacket(s) ==
    /\ writer[s].pc = "protect"
    /\ LET p == content[s][writer[s].buf]
       IN /\ Protect(s, "rtp", p.hdr)
          /\ lastPayload' = [lastPayload EXCEPT ![s][p.hdr] = p.payload]
    /\ content' = [content EXCEPT ![s][writer[s].buf].key = txSession]
    /\ writer' = [writer EXCEPT ![s].pc = "store", ![s].key = txSession]
    /\ UNCHANGED <<sessionVars, txSession, senderMutex, isInit, packetQueue, allocated,
                   stored, rtpSeq, rtxSeq, nack, closer, produced, nacks>>

\* Serializing or srtp_protect fails.
ConstructFails(s) ==
    /\ writer[s].pc = "protect"
    /\ DiscardRtpSequenceBuffer(s, writer[s].buf)
    /\ LeaveWrite(s)
    /\ UNCHANGED <<sessionVars, txSession, isInit, packetQueue, content, stored, rtpSeq,
                   rtxSeq, nack, closer, produced, nacks, lastPayload, lastProtected>>

\* Mutant: the number is kept in a wider type.
StorePacket_NoWrap(s) ==
    /\ writer[s].pc = "store"
    /\ SetPacket(s, rtpSeq[s], writer[s].buf)
    /\ rtpSeq' = [rtpSeq EXCEPT ![s] = @ + 1]
    /\ \/ /\ isInit[s]
          /\ writer' = [writer EXCEPT ![s].pc = "send"]
          /\ UNCHANGED senderMutex
       \/ /\ ~isInit[s]
          /\ LeaveWrite(s)
    /\ UNCHANGED <<sessionVars, txSession, rtxSeq, nack, closer, produced, nacks,
                   lastPayload, lastProtected>>

\* Mutant: ++( *pRtpSeq ).
StorePacket_PreIncrement(s) ==
    /\ writer[s].pc = "store"
    /\ SetPacket(s, (rtpSeq[s] + 1) % SeqMod, writer[s].buf)
    /\ rtpSeq' = [rtpSeq EXCEPT ![s] = (@ + 1) % SeqMod]
    /\ \/ /\ isInit[s]
          /\ writer' = [writer EXCEPT ![s].pc = "send"]
          /\ UNCHANGED senderMutex
       \/ /\ ~isInit[s]
          /\ LeaveWrite(s)
    /\ UNCHANGED <<sessionVars, txSession, rtxSeq, nack, closer, produced, nacks,
                   lastPayload, lastProtected>>

\* The packet is stored under ( *pRtpSeq )++.
StorePacket(s) ==
    /\ writer[s].pc = "store"
    /\ SetPacket(s, rtpSeq[s], writer[s].buf)
    /\ rtpSeq' = [rtpSeq EXCEPT ![s] = (@ + 1) % SeqMod]
    /\ \/ /\ isInit[s]
          /\ writer' = [writer EXCEPT ![s].pc = "send"]
          /\ UNCHANGED senderMutex
       \/ /\ ~isInit[s]
          /\ LeaveWrite(s)
    /\ UNCHANGED <<sessionVars, txSession, rtxSeq, nack, closer, produced, nacks,
                   lastPayload, lastProtected>>

\* IceController_SendToRemotePeer; then the next packet of the frame.
SendPacket(s) ==
    /\ writer[s].pc = "send"
    /\ selected
    /\ writer' = [writer EXCEPT ![s] = [WriterIdle EXCEPT !.pc = "alloc"]]
    /\ UNCHANGED <<sessionVars, txSession, senderMutex, bufferVars, rtpSeq, rtxSeq,
                   nack, closer, produced, nacks, lastPayload, lastProtected>>

\* The connection is not ready, or the socket refuses the packet.
SendFails(s) ==
    /\ writer[s].pc = "send"
    /\ LeaveWrite(s)
    /\ UNCHANGED <<sessionVars, txSession, bufferVars, rtpSeq, rtxSeq, nack, closer,
                   produced, nacks, lastPayload, lastProtected>>

-----------------------------------------------------------------------------
(* The listener task answers a NACK: OnRtcpNackEvent calls ResendSrtpPacket
   for every number of the list and stops at the first failure. *)

\* PeerConnectionSrtp_HandleSrtcpPacket refuses packets once the SRTP session
\* is gone; it does not look at the session's state.
OnRtcpNackEvent(s, list) ==
    /\ nack.pc = "idle" /\ closer["listener"] = "idle"
    /\ txSession # 0
    /\ nacks < MaxNacks
    /\ nacks' = nacks + 1
    /\ nack' = [NackIdle EXCEPT !.pc = "lock", !.s = s, !.list = list]
    /\ UNCHANGED <<sessionVars, txSession, senderMutex, bufferVars, rtpSeq, rtxSeq,
                   writer, closer, produced, lastPayload, lastProtected>>

ResendLock ==
    /\ nack.pc = "lock"
    /\ senderMutex[nack.s] = "none"
    /\ senderMutex' = [senderMutex EXCEPT ![nack.s] = "listener"]
    /\ nack' = [nack EXCEPT !.pc = "search"]
    /\ UNCHANGED <<sessionVars, txSession, bufferVars, rtpSeq, rtxSeq, writer, closer,
                   produced, nacks, lastPayload, lastProtected>>

\* ResendSrtpPacket ends, with success (then the next number) or without.
LeaveResend(ok) ==
    /\ senderMutex' = [senderMutex EXCEPT ![nack.s] = "none"]
    /\ nack' = IF ok /\ Len(nack.list) > 1
               THEN [NackIdle EXCEPT !.pc = "lock", !.s = nack.s, !.list = Tail(nack.list)]
               ELSE NackIdle

Searchable(s, n) == isInit[s] /\ Retrieved(s, n) # {}

ResendNotFound ==
    /\ nack.pc = "search"
    /\ ~Searchable(nack.s, Head(nack.list))
    /\ LeaveResend(FALSE)
    /\ UNCHANGED <<sessionVars, txSession, bufferVars, rtpSeq, rtxSeq, writer, closer,
                   produced, nacks, lastPayload, lastProtected>>

\* Without RTX the stored SRTP packet is sent again as it is; with RTX the
\* stored payload gets a header of the RTX stream and is protected anew.
ResendFound ==
    /\ nack.pc = "search"
    /\ Searchable(nack.s, Head(nack.list))
    /\ \E b \in Retrieved(nack.s, Head(nack.list)) :
          \/ /\ nack.s \in rtx
             /\ nack' = [nack EXCEPT !.pc = "protect", !.buf = b]
          \/ /\ nack.s \notin rtx
             /\ nack' = [nack EXCEPT !.pc = "send", !.buf = b,
                                     !.key = content[nack.s][b].key]
    /\ UNCHANGED <<sessionVars, txSession, senderMutex, bufferVars, rtpSeq, rtxSeq,
                   writer, closer, produced, nacks, lastPayload, lastProtected>>

\* Mutant: the RTX number is not incremented.
ResendConstruct_SameNumber ==
    /\ nack.pc = "protect"
    /\ rtxSeq' = rtxSeq
    /\ Protect(nack.s, "rtx", rtxSeq[nack.s])
    /\ nack' = [nack EXCEPT !.pc = "send", !.key = txSession]
    /\ UNCHANGED <<sessionVars, txSession, senderMutex, bufferVars, rtpSeq, writer,
                   closer, produced, nacks, lastPayload>>

\* The header takes ( *pRtpSeq )++ of the RTX stream.
ResendConstruct ==
    /\ nack.pc = "protect"
    /\ rtxSeq' = [rtxSeq EXCEPT ![nack.s] = (@ + 1) % SeqMod]
    /\ Protect(nack.s, "rtx", rtxSeq[nack.s])
    /\ nack' = [nack EXCEPT !.pc = "send", !.key = txSession]
    /\ UNCHANGED <<sessionVars, txSession, senderMutex, bufferVars, rtpSeq, writer,
                   closer, produced, nacks, lastPayload>>

ResendConstructFails ==
    /\ nack.pc = "protect"
    /\ rtxSeq' = [rtxSeq EXCEPT ![nack.s] = (@ + 1) % SeqMod]
    /\ LeaveResend(FALSE)
    /\ UNCHANGED <<sessionVars, txSession, bufferVars, rtpSeq, writer, closer, produced,
                   nacks, lastPayload, lastProtected>>

ResendSend ==
    /\ nack.pc = "send"
    /\ \/ selected /\ LeaveResend(TRUE)
       \/ LeaveResend(FALSE)
    /\ UNCHANGED <<sessionVars, txSession, bufferVars, rtpSeq, rtxSeq, writer, closer,
                   produced, nacks, lastPayload, lastProtected>>

-----------------------------------------------------------------------------
(* PeerConnection_CloseSession, run by the listener or by the session task. *)

CloseSession(t) ==
    /\ closer[t] = "idle"
    /\ t = "listener" => nack.pc = "idle"
    /\ state \in {"ready", "closing"}
    /\ closes < MaxCloses
    /\ closes' = closes + 1
    /\ state' = "closing"
    /\ closer' = [closer EXCEPT ![t] = "destroy"]
    /\ UNCHANGED <<iceState, relay, selected, closedMsg, rtx, session, txSession, senderMutex,
                   bufferVars, rtpSeq, rtxSeq, writer, nack, produced, nacks,
                   lastPayload, lastProtected>>

\* Mutant: the sockets stay open.
Destroy_SocketsKept(t) ==
    /\ closer[t] = "destroy"
    /\ iceState # "closed"
    /\ iceState' = "closing"
    /\ selected' = selected
    /\ \/ /\ relay = "none"
          /\ closedMsg' = TRUE
          /\ closer' = [closer EXCEPT ![t] = "destroyed"]
       \/ /\ relay # "none"
          /\ UNCHANGED closedMsg
          /\ closer' = [closer EXCEPT ![t] = "deinit"]
    /\ UNCHANGED <<state, relay, rtx, session, closes, txSession, senderMutex, bufferVars, rtpSeq,
                   rtxSeq, writer, nack, produced, nacks, lastPayload, lastProtected>>

\* IceController_Destroy up to the ICE_CLOSED event: relay sockets stay open
\* until the TURN allocation is released, the others are closed at once.
Destroy(t) ==
    /\ closer[t] = "destroy"
    /\ iceState # "closed"
    /\ iceState' = "closing"
    /\ selected' = (selected /\ relay = "nominated")
    /\ \/ /\ relay = "none"
          /\ closedMsg' = TRUE
          /\ closer' = [closer EXCEPT ![t] = "destroyed"]
       \/ /\ relay # "none"
          /\ UNCHANGED closedMsg
          /\ closer' = [closer EXCEPT ![t] = "deinit"]
    /\ UNCHANGED <<state, relay, rtx, session, closes, txSession, senderMutex, bufferVars, rtpSeq,
                   rtxSeq, writer, nack, produced, nacks, lastPayload, lastProtected>>

\* ICE_CONTROLLER_RESULT_CONTEXT_ALREADY_CLOSED: CloseSession returns the error.
DestroyAlreadyClosed(t) ==
    /\ closer[t] = "destroy"
    /\ iceState = "closed"
    /\ closer' = [closer EXCEPT ![t] = "idle"]
    /\ UNCHANGED <<sessionVars, txSession, senderMutex, bufferVars, rtpSeq, rtxSeq,
                   writer, nack, produced, nacks, lastPayload, lastProtected>>

\* The state becomes CLOSED only after ICE_CLOSED was posted.
DestroyClosed(t) ==
    /\ closer[t] = "destroyed"
    /\ iceState' = "closed"
    /\ closer' = [closer EXCEPT ![t] = "deinit"]
    /\ UNCHANGED <<state, relay, selected, closedMsg, rtx, session, closes, txSession, senderMutex,
                   bufferVars, rtpSeq, rtxSeq, writer, nack, produced, nacks,
                   lastPayload, lastProtected>>

\* PeerConnectionSrtp_DeInit, under srtpSessionMutex.
DeInitSession(t) ==
    /\ closer[t] = "deinit"
    /\ txSession' = 0
    /\ closer' = [closer EXCEPT ![t] = SenderOrder[1]]
    /\ UNCHANGED <<sessionVars, senderMutex, bufferVars, rtpSeq, rtxSeq, writer, nack,
                   produced, nacks, lastPayload, lastProtected>>

NextSender(s) ==
    LET i == CHOOSE i \in 1 .. Len(SenderOrder) : SenderOrder[i] = s
    IN IF i = Len(SenderOrder) THEN "idle" ELSE SenderOrder[i + 1]

\* Mutant: the sender's mutex is not taken.
DeInitSender_NoMutex(t) ==
    /\ closer[t] \in Senders
    /\ RollingBufferFree(closer[t])
    /\ closer' = [closer EXCEPT ![t] = NextSender(closer[t])]
    /\ UNCHANGED <<sessionVars, txSession, senderMutex, rtpSeq, rtxSeq, writer, nack,
                   produced, nacks, lastPayload, lastProtected>>

\* PeerConnectionSrtp_DeInit, under the senderMutex of one sender.
DeInitSender(t) ==
    /\ closer[t] \in Senders
    /\ senderMutex[closer[t]] = "none"
    /\ RollingBufferFree(closer[t])
    /\ closer' = [closer EXCEPT ![t] = NextSender(closer[t])]
    /\ UNCHANGED <<sessionVars, txSession, senderMutex, rtpSeq, rtxSeq, writer, nack,
                   produced, nacks, lastPayload, lastProtected>>

\* The session task releases the TURN allocation: IceController_AddressClosing
\* finds every socket closed.
AddressClosing ==
    /\ closer["session"] = "idle"
    /\ iceState = "closing" /\ relay # "none"
    /\ iceState' = "closed" /\ selected' = FALSE /\ closedMsg' = TRUE
    /\ UNCHANGED <<state, relay, rtx, session, closes, txSession, senderMutex, bufferVars, rtpSeq,
                   rtxSeq, writer, nack, closer, produced, nacks, lastPayload,
                   lastProtected>>

\* The session task handles ICE_CLOSED.
OnClosePeerConnection ==
    /\ closer["session"] = "idle"
    /\ closedMsg
    /\ closedMsg' = FALSE
    /\ state' = "inited"
    /\ UNCHANGED <<iceState, relay, selected, rtx, session, closes, txSession,
                   senderMutex, bufferVars, rtpSeq, rtxSeq, writer, nack, closer, produced, nacks,
                   lastPayload, lastProtected>>

-----------------------------------------------------------------------------
(* A new connection with the same session object *)

\* PeerConnection_CreateOffer resets the RTP and RTX numbers and the RTX payload
\* types (SetDefaultPayloadTypes).
CreateOffer ==
    /\ state = "inited"
    /\ rtpSeq' = [s \in Senders |-> 0]
    /\ rtxSeq' = [s \in Senders |-> 0]
    /\ rtx' = {}
    /\ UNCHANGED <<state, iceState, relay, selected, closedMsg, session, closes, txSession,
                   senderMutex, bufferVars, writer, nack, closer, produced, nacks,
                   lastPayload, lastProtected>>

\* PeerConnection_SetRemoteDescription resets the RTX numbers, connectivity
\* checks nominate a pair; the listener then completes the DTLS handshake
\* and PeerConnectionSrtp_Init creates the SRTP session.
SrtpInitSession ==
    /\ state = "inited" /\ ~closedMsg
    /\ session < MaxSessions
    /\ nack.pc = "idle" /\ \A t \in Closers : closer[t] = "idle"
    /\ state' = "connecting" /\ iceState' = "open" /\ selected' = TRUE
    /\ relay' \in {"none", "another", "nominated"}
    /\ rtx' \in RtxChoices
    /\ session' = session + 1 /\ closes' = 0
    /\ txSession' = session + 1
    /\ rtxSeq' = [s \in Senders |-> 0]
    /\ closer' = [closer EXCEPT !["listener"] = "init"]
    /\ lastProtected' = [x \in DOMAIN lastProtected |-> NothingProtected]
    /\ UNCHANGED <<closedMsg, senderMutex, bufferVars, rtpSeq, writer, nack, produced,
                   nacks, lastPayload>>

\* PeerConnectionRollingBuffer_Create for some of the senders: it takes no
\* senderMutex.
RollingBufferCreate(made) ==
    /\ isInit' = [s \in Senders |-> isInit[s] \/ s \in made]
    /\ packetQueue' = [s \in Senders |-> IF s \in made THEN <<>> ELSE packetQueue[s]]
    /\ stored' = [s \in Senders |-> IF s \in made THEN 0 ELSE stored[s]]
    /\ UNCHANGED <<allocated, content>>

SrtpInitBuffers ==
    /\ closer["listener"] = "init"
    /\ RollingBufferCreate(Senders)
    /\ state' = "ready"
    /\ closer' = [closer EXCEPT !["listener"] = "idle"]
    /\ UNCHANGED <<iceState, relay, selected, closedMsg, rtx, session, closes, txSession, senderMutex,
                   rtpSeq, rtxSeq, writer, nack, produced, nacks, lastPayload,
                   lastProtected>>

\* No memory for the buffer of a sender: OnDtlsHandshakeComplete closes.
SrtpInitFails ==
    /\ closer["listener"] = "init"
    /\ \E i \in 0 .. Len(SenderOrder) - 1 :
          RollingBufferCreate({SenderOrder[j] : j \in 1 .. i})
    /\ state' = "closing"
    /\ closer' = [closer EXCEPT !["listener"] = "destroy"]
    /\ UNCHANGED <<iceState, relay, selected, closedMsg, rtx, session, closes, txSession, senderMutex,
                   rtpSeq, rtxSeq, writer, nack, produced, nacks, lastPayload,
                   lastProtected>>

-----------------------------------------------------------------------------
WriterStep(s) ==
    \/ WriteFrame(s) \/ TakeSenderMutex(s) \/ GetBuffer(s) \/ GetPacket(s)
    \/ NoMorePackets(s) \/ ConstructSrtpPacket(s) \/ ConstructFails(s)
    \/ StorePacket(s) \/ SendPacket(s) \/ SendFails(s)

ResendStep ==
    \/ ResendLock \/ ResendNotFound \/ ResendFound \/ ResendConstruct
    \/ ResendConstructFails \/ ResendSend

CloseStep(t) ==
    \/ Destroy(t) \/ DestroyAlreadyClosed(t) \/ DestroyClosed(t)
    \/ DeInitSession(t) \/ DeInitSender(t)

Next ==
    \/ \E s \in Senders : WriterStep(s)
    \/ \E s \in Senders, list \in NackLists : OnRtcpNackEvent(s, list)
    \/ ResendStep
    \/ \E t \in Closers : CloseSession(t) \/ CloseStep(t)
    \/ AddressClosing \/ OnClosePeerConnection
    \/ CreateOffer \/ SrtpInitSession \/ SrtpInitBuffers \/ SrtpInitFails

\* The FreeRTOS scheduler runs every ready task and every mutex holder in the
\* end; frames, NACKs and reasons to close need not come.
Fairness ==
    /\ \A s \in Senders : WF_vars(WriterStep(s) /\ writer[s].pc # "idle")
    /\ WF_vars(ResendStep)
    /\ \A t \in Closers : WF_vars(CloseStep(t))
    /\ WF_vars(AddressClosing)
    /\ WF_vars(OnClosePeerConnection)

Spec == Init /\ [][Next]_vars /\ Fairness

-----------------------------------------------------------------------------
(* Properties *)

\* Every variable has its type.
TypeOK ==
    /\ state \in {"inited", "connecting", "ready", "closing"}
    /\ iceState \in {"open", "closing", "closed"}
    /\ relay \in {"none", "another", "nominated"}
    /\ selected \in BOOLEAN /\ closedMsg \in BOOLEAN /\ rtx \subseteq Senders
    /\ session \in 0 .. MaxSessions /\ txSession \in 0 .. MaxSessions
    /\ senderMutex \in [Senders -> Senders \cup {"listener", "none"}]
    /\ isInit \in [Senders -> BOOLEAN]
    /\ packetQueue \in [Senders -> Seq([seq : SeqNums, buf : Buffers])]
    /\ allocated \in [Senders -> SUBSET Buffers]
    /\ content \in [Senders -> [Buffers ->
            [hdr : SeqNums, payload : 0 .. MaxPackets, key : 0 .. MaxSessions]]]
    /\ rtpSeq \in [Senders -> SeqNums] /\ rtxSeq \in [Senders -> SeqNums]
    /\ writer \in [Senders ->
            [pc : {"idle", "lock", "alloc", "packet", "protect", "store", "send"},
             buf : Buffers \cup {0}, key : 0 .. MaxSessions]]
    /\ nack \in [pc : {"idle", "lock", "search", "protect", "send"},
                 s : Senders \cup {"none"}, list : Seq(SeqNums),
                 buf : Buffers \cup {0}, key : 0 .. MaxSessions]
    /\ closer \in [Closers -> Senders \cup
            {"idle", "init", "destroy", "destroyed", "deinit"}]
    /\ produced \in [Senders -> 0 .. MaxPackets]
    /\ stored \in [Senders -> 0 .. MaxPackets]
    /\ nacks \in 0 .. MaxNacks /\ closes \in 0 .. MaxCloses
    /\ lastPayload \in [Senders -> [SeqNums -> 0 .. MaxPackets]]
    /\ lastProtected \in [Senders \X {"rtp", "rtx"} -> [seq : SeqNums, n : Nat]]

Queued(s) == {packetQueue[s][i].buf : i \in 1 .. Len(packetQueue[s])}
InHand(s) == {writer[s].buf} \ ({0} \cup Queued(s))

\* When the session object is back in INITED and no task is inside CloseSession,
\* DeInit has run: no SRTP session, no rolling buffer and no packet buffer is
\* left, whoever closed and however often.
ClosedReleasesAll ==
    (state = "inited" /\ \A t \in Closers : closer[t] = "idle") =>
        /\ txSession = 0
        /\ \A s \in Senders : ~isInit[s] /\ allocated[s] = {}

\* The buffers of a sender that are allocated are exactly those in its rolling
\* buffer and the one its media task is filling: writing, retransmitting,
\* closing (from one task or two), failing and reconnecting lose no buffer
\* (DiscardRtpSequenceBuffer frees nothing once isInit is 0), free none twice
\* and queue none twice.  A closed session has none.
BuffersAccounted ==
    /\ \A s \in Senders :
        /\ allocated[s] = Queued(s) \cup InHand(s)
        /\ Cardinality(Queued(s)) = Len(packetQueue[s])
    /\ ClosedReleasesAll

\* While the session is ready a rolling buffer holds the most recent packets,
\* as many as fit, under consecutive numbers that end just before the next one
\* to be used.
RollingBufferIsSuffix ==
    state = "ready" =>
        \A s \in Senders :
            LET q == packetQueue[s]
            IN /\ Len(q) = IF stored[s] < Capacity THEN stored[s] ELSE Capacity
               /\ \A i \in 1 .. Len(q) :
                      q[i].seq = (rtpSeq[s] - (Len(q) - i + 1)) % SeqMod

\* What ResendSrtpPacket is about to send is a live buffer, the packet that was
\* stored under the requested number, and still the last one sent under that
\* number: neither eviction nor wrap-around lets a NACK pick another packet, and
\* the recent packets are there to be picked.
ResendIsOriginal ==
    /\ RollingBufferIsSuffix
    /\ nack.pc \in {"protect", "send"} =>
        LET n == Head(nack.list)
            p == content[nack.s][nack.buf]
        IN /\ nack.buf \in allocated[nack.s]
           /\ p.hdr = n
           /\ p.payload = lastPayload[nack.s][n]

\* Whatever a media task or the NACK handler sends over a connection without a
\* relay is the output of an SRTP session, although ConstructSrtpPacket succeeds
\* without one: CloseSession closes the sockets before it removes the session.
SentPacketsAreSrtp ==
    (selected /\ relay # "nominated") =>
        /\ \A s \in Senders : writer[s].pc = "send" => writer[s].key # 0
        /\ nack.pc = "send" => nack.key # 0

\* A packet that a media task or the NACK handler hands to the ICE controller
\* was not protected for an earlier connection of this session object: a task
\* that outlives CloseSession sends nothing of the old connection on the new.
NoCrossSession ==
    /\ \A s \in Senders :
          writer[s].pc = "send" => writer[s].key \in {0, session}
    /\ nack.pc = "send" => nack.key \in {0, session}
    /\ SentPacketsAreSrtp

\* As long as the connection is open no number of an SRTP stream is protected
\* again or out of turn, whatever fails in between: the number of the packet is
\* ahead of the last one protected for the stream.
NumbersAdvance ==
    [][\A x \in Senders \X {"rtp", "rtx"} :
          (/\ selected
           /\ lastProtected'[x].n > lastProtected[x].n
           /\ lastProtected[x].n > 0) =>
              (lastProtected'[x].seq - lastProtected[x].seq) % SeqMod
                  \in 1 .. SeqMod \div 2]_vars

\* A close that has begun ends with the session back in INITED, although media
\* tasks and the NACK handler compete for the senderMutex: WriteFrame refuses
\* new frames and HandleSrtcpPacket new NACKs, so the closing task gets it.
CloseCompletes ==
    (state = "closing") ~> (state = "inited" /\ \A t \in Closers : closer[t] = "idle")

\* A media task that entered WriteFrame returns from it.
WriteReturns ==
    \A s \in Senders : (writer[s].pc # "idle") ~> (writer[s].pc = "idle")

\* The tasks that share the mutexes of the senders all get on (PeerConnection_WriteFrame,
\* PeerConnection_CloseSession).
TasksGetOn == CloseCompletes /\ WriteReturns
=============================================================================

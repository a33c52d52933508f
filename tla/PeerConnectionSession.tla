------------------------ MODULE PeerConnectionSession ------------------------
(***************************************************************************)
(* The life of one peer connection session: it is started by the task that *)
(* handles signaling messages, finds a path with ICE, secures it with      *)
(* DTLS, streams, is closed and is used again for the next viewer.         *)
(*                                                                         *)
(* Four tasks share the session without a lock:                            *)
(*   "app"      the signaling task: offers and remote candidates           *)
(*              (app_common.c, PeerConnection_Start,                       *)
(*              PeerConnection_SetRemoteDescription)                       *)
(*   "session"  PeerConnection_SessionTask: waits at the start-up barrier, *)
(*              then handles the messages of the request queue             *)
(*   "listener" IceControllerSocketListener_Task: what the sockets receive *)
(*   "daemon"   the FreeRTOS timer task: the ICE timer, the timer that     *)
(*              closes a session without SDP, the RTCP report timers       *)
(* CloseSession may run in "session" and in "listener".  A step is what a  *)
(* task does between two accesses to state that another task may change.   *)
(***************************************************************************)
EXTENDS Naturals, Sequences

CONSTANTS
    Timings,        \* the hard timings that may happen, see TimingsAssumption
    WithRelay,      \* a TURN server is configured
    MaxOffers,      \* bound: SDP offers handled
    MaxCandidates,  \* bound: remote candidates handled
    QueueCap        \* bound of the request queue (PEER_CONNECTION_MAX_QUEUE_MSG_NUM)

(***************************************************************************)
(* "quickOffer":   a message for a session that has just been closed comes *)
(*                 while its ICE timer is still armed or a task is still   *)
(*                 finishing the close (otherwise: once all that is over)  *)
(* "raceDeadline": a deadline or the SDP timer expires while packets and   *)
(*                 messages still arrive (otherwise: the peer is silent    *)
(*                 from then on)                                           *)
(* "slowGather":   packets arrive while the relay candidate is being made  *)
(* "dtlsErrors":   the handshake function of mbedtls returns an error      *)
(***************************************************************************)
ASSUME TimingsAssumption ==
    Timings \subseteq {"quickOffer", "raceDeadline", "slowGather", "dtlsErrors"}
ASSUME BoundsAssumption ==
    /\ WithRelay \in BOOLEAN
    /\ MaxOffers \in Nat /\ MaxCandidates \in Nat /\ QueueCap \in Nat \ {0}

VARIABLES
    state,       \* pSession->state
    trx,         \* the two transceivers are in pTransceivers
    queue,       \* requestQueue: the types of the requests
    barrier,     \* the bit of startupBarrier
    ice,         \* iceControllerContext.state
    addLocal,    \* addLocalCandidates
    sockets,     \* the open socket contexts
    nominated,   \* pNominatedSocketContext
    turnClosing, \* the relay candidate waits for the end of its TURN session
    polling,     \* executeSocketListener
    iceTimer,    \* ICE timerHandler is armed
    closeTimer,  \* closeSessionTimer is armed
    reportTimer, \* the RTCP sender report timers are armed
    dtls,        \* the DTLS context of the session
    srtp,        \* the SRTP sessions and packet buffers exist
    viewers,     \* numReadyPeer of the media source
    expired,     \* the deadlines that have passed
    silent,      \* no packet of the peer arrives: not yet, or not any more
    pc,          \* where each task is
    after,       \* where CloseSession returns to
    budget       \* offers and candidates still to come

iceVars == <<ice, addLocal, sockets, nominated, turnClosing, polling>>
timerVars == <<closeTimer, reportTimer>>
peerVars == <<dtls, srtp, viewers>>
envVars == <<expired, silent, budget>>
vars == <<state, trx, queue, barrier, iceVars, iceTimer, timerVars, peerVars, envVars, pc, after>>

States == {"INITED", "START", "FIND", "P2P", "READY", "CLOSING"}
IceStates == {"NEW", "NONE", "PROCESS", "READY", "CLOSING", "CLOSED"}
Requests == {"ADD", "PROCESS", "PERIOD", "ICE_CLOSING", "ICE_CLOSED", "REPORT",
             "CLOSE", "CLOSE_NO_ICE"}
CloseSteps == {"close", "destroy", "freeSockets", "destroyed", "deinit", "resetTimers"}
Closers == {"session", "listener"}
Steps ==
    [session  : Requests \cup CloseSteps
                \cup {"barrier", "recv", "relay", "processed", "retry", "onClose", "check"},
     listener : CloseSteps
                \cup {"idle", "nominated", "handshake", "p2p", "complete", "setTimers",
                      "ready", "releaseOthers", "disconnect"},
     app      : {"idle", "offerEmpty", "offerRecv", "offerStart", "offer", "iceStart", "kick",
                 "find", "candidateEmpty", "candidateRecv", "candidateStart", "candidate"},
     daemon   : {"idle", "empty", "recv", "notify"}]

Init ==
    /\ state = "INITED" /\ trx = FALSE /\ queue = <<>> /\ barrier = FALSE
    /\ ice = "NEW" /\ addLocal = FALSE /\ sockets = {} /\ nominated = "none"
    /\ turnClosing = FALSE /\ polling = FALSE
    /\ iceTimer = FALSE /\ closeTimer = FALSE /\ reportTimer = FALSE
    /\ dtls = "none" /\ srtp = FALSE /\ viewers = 0
    /\ expired = {} /\ silent = TRUE
    /\ pc = [session |-> "barrier", listener |-> "idle", app |-> "idle", daemon |-> "idle"]
    /\ after = [t \in Closers |-> "idle"]
    /\ budget = [offers |-> MaxOffers, candidates |-> MaxCandidates]

Goto(task, step) == pc' = [pc EXCEPT ![task] = step]

------------------------------------------------------------------------------
(* The request queue and the ICE timer. *)

\* Mutant: the queue is not asked whether it is full.
Post_Unbounded(q, m) == Append(q, m)

\* SendPeerConnectionEvent: a request that finds the queue full is dropped.
Post(q, m) == IF Len(q) < QueueCap THEN Append(q, m) ELSE q

\* OnTimerExpire of the ICE controller: a request that depends on the ICE state.
IceRequest ==
    CASE ice = "PROCESS" -> "PROCESS"
      [] ice = "READY"   -> "PERIOD"
      [] ice = "CLOSING" -> "ICE_CLOSING"
      [] ice = "CLOSED"  -> "ICE_CLOSED"
      [] OTHER           -> "none"

\* The callback, run by the timer task and by IceController_Start: the timer is
\* armed again only when the request could not be queued.
OnTimerExpire(armed) ==
    IF IceRequest = "none"
    THEN iceTimer' = armed /\ UNCHANGED queue
    ELSE /\ queue' = Post(queue, IceRequest)
         /\ iceTimer' = (armed \/ Len(queue) >= QueueCap)

------------------------------------------------------------------------------
(* Closing.  PeerConnection_CloseSession runs in the session task and in    *)
(* the listener.                                                            *)

\* A task calls CloseSession and will continue at step next.
CallClose(t, next) == Goto(t, "close") /\ after' = [after EXCEPT ![t] = next]

\* CLOSING, and a peer that was streaming is reported as gone.
Close(t) ==
    /\ pc[t] = "close"
    /\ state' = "CLOSING"
    /\ viewers' = IF state = "READY" /\ trx THEN viewers - 1 ELSE viewers
    /\ Goto(t, "destroy")
    /\ UNCHANGED <<trx, queue, barrier, iceVars, iceTimer, timerVars, dtls, srtp, envVars, after>>

\* IceController_Destroy, the switch on the state.  A controller that is closed
\* already is an error, which ends CloseSession.
Destroy(t) ==
    /\ pc[t] = "destroy"
    /\ ice' = CASE ice = "NEW" -> "NONE"
                [] ice \in {"PROCESS", "READY", "CLOSING"} -> "CLOSING"
                [] OTHER -> ice
    /\ Goto(t, IF ice \in {"NONE", "CLOSED"} THEN after[t] ELSE "freeSockets")
    /\ UNCHANGED <<state, trx, queue, barrier, addLocal, sockets, nominated, turnClosing, polling,
                   iceTimer, timerVars, peerVars, envVars, after>>

\* The sockets are closed and ICE_CLOSED is requested; a relay socket stays open
\* until its TURN session has ended, which the ICE timer follows.
FreeSockets(t) ==
    /\ pc[t] = "freeSockets"
    /\ IF "relay" \in sockets
       THEN /\ sockets' = {"relay"} /\ turnClosing' = TRUE /\ iceTimer' = TRUE
            /\ Goto(t, "deinit")
            /\ UNCHANGED <<polling, queue>>
       ELSE /\ sockets' = {} /\ polling' = FALSE /\ queue' = Post(queue, "ICE_CLOSED")
            /\ Goto(t, "destroyed")
            /\ UNCHANGED <<turnClosing, iceTimer>>
    /\ UNCHANGED <<state, trx, barrier, ice, addLocal, nominated, timerVars, peerVars, envVars, after>>

Destroyed(t) ==
    /\ pc[t] = "destroyed"
    /\ ice' = "CLOSED"
    /\ Goto(t, "deinit")
    /\ UNCHANGED <<state, trx, queue, barrier, addLocal, sockets, nominated, turnClosing, polling,
                   iceTimer, timerVars, peerVars, envVars, after>>

\* PeerConnectionSCTP_DeallocateSCTP and PeerConnectionSrtp_DeInit (SrtpSender).
DeInit(t) ==
    /\ pc[t] = "deinit"
    /\ srtp' = FALSE
    /\ Goto(t, "resetTimers")
    /\ UNCHANGED <<state, trx, queue, barrier, iceVars, iceTimer, timerVars, dtls, viewers,
                   envVars, after>>

\* The report timers and the SDP timer are stopped; the ICE timer stays as it is.
PeerConnection_ResetTimer(t) ==
    /\ pc[t] = "resetTimers"
    /\ reportTimer' = FALSE /\ closeTimer' = FALSE
    /\ Goto(t, after[t])
    /\ UNCHANGED <<state, trx, queue, barrier, iceVars, iceTimer, peerVars, envVars, after>>

CloseSession(t) ==
    \/ Close(t) \/ Destroy(t) \/ FreeSockets(t) \/ Destroyed(t)
    \/ DeInit(t) \/ PeerConnection_ResetTimer(t)

\* OnClosePeerConnection: the session may be used again.
OnClosePeerConnection == trx' = FALSE /\ state' = "INITED"

------------------------------------------------------------------------------
(* The session task. *)

SessionTask ==
    /\ pc.session = "barrier" /\ barrier
    /\ barrier' = FALSE
    /\ Goto("session", "recv")
    /\ UNCHANGED <<state, trx, queue, iceVars, iceTimer, timerVars, peerVars, envVars, after>>

Recv ==
    /\ pc.session = "recv" /\ queue # <<>>
    /\ queue' = Tail(queue)
    /\ Goto("session", Head(queue))
    /\ UNCHANGED <<state, trx, barrier, iceVars, iceTimer, timerVars, peerVars, envVars, after>>

\* A remote candidate for the ICE agent, a sender report: nothing modelled here changes.
HandleAddOrReport ==
    /\ pc.session \in {"ADD", "REPORT"}
    /\ Goto("session", "check")
    /\ UNCHANGED <<state, trx, queue, barrier, iceVars, iceTimer, timerVars, peerVars, envVars, after>>

\* IceController_ProcessIceCandidatesAndPairs: the local candidates are made once.
AddLocalCandidates ==
    /\ pc.session = "PROCESS"
    /\ addLocal' = FALSE
    /\ sockets' = IF ~addLocal THEN sockets
                  ELSE sockets \cup {"host"}
    /\ Goto("session", IF addLocal /\ WithRelay THEN "relay" ELSE "processed")
    /\ UNCHANGED <<state, trx, queue, barrier, ice, nominated, turnClosing, polling, iceTimer,
                   timerVars, peerVars, envVars, after>>

AddRelayCandidates ==
    /\ pc.session = "relay"
    /\ sockets' = sockets \cup {"relay"}
    /\ Goto("session", "processed")
    /\ UNCHANGED <<state, trx, queue, barrier, ice, addLocal, nominated, turnClosing, polling,
                   iceTimer, timerVars, peerVars, envVars, after>>

\* No pair in time: the session is to be closed.  The timer is armed either way.
CheckConnectivity ==
    /\ pc.session = "processed"
    /\ queue' = IF "connect" \in expired THEN Post(queue, "CLOSE") ELSE queue
    /\ iceTimer' = TRUE
    /\ Goto("session", "check")
    /\ UNCHANGED <<state, trx, barrier, iceVars, timerVars, peerVars, envVars, after>>

\* Without a nominated pair the check is an error and the timer is not armed again.
PeriodConnectionCheck ==
    /\ pc.session = "PERIOD"
    /\ iceTimer' = (iceTimer \/ nominated # "none")
    /\ Goto("session", "retry")
    /\ UNCHANGED <<state, trx, queue, barrier, iceVars, timerVars, peerVars, envVars, after>>

\* ExecuteDtlsHandshake in task t, which continues at step next.  Packets are
\* processed by the listener alone, so the call never completes the handshake; the
\* deadline is looked at only when it did not fail, and a context that failed
\* once fails every time.
ExecuteDtlsHandshake(t, next) ==
    \/ /\ dtls \in {"handshaking", "ready"}
       /\ IF "handshake" \in expired
          THEN CallClose(t, next)
          ELSE Goto(t, next) /\ UNCHANGED after
       /\ UNCHANGED dtls
    \/ /\ \/ dtls \in {"none", "broken"}
          \/ dtls = "handshaking" /\ "dtlsErrors" \in Timings
       /\ dtls' = IF dtls = "handshaking" THEN "broken" ELSE dtls
       /\ Goto(t, next) /\ UNCHANGED after

RetryHandshake ==
    /\ pc.session = "retry"
    /\ IF state = "P2P"
       THEN ExecuteDtlsHandshake("session", "check")
       ELSE Goto("session", "check") /\ UNCHANGED <<dtls, after>>
    /\ UNCHANGED <<state, trx, queue, barrier, iceVars, iceTimer, timerVars, srtp, viewers, envVars>>

\* Mutant: the TURN session is not waited for.
AddressClosing_NoWait ==
    /\ pc.session = "ICE_CLOSING"
    /\ polling' = FALSE /\ queue' = Post(queue, "ICE_CLOSED") /\ ice' = "CLOSED"
    /\ Goto("session", "check")
    /\ UNCHANGED <<state, trx, barrier, addLocal, sockets, nominated, turnClosing, iceTimer,
                   timerVars, peerVars, envVars, after>>

\* IceController_AddressClosing: once the last socket is gone the session may end.
AddressClosing ==
    /\ pc.session = "ICE_CLOSING"
    /\ IF sockets # {}
       THEN iceTimer' = TRUE /\ UNCHANGED <<polling, queue, ice>>
       ELSE /\ polling' = FALSE /\ queue' = Post(queue, "ICE_CLOSED") /\ ice' = "CLOSED"
            /\ UNCHANGED iceTimer
    /\ Goto("session", "check")
    /\ UNCHANGED <<state, trx, barrier, addLocal, sockets, nominated, turnClosing, timerVars,
                   peerVars, envVars, after>>

HandleIceClosed ==
    /\ pc.session = "ICE_CLOSED"
    /\ OnClosePeerConnection
    /\ Goto("session", "barrier")
    /\ UNCHANGED <<queue, barrier, iceVars, iceTimer, timerVars, peerVars, envVars, after>>

HandleClose ==
    /\ pc.session \in {"CLOSE", "CLOSE_NO_ICE"}
    /\ CallClose("session", IF pc.session = "CLOSE" THEN "check" ELSE "onClose")
    /\ UNCHANGED <<state, trx, queue, barrier, iceVars, iceTimer, timerVars, peerVars, envVars>>

HandleCloseNoIceFlow ==
    /\ pc.session = "onClose"
    /\ OnClosePeerConnection
    /\ Goto("session", "check")
    /\ UNCHANGED <<queue, barrier, iceVars, iceTimer, timerVars, peerVars, envVars, after>>

\* The end of an iteration: a connection without media for too long is closed.
CheckInactivity ==
    /\ pc.session = "check"
    /\ IF state = "READY" /\ "idle" \in expired
       THEN CallClose("session", "recv")
       ELSE Goto("session", "recv") /\ UNCHANGED after
    /\ UNCHANGED <<state, trx, queue, barrier, iceVars, iceTimer, timerVars, peerVars, envVars>>

Session ==
    \/ SessionTask \/ Recv \/ HandleAddOrReport \/ AddLocalCandidates \/ AddRelayCandidates
    \/ CheckConnectivity \/ PeriodConnectionCheck \/ RetryHandshake \/ AddressClosing
    \/ HandleIceClosed \/ HandleClose \/ HandleCloseNoIceFlow \/ CheckInactivity
    \/ CloseSession("session")

------------------------------------------------------------------------------
(* The listener.  A packet can arrive while the listener polls an open socket. *)

CanReceive ==
    /\ pc.listener = "idle" /\ polling /\ sockets # {} /\ ~silent
    /\ "slowGather" \in Timings \/ pc.session # "relay"

\* UpdateNominatedSocketContext: the first pair is nominated whatever the ICE state is.
Nominate ==
    /\ CanReceive /\ nominated = "none"
    /\ nominated' \in sockets
    /\ Goto("listener", "nominated")
    /\ UNCHANGED <<state, trx, queue, barrier, ice, addLocal, sockets, turnClosing, polling,
                   iceTimer, timerVars, peerVars, envVars, after>>

Nominated ==
    /\ pc.listener = "nominated"
    /\ ice' = "READY" /\ iceTimer' = TRUE
    /\ Goto("listener", "handshake")
    /\ UNCHANGED <<state, trx, queue, barrier, addLocal, sockets, nominated, turnClosing, polling,
                   timerVars, peerVars, envVars, after>>

\* The P2P_CONNECTION_FOUND event: a first handshake call, then the new state.
StartHandshake ==
    /\ pc.listener = "handshake"
    /\ ExecuteDtlsHandshake("listener", "p2p")
    /\ UNCHANGED <<state, trx, queue, barrier, iceVars, iceTimer, timerVars, srtp, viewers, envVars>>

SetP2P ==
    /\ pc.listener = "p2p"
    /\ state' = "P2P"
    /\ Goto("listener", "idle")
    /\ UNCHANGED <<trx, queue, barrier, iceVars, iceTimer, timerVars, peerVars, envVars, after>>

\* ProcessDtlsPacket: a packet that completes the handshake ...
RxHandshakeDone ==
    /\ CanReceive /\ nominated # "none" /\ dtls = "handshaking"
    /\ dtls' = "ready"
    /\ Goto("listener", "complete")
    /\ UNCHANGED <<state, trx, queue, barrier, iceVars, iceTimer, timerVars, srtp, viewers,
                   envVars, after>>

\* ... or a packet that ends the connection: an alert, or one that cannot be processed.
RxTermination ==
    /\ CanReceive /\ nominated # "none"
    /\ Goto("listener", "disconnect")
    /\ UNCHANGED <<state, trx, queue, barrier, iceVars, iceTimer, timerVars, peerVars, envVars, after>>

\* HandleDtlsTermination: DTLS_Disconnect frees the context, then the session is closed.
Disconnect ==
    /\ pc.listener = "disconnect"
    /\ dtls' = "none"
    /\ CallClose("listener", "idle")
    /\ UNCHANGED <<state, trx, queue, barrier, iceVars, iceTimer, timerVars, srtp, viewers, envVars>>

\* Mutant: a failure of PeerConnectionSrtp_Init is only logged.
HandshakeComplete_FailureIgnored ==
    /\ pc.listener = "complete"
    /\ srtp' \in BOOLEAN
    /\ Goto("listener", "setTimers")
    /\ UNCHANGED <<state, trx, queue, barrier, iceVars, iceTimer, timerVars, dtls, viewers, envVars, after>>

\* OnDtlsHandshakeComplete: fingerprint, keys, PeerConnectionSrtp_Init, SCTP; a failure
\* closes, with the SRTP sessions made or not.
HandshakeComplete ==
    /\ pc.listener = "complete"
    /\ \/ srtp' = TRUE /\ Goto("listener", "setTimers") /\ UNCHANGED after
       \/ srtp' \in {srtp, TRUE} /\ CallClose("listener", "idle")
    /\ UNCHANGED <<state, trx, queue, barrier, iceVars, iceTimer, timerVars, dtls, viewers, envVars>>

\* PeerConnection_SetTimer reads the track kind of both transceivers.
PeerConnection_SetTimer ==
    /\ pc.listener = "setTimers"
    /\ reportTimer' = TRUE
    /\ Goto("listener", "ready")
    /\ UNCHANGED <<state, trx, queue, barrier, iceVars, iceTimer, closeTimer, peerVars, envVars, after>>

ConnectionReady ==
    /\ pc.listener = "ready"
    /\ state' = "READY"
    /\ expired' = expired \ {"idle"}
    /\ viewers' = IF trx THEN viewers + 1 ELSE viewers
    /\ Goto("listener", "releaseOthers")
    /\ UNCHANGED <<trx, queue, barrier, iceVars, iceTimer, timerVars, dtls, srtp, silent, budget, after>>

\* ReleaseOtherSockets: an unused relay candidate keeps its socket until TURN has ended.
ReleaseOtherSockets ==
    /\ pc.listener = "releaseOthers"
    /\ IF nominated = "none"
       THEN UNCHANGED <<sockets, turnClosing>>
       ELSE /\ sockets' = sockets \cap {nominated, "relay"}
            /\ turnClosing' = (turnClosing \/ (nominated # "relay" /\ "relay" \in sockets))
    /\ Goto("listener", "idle")
    /\ UNCHANGED <<state, trx, queue, barrier, ice, addLocal, nominated, polling, iceTimer,
                   timerVars, peerVars, envVars, after>>

\* RTP and RTCP packets that are decrypted keep the connection alive.
RxMedia ==
    /\ CanReceive /\ nominated # "none" /\ srtp
    /\ expired' = expired \ {"idle"}
    /\ UNCHANGED <<state, trx, queue, barrier, iceVars, iceTimer, timerVars, peerVars, silent,
                   budget, pc, after>>

\* The TURN server confirms the end of the session of the relay candidate.
RxTurnTerminated ==
    /\ pc.listener = "idle" /\ polling /\ "relay" \in sockets /\ turnClosing
    /\ sockets' = sockets \ {"relay"}
    /\ UNCHANGED <<state, trx, queue, barrier, ice, addLocal, nominated, turnClosing, polling,
                   iceTimer, timerVars, peerVars, envVars, pc, after>>

\* A read error closes the socket.
RxError ==
    /\ CanReceive
    /\ \E s \in sockets : sockets' = sockets \ {s}
    /\ UNCHANGED <<state, trx, queue, barrier, ice, addLocal, nominated, turnClosing, polling,
                   iceTimer, timerVars, peerVars, envVars, pc, after>>

\* What the listener does about a packet it has received.
ListenerRuns ==
    \/ Nominated \/ StartHandshake \/ SetP2P \/ Disconnect \/ HandshakeComplete
    \/ PeerConnection_SetTimer \/ ConnectionReady \/ ReleaseOtherSockets
    \/ CloseSession("listener")

Listener ==
    \/ Nominate \/ RxHandshakeDone \/ RxTermination \/ RxMedia \/ RxTurnTerminated \/ RxError
    \/ ListenerRuns

------------------------------------------------------------------------------
(* The signaling task. *)

\* The session task waits and nothing has woken it.
SessionWaits ==
    \/ pc.session = "barrier" /\ ~barrier
    \/ pc.session = "recv" /\ queue = <<>>

\* No task is in the middle of something and no request waits for the session task.
Settled ==
    /\ pc.listener = "idle" /\ pc.daemon = "idle" /\ SessionWaits
    /\ (state = "INITED" => ~iceTimer)

\* A remote candidate does not come just while the SDP timer is handled.
InTime == "raceDeadline" \in Timings \/ pc.daemon = "idle"

\* AppCommon_GetPeerConnectionSession: a session that is INITED gets its
\* transceivers and is started, one that runs is used as it is.
GetSession(message, counter) ==
    /\ pc.app = "idle" /\ budget[counter] > 0
    /\ Settled \/ (message = "candidate" /\ state # "INITED" /\ InTime)
               \/ ("quickOffer" \in Timings /\ state \in {"INITED", "START"})
    /\ message = "offer" => state \in {"INITED", "START"}
    /\ budget' = [budget EXCEPT ![counter] = @ - 1]
    /\ trx' = (trx \/ state = "INITED")
    /\ Goto("app", IF state # "INITED" THEN message
                   ELSE IF message = "offer" THEN "offerEmpty" ELSE "candidateEmpty")
    /\ UNCHANGED <<state, queue, barrier, iceVars, iceTimer, timerVars, peerVars, expired, silent, after>>

\* Mutant: what an earlier connection has left in the queue stays there.
EmptyMessageQueue_Skipped(t, check, recv, next) ==
    pc[t] = check /\ Goto(t, next) /\ UNCHANGED queue

\* EmptyMessageQueue in task t: MessageQueue_IsEmpty, then a Recv that waits for ever.
EmptyMessageQueue(t, check, recv, next) ==
    \/ /\ pc[t] = check
       /\ Goto(t, IF queue = <<>> THEN next ELSE recv)
       /\ UNCHANGED queue
    \/ /\ pc[t] = recv /\ queue # <<>>
       /\ queue' = Tail(queue)
       /\ Goto(t, check)

AppEmptiesQueue ==
    /\ \/ EmptyMessageQueue("app", "offerEmpty", "offerRecv", "offerStart")
       \/ EmptyMessageQueue("app", "candidateEmpty", "candidateRecv", "candidateStart")
    /\ UNCHANGED <<state, trx, barrier, iceVars, iceTimer, timerVars, peerVars, envVars, after>>

PeerConnection_Start ==
    /\ pc.app \in {"offerStart", "candidateStart"}
    /\ state' = "START"
    /\ Goto("app", IF pc.app = "offerStart" THEN "offer" ELSE "candidate")
    /\ UNCHANGED <<trx, queue, barrier, iceVars, iceTimer, timerVars, peerVars, envVars, after>>

\* PeerConnection_SetRemoteDescription up to InitDtlsSession; an SDP that is not
\* accepted leaves the session as it is.
SetRemoteDescription ==
    /\ pc.app = "offer"
    /\ \/ /\ dtls' = "handshaking" /\ expired' = expired \ {"handshake"}
          /\ Goto("app", "iceStart")
       \/ UNCHANGED <<dtls, expired>> /\ Goto("app", "idle")
    /\ UNCHANGED <<state, trx, queue, barrier, iceVars, iceTimer, timerVars, srtp, viewers, silent,
                   budget, after>>

IceController_Start ==
    /\ pc.app = "iceStart"
    /\ sockets' = {} /\ nominated' = "none" /\ turnClosing' = FALSE
    /\ ice' = "PROCESS" /\ addLocal' = TRUE /\ polling' = TRUE
    /\ expired' = expired \ {"connect"} /\ silent' = TRUE
    /\ Goto("app", "kick")
    /\ UNCHANGED <<state, trx, queue, barrier, iceTimer, timerVars, peerVars, budget, after>>

IceController_StartKick ==
    /\ pc.app = "kick"
    /\ OnTimerExpire(iceTimer)
    /\ Goto("app", "find")
    /\ UNCHANGED <<state, trx, barrier, iceVars, timerVars, peerVars, envVars, after>>

\* The answer is sent after this step: only now can the peer find a path.
FindConnection ==
    /\ pc.app = "find"
    /\ state' = "FIND" /\ barrier' = TRUE /\ silent' = FALSE
    /\ Goto("app", "idle")
    /\ UNCHANGED <<trx, queue, iceVars, iceTimer, timerVars, peerVars, expired, budget, after>>

\* PeerConnection_AddRemoteCandidate: the first one of a session that waits for
\* its SDP arms the timer that closes it.
AddRemoteCandidate ==
    /\ pc.app = "candidate"
    /\ closeTimer' = (closeTimer \/ state = "START")
    /\ queue' = Post(queue, "ADD")
    /\ Goto("app", "idle")
    /\ UNCHANGED <<state, trx, barrier, iceVars, iceTimer, reportTimer, peerVars, envVars, after>>

AppRuns ==
    \/ AppEmptiesQueue \/ PeerConnection_Start \/ SetRemoteDescription \/ IceController_Start
    \/ IceController_StartKick \/ FindConnection \/ AddRemoteCandidate

App == GetSession("offer", "offers") \/ GetSession("candidate", "candidates") \/ AppRuns

------------------------------------------------------------------------------
(* Timers and deadlines. *)

IceTimerExpires ==
    /\ pc.daemon = "idle" /\ iceTimer
    /\ OnTimerExpire(FALSE)
    /\ UNCHANGED <<state, trx, barrier, iceVars, timerVars, peerVars, envVars, pc, after>>

\* OnCloseSessionTimerExpire: only a session that still waits for its SDP is closed.
CloseTimerExpires ==
    /\ pc.daemon = "idle" /\ closeTimer
    /\ "raceDeadline" \in Timings \/ (pc.app = "idle" /\ SessionWaits)
    /\ closeTimer' = FALSE
    /\ Goto("daemon", IF state = "START" THEN "empty" ELSE "idle")
    /\ UNCHANGED <<state, trx, queue, barrier, iceVars, iceTimer, reportTimer, peerVars, envVars, after>>

DaemonEmptiesQueue ==
    /\ EmptyMessageQueue("daemon", "empty", "recv", "notify")
    /\ UNCHANGED <<state, trx, barrier, iceVars, iceTimer, timerVars, peerVars, envVars, after>>

\* Mutant: the session task is not woken.
CloseTimerNotifies_NoWake ==
    /\ pc.daemon = "notify"
    /\ queue' = Post(queue, "CLOSE_NO_ICE")
    /\ Goto("daemon", "idle")
    /\ UNCHANGED <<state, trx, barrier, iceVars, iceTimer, timerVars, peerVars, envVars, after>>

CloseTimerNotifies ==
    /\ pc.daemon = "notify"
    /\ queue' = Post(queue, "CLOSE_NO_ICE") /\ barrier' = TRUE
    /\ Goto("daemon", "idle")
    /\ UNCHANGED <<state, trx, iceVars, iceTimer, timerVars, peerVars, envVars, after>>

\* The report timers repeat.  Bound: one report waits in the queue at a time.
ReportTimerExpires ==
    /\ pc.daemon = "idle" /\ reportTimer
    /\ \A i \in 1..Len(queue) : queue[i] # "REPORT"
    /\ queue' = IF trx THEN Post(queue, "REPORT") ELSE queue
    /\ UNCHANGED <<state, trx, barrier, iceVars, iceTimer, timerVars, peerVars, envVars, pc, after>>

\* Time passes a deadline.  The DTLS deadline is set just before the ICE one and
\* both are 24 s; they matter until the connection is secured.
Deadline(d) ==
    /\ d \notin expired
    /\ CASE d = "handshake" -> dtls \in {"handshaking", "broken"} /\ pc.app \notin {"iceStart", "kick"}
         [] d = "connect"   -> ice = "PROCESS" /\ "handshake" \in expired
         [] d = "idle"      -> state = "READY"
    /\ "raceDeadline" \in Timings \/ (pc.listener = "idle" /\ pc.app = "idle")
    /\ expired' = expired \cup {d}
    /\ silent' = (silent \/ "raceDeadline" \notin Timings)
    /\ UNCHANGED <<state, trx, queue, barrier, iceVars, iceTimer, timerVars, peerVars, budget, pc, after>>

Deadlines == {"handshake", "connect", "idle"}

Daemon ==
    \/ IceTimerExpires \/ CloseTimerExpires \/ DaemonEmptiesQueue \/ CloseTimerNotifies
    \/ ReportTimerExpires

Next == Session \/ Listener \/ App \/ Daemon \/ \E d \in Deadlines : Deadline(d)

\* The scheduler runs every task that can run, timers expire, time passes, and a
\* TURN server answers: the request is repeated and the answer waits in the socket
\* however many packets of the peer come first.  Nothing is assumed of the peer or
\* of signaling.
Fairness ==
    /\ WF_vars(Session) /\ WF_vars(ListenerRuns) /\ WF_vars(AppRuns)
    /\ WF_vars(IceTimerExpires) /\ WF_vars(CloseTimerExpires)
    /\ WF_vars(DaemonEmptiesQueue) /\ WF_vars(CloseTimerNotifies) /\ WF_vars(ReportTimerExpires)
    /\ SF_vars(RxTurnTerminated)
    /\ \A d \in Deadlines : WF_vars(Deadline(d))

Spec == Init /\ [][Next]_vars
FairSpec == Spec /\ Fairness

------------------------------------------------------------------------------
(* Properties. *)

\* Every variable stays in its type; above all the queue never exceeds its
\* capacity, whatever the timers and the listener post (SendPeerConnectionEvent).
TypeOK ==
    /\ state \in States /\ ice \in IceStates /\ pc \in Steps
    /\ queue \in Seq(Requests) /\ Len(queue) <= QueueCap
    /\ sockets \subseteq {"host", "relay"} /\ nominated \in {"none", "host", "relay"}
    /\ dtls \in {"none", "handshaking", "broken", "ready"} /\ expired \subseteq Deadlines
    /\ {trx, barrier, addLocal, turnClosing, polling, iceTimer, closeTimer, reportTimer,
        srtp, silent} \subseteq BOOLEAN
    /\ viewers \in {0, 1}

\* The media source counts this session exactly while it streams: every
\* REMOTE_PEER_READY is answered by one REMOTE_PEER_CLOSED, whoever closes.
ViewersMatch == viewers = (IF state = "READY" THEN 1 ELSE 0)

\* PeerConnection_SetTimer reads both transceivers: none was cleared under it by
\* OnClosePeerConnection in the session task.
TransceiversPresent == pc.listener \in {"setTimers", "ready"} => trx

\* A session that is READY has its SRTP sessions, its report timers, a nominated
\* socket and the transceivers the media tasks write through (OnDtlsHandshakeComplete
\* against the order in which CloseSession takes them away), and is counted once.
ReadyIsSecured ==
    /\ state = "READY" => srtp /\ reportTimer /\ nominated # "none" /\ trx
    /\ ViewersMatch /\ TransceiversPresent

\* When the ICE controller is CLOSED no socket is open.
ClosedHasNoSocket == ice = "CLOSED" => sockets = {}

\* When a session can be used again and every task has come to rest, nothing of
\* the previous connection is left: no SRTP session, socket, timer, transceiver,
\* viewer or polling listener.
AtRest == Settled /\ pc.app = "idle" /\ pc.session = "barrier"
ReusableIsClean ==
    /\ ClosedHasNoSocket
    /\ state = "INITED" /\ AtRest =>
        /\ ~srtp /\ ~reportTimer /\ ~closeTimer /\ ~trx /\ ~polling
        /\ sockets = {} /\ viewers = 0 /\ ice \in {"NEW", "CLOSED"}

\* A session becomes INITED only by being closed: a request left over from an
\* earlier connection never resets one that is being set up or streams
\* (EmptyMessageQueue in PeerConnection_Start).
ClosedBeforeReuse ==
    [][state' = "INITED" /\ state # "INITED" => state = "CLOSING"]_vars

\* What the session is to the rest of the application, see SessionLife.
Phase ==
    CASE state = "INITED"  -> "idle"
      [] state = "START"   -> "starting"
      [] state = "FIND"    -> "connecting"
      [] state = "P2P"     -> "securing"
      [] state = "READY"   -> "streaming"
      [] state = "CLOSING" -> "closing"
Held == {r \in {"keys", "reports"} : IF r = "keys" THEN srtp ELSE reportTimer}

Life == INSTANCE SessionLife WITH phase <- Phase, held <- Held

\* The session keeps the promise of SessionLife: it is reset by nothing but a close, it
\* starts with nothing of the viewer before, it streams, and is counted, only with keys
\* and report timers, and loses them only when it no longer streams, although four tasks
\* set the state and two of them close (PeerConnection_Start, OnDtlsHandshakeComplete,
\* PeerConnection_CloseSession, OnClosePeerConnection).
LifePromise == Life!Spec

\* A close ends: whoever started it, the session becomes INITED (CloseSession,
\* the ICE_CLOSING requests that follow the TURN session, ICE_CLOSED).
ClosingEnds == state = "CLOSING" ~> state = "INITED"

\* A session that looks for a path or for keys streams or is given up, unless the
\* handshake function has failed: ExecuteDtlsHandshake compares the deadline only
\* when the call succeeded and retries a broken context for ever.
SessionsSettle ==
    state \in {"FIND", "P2P"} ~> state \in {"READY", "INITED"} \/ dtls = "broken"

\* A session for which candidates came but no SDP is given up when its timer expires.
StartTimesOut == (state = "START" /\ closeTimer) ~> state # "START"

\* No phase of a session lasts for ever: the waiting for an SDP, the setup, the close
\* (the deadlines and the ICE timer, which is armed again for each step of a close).
PhasesEnd == ClosingEnds /\ SessionsSettle /\ StartTimesOut
==============================================================================

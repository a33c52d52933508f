------------------------ MODULE SignalingController ------------------------
(***************************************************************************)
(* The signaling task (SignalingController_StartListening): it obtains     *)
(* temporary credentials, asks the service for the channel, its endpoints  *)
(* and the ICE servers over HTTPS, opens the WebSocket, and then           *)
(* alternates between Websocket_Recv and draining the event queue that     *)
(* other tasks fill through SignalingController_SendMessage.               *)
(*                                                                         *)
(* One action is one call that may block or fail. A failing outcome uses   *)
(* up one of MaxFaults. Dereferencing a pointer that is NULL or freed      *)
(* either halts the device or goes unnoticed; the choice is left open.     *)
(***************************************************************************)
EXTENDS Naturals, Sequences, FiniteSets

CONSTANTS
  QueueCapacity,   \* SIGNALING_CONTROLLER_MESSAGE_QUEUE_MAX_MSG_NUM
  NumRetries,      \* attempts of an HTTP request and of the WebSocket connect
  CredLife,        \* life time of fetched credentials
  CredGrace,       \* SIGNALING_CONTROLLER_FETCH_CREDS_GRACE_PERIOD_SEC
  IceTtl,          \* messageTtlSeconds of the ICE servers
  IceGrace,        \* ICE_CONFIGURATION_REFRESH_GRACE_PERIOD_SEC
  PingInterval,    \* NETWORKING_WSLAY_PING_PONG_INTERVAL_TICKS, in calls of Recv
  Configs,         \* [storage, refreshFn]: enableStorageSession, credentialRefreshFn
  MaxTime,         \* bound: the clock
  MaxFaults,       \* bound: failing outcomes
  MaxInbound,      \* bound: messages from the service
  MaxCalls         \* bound: calls of SendMessage, numbered in their order

ASSUME SignalingAssumption ==
  /\ {QueueCapacity, NumRetries, CredLife, IceTtl, PingInterval} \subseteq Nat \ {0}
  /\ {CredGrace, IceGrace, MaxTime, MaxFaults, MaxInbound, MaxCalls} \subseteq Nat
  /\ CredGrace < CredLife /\ IceGrace <= IceTtl
  /\ Configs \subseteq [storage : BOOLEAN, refreshFn : BOOLEAN]

VARIABLES
  config,      \* the connect info's settings, fixed
  pc,          \* where the signaling task is
  caller,      \* inside ConnectToSignalingService, who called it: "outer" loop or "event"
  tries,       \* attempts already failed in the current retry loop
  creds,       \* [key, token: expiry of the fetch each came from; exp: expirationSeconds]
  ice,         \* [count, exp, fetched]: iceServerConfigs and when they were fetched
  ws,          \* the WebSocket context, see WebsocketDown
  idle,        \* calls of Websocket_Recv since the WebSocket went down: a ping comes due
  state,       \* connectionState
  barrier,     \* the start-up barrier was set by the first CONNECTED
  queue,       \* sendMessageQueue
  calls,       \* calls of SendMessage so far; a message is the number of its call
  completed,   \* ghost: completion callbacks, in order
  served,      \* ghost: the age of the configs last handed to a session
  leaks,       \* ghost: [tls, ctx]: objects whose last pointer was overwritten
  excuses,     \* ghost: [tls, ctx]: read errors; connects that failed late
  halted,      \* the device hit a fault
  now, faults, inbound

connVars == <<creds, ice, ws, idle, state, barrier, leaks, excuses, served>>
queueVars == <<queue, calls, completed>>
envVars == <<now, faults, inbound>>
vars == <<config, pc, caller, tries, connVars, queueVars, halted, envVars>>

HttpSteps == {"fetch", "describe", "endpoints", "queryIceHttp", "offerIceHttp",
              "refreshIceHttp", "join"}

PCs == HttpSteps \cup
       {"connectServers", "creds", "queryIce", "wss", "delay", "recv", "offerIce",
        "drain", "refresh", "refreshRetry", "refreshWss", "checkCreds"}

SendEvent(m) == [kind |-> "send", msg |-> m]
ReconnectEvent == [kind |-> "reconnect"]
RefreshEvent == [kind |-> "refreshIce"]

NoCreds == [key |-> 0, token |-> 0, exp |-> 0]

(* A context after Websocket_Init: nothing is open. ctx: wslayContext is   *)
(* set; wake: socketWakeUp; est: connectionEstablished; close:             *)
(* connectionCloseRequested; tls: tcpSocket is NULL, open or freed.        *)
WebsocketDown == [ctx |-> FALSE, wake |-> "none", est |-> FALSE, close |-> FALSE, tls |-> "null"]

Init ==
  /\ config \in Configs
  /\ pc = "connectServers" /\ caller = "none" /\ tries = 0
  /\ creds = NoCreds
  /\ ice = [count |-> 0, exp |-> 0, fetched |-> 0]
  /\ ws = WebsocketDown /\ idle = 0
  /\ state = "NONE" /\ barrier = FALSE
  /\ queue = <<>> /\ calls = 0 /\ completed = <<>>
  /\ served = 0
  /\ leaks = [tls |-> 0, ctx |-> 0] /\ excuses = [tls |-> 0, ctx |-> 0]
  /\ halted = FALSE
  /\ now = 0 /\ faults = 0 /\ inbound = 0

-----------------------------------------------------------------------------
(* Helpers *)

Goto(step) == pc' = step /\ UNCHANGED <<config, halted>>

Fault == faults < MaxFaults /\ faults' = faults + 1 /\ UNCHANGED <<now, inbound>>

NoFault == UNCHANGED envVars

(* Both settings have a source of fresh credentials, so only the times count. *)
AreCredentialsExpired == creds.exp = 0 \/ now >= creds.exp - CredGrace

(* Fetched credentials: all of them belong to one fetch. *)
Fetched == [key |-> now + CredLife, token |-> now + CredLife, exp |-> now + CredLife]

(* UpdateIceServerConfigs: refresh before the shortest time to live runs out.   *)
(* An answer refused half-way leaves some servers newer than the others, while  *)
(* count and expiration stay: the age kept is that of the oldest.               *)
UpdateIceServerConfigs == [count |-> 1, exp |-> now + (IceTtl - IceGrace), fetched |-> now]

(* QueryIceServerConfigs asks again only for missing or expired configs.   *)
IceConfigsUsable == ice.count > 0 /\ ice.exp >= now

(* TLS_FreeRTOS_Disconnect frees the socket and keeps the pointer. *)
TlsDisconnect(w) == [w EXCEPT !.tls = "freed"]

(* What Websocket_Disconnect leaves behind. It frees the TLS connection    *)
(* only when connectionEstablished says there is one.                      *)
Disconnected(w) ==
  [(IF w.est THEN TlsDisconnect(w) ELSE w) EXCEPT
     !.ctx = FALSE, !.wake = "none", !.est = FALSE, !.close = w.close /\ ~w.ctx]

(* What a fresh TLS_FreeRTOS_Connect loses: tcpSocket is set to NULL first. *)
TlsLost(w) == IF w.tls = "open" THEN 1 ELSE 0

(* What InitializeWslayContext loses: an old context is overwritten.       *)
CtxLost(w) == IF w.ctx THEN 1 ELSE 0

(* The application's callback: the first CONNECTED sets the start-up barrier. *)
OnSignalingConnectionStateChange(newState) ==
  barrier' = (barrier \/ newState = "CONNECTED")

(* The callback is called when the state changes. *)
OnConnectionStateChange(newState) ==
  IF state = newState THEN UNCHANGED <<state, barrier>>
  ELSE state' = newState /\ OnSignalingConnectionStateChange(newState)

(* How ConnectToSignalingService ends. *)
ServiceConnected ==
  /\ OnConnectionStateChange("CONNECTED")
  /\ Goto(IF caller = "outer" THEN "recv" ELSE "drain")
  /\ caller' = "none"
ServiceFailed ==
  /\ OnConnectionStateChange("DISCONNECTED")
  /\ Goto(IF caller = "outer" THEN "delay" ELSE "drain")
  /\ caller' = "none"

(* Where the task goes when a request has failed for good. *)
AbandonRequest ==
  CASE pc = "fetch" /\ caller = "none" -> Goto("connectServers") /\ UNCHANGED <<caller, state, barrier>>
    [] pc = "offerIceHttp" -> Goto("recv") /\ UNCHANGED <<caller, state, barrier>>
    [] pc = "refreshIceHttp" -> Goto("refreshRetry") /\ UNCHANGED <<caller, state, barrier>>
    [] OTHER -> ServiceFailed

Running == ~halted

-----------------------------------------------------------------------------
(* Other tasks and the clock *)

Tick ==
  /\ now < MaxTime
  /\ now' = now + 1
  /\ UNCHANGED <<config, pc, caller, tries, connVars, queueVars, halted, faults, inbound>>

SendMessage_Unbounded ==
  /\ calls < MaxCalls /\ calls' = calls + 1
  /\ queue' = Append(queue, SendEvent(calls + 1))
  /\ UNCHANGED <<config, pc, caller, tries, connVars, completed, halted, envVars>>

(* SignalingController_SendMessage: MessageQueue_Send does not wait. The   *)
(* wake-up that follows only shortens the select of Websocket_Recv, which  *)
(* returns after a second by itself, so it has no effect here.             *)
SendMessage ==
  /\ calls < MaxCalls /\ calls' = calls + 1
  /\ queue' = IF Len(queue) < QueueCapacity THEN Append(queue, SendEvent(calls + 1)) ELSE queue
  /\ UNCHANGED <<config, pc, caller, tries, connVars, completed, halted, envVars>>

-----------------------------------------------------------------------------
(* Requests over HTTPS *)

(* Http_Send has built and signed the request, sent it and got status 200. *)
HttpOk == tries' = 0 /\ NoFault

(* One attempt of HttpSend fails and another one follows. *)
HttpRetry ==
  /\ pc \in HttpSteps
  /\ pc # "fetch" \/ ~config.refreshFn
  /\ tries + 1 < NumRetries
  /\ tries' = tries + 1
  /\ Fault
  /\ UNCHANGED <<config, pc, caller, connVars, queueVars, halted>>

(* The last attempt fails, or its answer is not usable. *)
HttpFail ==
  /\ pc \in HttpSteps
  /\ tries + 1 = NumRetries \/ (pc = "fetch" /\ config.refreshFn)
  /\ tries' = 0
  /\ Fault
  /\ AbandonRequest
  /\ UNCHANGED <<creds, ice, ws, idle, leaks, excuses, served, queueVars>>

(* Http_Send disconnects also when TLS_FreeRTOS_Connect failed:            *)
(* TCP_Sockets_Disconnect then reads through a NULL socket. When that goes *)
(* unnoticed the attempt is an ordinary failed one.                        *)
HttpNullSocket ==
  /\ pc \in HttpSteps
  /\ pc # "fetch" \/ ~config.refreshFn
  /\ Fault
  /\ halted' = TRUE
  /\ UNCHANGED <<config, pc, caller, tries, connVars, queueVars>>

ConnectServers_KeepsExpiration ==
  /\ pc = "connectServers"
  /\ creds' = [NoCreds EXCEPT !.exp = creds.exp]
  /\ caller' = "outer"
  /\ Goto("creds")
  /\ NoFault
  /\ UNCHANGED <<tries, ice, ws, idle, state, barrier, leaks, excuses, served, queueVars>>

(* SignalingController_ConnectServers copies the connect info again: the   *)
(* application passes no keys and no expiration.                           *)
ConnectServers ==
  /\ pc = "connectServers"
  /\ creds' = NoCreds
  /\ caller' = "outer"
  /\ Goto("creds")
  /\ NoFault
  /\ UNCHANGED <<tries, ice, ws, idle, state, barrier, leaks, excuses, served, queueVars>>

(* The credentials' check of ConnectToSignalingService and of the inner loop. *)
CheckCredentials ==
  /\ pc \in {"creds", "checkCreds"}
  /\ Goto(IF AreCredentialsExpired THEN "fetch"
          ELSE IF pc = "creds" THEN "describe" ELSE "recv")
  /\ NoFault
  /\ UNCHANGED <<caller, tries, connVars, queueVars>>

(* FetchTemporaryCredentials, by the refresh callback or from IoT Core.    *)
FetchTemporaryCredentials ==
  /\ pc = "fetch"
  /\ creds' = Fetched
  /\ HttpOk
  /\ Goto(IF caller = "none" THEN "recv" ELSE "describe")
  /\ UNCHANGED <<caller, ice, ws, idle, state, barrier, leaks, excuses, served, queueVars>>

(* The IoT Core answer is copied field by field: a session token too long  *)
(* for its buffer is refused when the access key is already replaced.      *)
FetchRefusedHalfway ==
  /\ pc = "fetch" /\ ~config.refreshFn
  /\ creds' = [creds EXCEPT !.key = Fetched.key]
  /\ tries' = 0
  /\ Fault
  /\ AbandonRequest
  /\ UNCHANGED <<ice, ws, idle, leaks, excuses, served, queueVars>>

DescribeSignalingChannel ==
  /\ pc = "describe"
  /\ HttpOk
  /\ Goto("endpoints")
  /\ UNCHANGED <<caller, connVars, queueVars>>

GetSignalingChannelEndpoints ==
  /\ pc = "endpoints"
  /\ HttpOk
  /\ Goto("queryIce")
  /\ UNCHANGED <<caller, connVars, queueVars>>

(* SignalingController_QueryIceServerConfigs, while connecting and for a   *)
(* session that an offer starts inside Websocket_Recv.                     *)
QueryIceServerConfigs ==
  /\ pc \in {"queryIce", "offerIce"}
  /\ IF IceConfigsUsable
     THEN /\ Goto(IF pc = "queryIce" THEN "wss" ELSE "recv")
          /\ served' = IF pc = "queryIce" THEN served
                       ELSE now - ice.fetched
     ELSE /\ Goto(IF pc = "queryIce" THEN "queryIceHttp" ELSE "offerIceHttp")
          /\ UNCHANGED served
  /\ NoFault
  /\ UNCHANGED <<caller, tries, creds, ice, ws, idle, state, barrier, leaks, excuses, queueVars>>

GetIceServerConfigs ==
  /\ pc \in {"queryIceHttp", "offerIceHttp", "refreshIceHttp"}
  /\ ice' = UpdateIceServerConfigs
  /\ HttpOk
  /\ Goto(CASE pc = "queryIceHttp" -> "wss"
            [] pc = "offerIceHttp" -> "recv"
            [] pc = "refreshIceHttp" -> "refreshWss")
  /\ served' = IF pc = "offerIceHttp" THEN 0 ELSE served
  /\ UNCHANGED <<caller, creds, ws, idle, state, barrier, leaks, excuses, queueVars>>

JoinStorageSession ==
  /\ pc = "join"
  /\ HttpOk
  /\ ServiceConnected
  /\ UNCHANGED <<creds, ice, ws, idle, leaks, excuses, served, queueVars>>

-----------------------------------------------------------------------------
(* Opening the WebSocket *)

(* After the WebSocket is open: the storage session, or the caller. *)
AfterConnect ==
  CASE pc = "refreshWss" -> Goto("drain") /\ UNCHANGED <<caller, state, barrier>>
    [] pc = "wss" /\ config.storage -> Goto("join") /\ UNCHANGED <<caller, state, barrier>>
    [] OTHER -> ServiceConnected

(* Websocket_Connect succeeds; an established connection is kept. The      *)
(* wake-up socket may be closed by a failed getsockname and still be used. *)
WebsocketConnect ==
  /\ pc \in {"wss", "refreshWss"}
  /\ \/ ws.est /\ NoFault /\ UNCHANGED <<ws, idle, leaks>>
     \/ \E wake \in {"open", "stale"} :
          /\ ~ws.est
          /\ IF wake = "stale" THEN Fault ELSE NoFault
          /\ ws' = [ctx |-> TRUE, wake |-> wake, est |-> TRUE, close |-> FALSE, tls |-> "open"]
          /\ idle' = 0
          /\ leaks' = [tls |-> leaks.tls + TlsLost(ws), ctx |-> leaks.ctx + CtxLost(ws)]
  /\ tries' = 0
  /\ AfterConnect
  /\ UNCHANGED <<creds, ice, excuses, served, queueVars>>

FailedConnect_LeavesTls(w, step) ==
  CASE step = "tls"     -> [w EXCEPT !.tls = "null"]
    [] step = "upgrade" -> [w EXCEPT !.tls = "open"]
    [] OTHER            -> [w EXCEPT !.tls = "freed", !.ctx = TRUE, !.wake = "open"]

(* What a failed attempt of Websocket_Connect leaves behind, by the step   *)
(* that failed: the TLS connection; the upgrade request; the wake-up       *)
(* socket (not created, or closed again and its number kept); the timeout. *)
FailedConnect(w, step) ==
  CASE step = "tls"     -> [w EXCEPT !.tls = "null"]
    [] step = "upgrade" -> TlsDisconnect(w)
    [] step = "socket"  -> [TlsDisconnect(w) EXCEPT !.ctx = TRUE, !.wake = "none"]
    [] step = "bind"    -> [TlsDisconnect(w) EXCEPT !.ctx = TRUE, !.wake = "stale"]
    [] step = "timeout" -> [TlsDisconnect(w) EXCEPT !.ctx = TRUE, !.wake = "open"]

LateSteps == {"socket", "bind", "timeout"}

WebsocketConnectFail(step) ==
  /\ pc \in {"wss", "refreshWss"}
  /\ ~ws.est
  /\ Fault
  /\ ws' = FailedConnect(ws, step)
  /\ leaks' = [tls |-> leaks.tls + TlsLost(ws),
               ctx |-> leaks.ctx + (IF step \in LateSteps THEN CtxLost(ws) ELSE 0)]
  /\ excuses' = [excuses EXCEPT !.ctx = @ + (IF step \in LateSteps THEN 1 ELSE 0)]
  /\ IF tries + 1 < NumRetries
     THEN tries' = tries + 1 /\ UNCHANGED <<config, pc, caller, halted, state, barrier>>
     ELSE /\ tries' = 0
          /\ IF pc = "wss" THEN ServiceFailed
             ELSE Goto("refreshRetry") /\ UNCHANGED <<caller, state, barrier>>
  /\ UNCHANGED <<creds, ice, idle, served, queueVars>>

(* SIGNALING_CONTROLLER_RETRY_CONNECT_TIMEOUT_MS *)
RetryDelay ==
  /\ pc = "delay"
  /\ Goto("connectServers")
  /\ NoFault
  /\ UNCHANGED <<caller, tries, connVars, queueVars>>

-----------------------------------------------------------------------------
(* Websocket_Recv *)

(* The inner loop ends: Websocket_Recv has disconnected and failed. *)
RecvFails(w) ==
  /\ ws' = Disconnected(w)
  /\ Goto("connectServers")

(* HandleWssMessage for one message of a readable connection; several may  *)
(* arrive in one call. GO_AWAY and RECONNECT_ICE_SERVER are posted to the  *)
(* task's own queue, and lost when that is full.                           *)
HandleWssMessage(kind) ==
  /\ pc = "recv" /\ ws.est /\ ~ws.close
  /\ inbound < MaxInbound /\ inbound' = inbound + 1
  /\ CASE kind \in {"reconnect", "refreshIce"} ->
            /\ queue' = IF Len(queue) < QueueCapacity THEN Append(queue, [kind |-> kind])
                        ELSE queue
            /\ Goto("recv") /\ UNCHANGED ws
       [] kind = "offer" -> Goto("offerIce") /\ UNCHANGED <<queue, ws>>
       [] kind = "close" -> /\ ws' = [ws EXCEPT !.close = TRUE]
                            /\ Goto("recv") /\ UNCHANGED queue
  /\ UNCHANGED <<caller, tries, creds, ice, idle, state, barrier, leaks, excuses, served,
                 calls, completed, now, faults>>

(* The rest of Websocket_Recv on an established connection: the close      *)
(* request, then the ping, which is not modelled further while it works.   *)
RecvReturns ==
  /\ pc = "recv" /\ ws.est
  /\ IF ws.close THEN RecvFails(ws) ELSE Goto("drain") /\ UNCHANGED ws
  /\ NoFault
  /\ UNCHANGED <<caller, tries, creds, ice, idle, state, barrier, leaks, excuses, served, queueVars>>

(* select or the ping fails; select always may with a stale wake-up socket. *)
RecvPingOrSelectFails ==
  /\ pc = "recv" /\ ws.est
  /\ Fault \/ (ws.wake = "stale" /\ NoFault)
  /\ RecvFails(ws)
  /\ UNCHANGED <<caller, tries, creds, ice, idle, state, barrier, leaks, excuses, served, queueVars>>

(* A read fails: connectionEstablished is cleared before the disconnect.   *)
RecvReadFails ==
  /\ pc = "recv" /\ ws.est
  /\ Fault
  /\ RecvFails([ws EXCEPT !.est = FALSE])
  /\ excuses' = [excuses EXCEPT !.tls = @ + 1]
  /\ UNCHANGED <<caller, tries, creds, ice, idle, state, barrier, leaks, served, queueVars>>

RecvWhileDown_Ignored ==
  /\ pc = "recv" /\ ~ws.est
  /\ Goto("drain")
  /\ NoFault
  /\ UNCHANGED <<caller, tries, connVars, queueVars>>

(* Websocket_Recv while the WebSocket is down, after a reconnection that   *)
(* an event asked for has failed: select is given the descriptors of the   *)
(* closed sockets. It reports an error, or times out until the ping is     *)
(* due; the ping finds no context (it halts, or writing is not enabled) or *)
(* a context without a connection.                                         *)
RecvWhileDown ==
  /\ pc = "recv" /\ ~ws.est
  /\ \/ RecvFails(ws) /\ idle' = 0
     \/ /\ idle + 1 < PingInterval
        /\ idle' = idle + 1
        /\ Goto("drain") /\ UNCHANGED ws
  /\ NoFault
  /\ UNCHANGED <<caller, tries, creds, ice, state, barrier, leaks, excuses, served, queueVars>>

(* wslay is called with a NULL context, by the ping, a read or a send. *)
NullContextFault ==
  /\ ~ws.ctx
  /\ \/ pc = "recv"
     \/ pc = "drain" /\ queue # <<>> /\ Head(queue).kind = "send"
  /\ halted' = TRUE
  /\ UNCHANGED <<config, pc, caller, tries, connVars, queueVars, envVars>>

-----------------------------------------------------------------------------
(* HandleEvent *)

(* Websocket_Send: without an established connection writing is not        *)
(* enabled or fails; on one it may fail.                                   *)
SendOutcomes == IF ws.est THEN {"SENT_DONE", "SENT_FAIL"} ELSE {"SENT_FAIL"}

HandleSendEvent_Requeues(status) ==
  /\ pc = "drain" /\ queue # <<>> /\ Head(queue).kind = "send"
  /\ status \in SendOutcomes
  /\ IF status = "SENT_FAIL" /\ ws.est THEN Fault ELSE NoFault
  /\ queue' = IF status = "SENT_FAIL" THEN Append(Tail(queue), Head(queue)) ELSE Tail(queue)
  /\ completed' = Append(completed, [msg |-> Head(queue).msg, status |-> status])
  /\ Goto("drain")
  /\ UNCHANGED <<caller, tries, connVars, calls>>

(* A message is sent and its completion callback is called. *)
HandleSendEvent(status) ==
  /\ pc = "drain" /\ queue # <<>> /\ Head(queue).kind = "send"
  /\ status \in SendOutcomes
  /\ IF status = "SENT_FAIL" /\ ws.est THEN Fault ELSE NoFault
  /\ queue' = Tail(queue)
  /\ completed' = Append(completed, [msg |-> Head(queue).msg, status |-> status])
  /\ Goto("drain")
  /\ UNCHANGED <<caller, tries, connVars, calls>>

(* RECONNECT_WSS: Websocket_Disconnect, then ConnectToSignalingService. If *)
(* the close-notify of the TLS connection fails, the second part is        *)
(* skipped and the event still counts as handled.                          *)
HandleReconnectEvent ==
  /\ pc = "drain" /\ queue # <<>> /\ Head(queue).kind = "reconnect"
  /\ queue' = Tail(queue)
  /\ ws' = Disconnected(ws)
  /\ \/ Goto("creds") /\ caller' = "event" /\ NoFault
     \/ Goto("drain") /\ UNCHANGED caller /\ ws.est /\ Fault
  /\ UNCHANGED <<tries, creds, ice, idle, state, barrier, leaks, excuses, served,
                 calls, completed>>

(* FORCE_REFRESH_ICE_SERVER_CONFIGS starts HandleForceRefreshIceServerConfigs. *)
HandleRefreshEvent ==
  /\ pc = "drain" /\ queue # <<>> /\ Head(queue).kind = "refreshIce"
  /\ queue' = Tail(queue)
  /\ Goto("refresh")
  /\ NoFault
  /\ UNCHANGED <<caller, tries, connVars, calls, completed>>

(* SignalingController_RefreshIceServerConfigs disconnects first. *)
RefreshDisconnect ==
  /\ pc = "refresh"
  /\ ws' = Disconnected(ws)
  /\ \/ Goto("refreshIceHttp") /\ NoFault
     \/ Goto("refreshRetry") /\ ws.est /\ Fault
  /\ UNCHANGED <<caller, tries, creds, ice, idle, state, barrier, leaks, excuses, served, queueVars>>

(* Another attempt, or SIGNALING_CONTROLLER_REFRESH_ICE_SERVER_CONFIGS_TIMEOUT. *)
RefreshRetryOrGiveUp ==
  /\ pc = "refreshRetry"
  /\ Goto("refresh") \/ Goto("drain")
  /\ NoFault
  /\ UNCHANGED <<caller, tries, connVars, queueVars>>

(* The queue is empty: on to the credentials. *)
QueueDrained ==
  /\ pc = "drain" /\ queue = <<>>
  /\ Goto("checkCreds")
  /\ NoFault
  /\ UNCHANGED <<caller, tries, connVars, queueVars>>

-----------------------------------------------------------------------------
Task ==
  \/ HttpRetry \/ HttpFail \/ HttpNullSocket
  \/ ConnectServers \/ CheckCredentials
  \/ FetchTemporaryCredentials \/ FetchRefusedHalfway
  \/ DescribeSignalingChannel \/ GetSignalingChannelEndpoints
  \/ QueryIceServerConfigs \/ GetIceServerConfigs \/ JoinStorageSession
  \/ WebsocketConnect
  \/ \E step \in {"tls", "upgrade"} \cup LateSteps : WebsocketConnectFail(step)
  \/ RetryDelay
  \/ \E kind \in {"reconnect", "refreshIce", "offer", "close"} : HandleWssMessage(kind)
  \/ RecvReturns \/ RecvPingOrSelectFails \/ RecvReadFails \/ RecvWhileDown
  \/ NullContextFault
  \/ \E status \in {"SENT_DONE", "SENT_FAIL"} : HandleSendEvent(status)
  \/ HandleReconnectEvent \/ HandleRefreshEvent
  \/ RefreshDisconnect \/ RefreshRetryOrGiveUp \/ QueueDrained

TaskStep == Running /\ Task

Next ==
  \/ TaskStep
  \/ Running /\ (Tick \/ SendMessage)
  \/ halted /\ UNCHANGED vars

(* The signaling task is always scheduled again; nothing is assumed of the *)
(* other tasks or of the service. *)
Spec == Init /\ [][Next]_vars /\ WF_vars(TaskStep)

-----------------------------------------------------------------------------
(* Properties *)

TypeOK ==
  /\ config \in Configs /\ pc \in PCs
  /\ caller \in {"none", "outer", "event"} /\ tries \in 0..NumRetries
  /\ creds \in [key : Nat, token : Nat, exp : Nat]
  /\ ice \in [count : 0..1, exp : Nat, fetched : Nat]
  /\ ws \in [ctx : BOOLEAN, wake : {"none", "open", "stale"}, est : BOOLEAN,
             close : BOOLEAN, tls : {"null", "open", "freed"}]
  /\ idle \in 0..PingInterval
  /\ state \in {"NONE", "CONNECTED", "DISCONNECTED"} /\ barrier \in BOOLEAN
  /\ queue \in Seq({ReconnectEvent, RefreshEvent} \cup {SendEvent(m) : m \in 1..MaxCalls})
  /\ Len(queue) <= QueueCapacity
  /\ calls \in 0..MaxCalls
  /\ completed \in Seq([msg : 1..MaxCalls, status : {"SENT_DONE", "SENT_FAIL"}])
  /\ served \in Nat
  /\ leaks \in [tls : Nat, ctx : Nat] /\ excuses \in [tls : Nat, ctx : Nat]
  /\ halted \in BOOLEAN
  /\ now \in 0..MaxTime /\ faults \in 0..MaxFaults /\ inbound \in 0..MaxInbound

(* A connection counted as established has what Websocket_Recv and         *)
(* Websocket_Send dereference: the wslay context and the TLS socket,       *)
(* through every failed connect, retry and disconnect                      *)
(* (connectionEstablished, wslay_helper.c).                                *)
EstablishedIsComplete == ws.est => ws.ctx /\ ws.tls = "open"

(* The expiration the controller compares with the clock is never later    *)
(* than that of the key and of the token it signs with, although keys are  *)
(* restored on every reconnection and a fetch may fail halfway             *)
(* (AreCredentialsExpired, FetchTemporaryCredentials, ConnectServers).     *)
CredentialsNotOverstated == creds.exp <= creds.key /\ creds.exp <= creds.token

(* A session started by an offer gets ICE servers that are within the time *)
(* to live the service gave them (QueryIceServerConfigs with the           *)
(* expiration of UpdateIceServerConfigs and forced refreshes).             *)
ServedIceConfigsFresh == served <= IceTtl

(* Nothing the service has lent is used past its time: neither the keys    *)
(* nor the ICE servers (AreCredentialsExpired, QueryIceServerConfigs).     *)
NothingOutlived == CredentialsNotOverstated /\ ServedIceConfigsFresh

(* A TLS connection is lost without being closed only by a failed read,    *)
(* a wslay context only by a connect that failed after creating one        *)
(* (the cleanup paths of Websocket_Connect and Websocket_Disconnect).      *)
LeaksExplained ==
  /\ leaks.tls + (IF ws.tls = "open" /\ ~ws.est THEN 1 ELSE 0) <= excuses.tls
  /\ leaks.ctx + (IF ws.ctx /\ ~ws.est THEN 1 ELSE 0) <= excuses.ctx

(* No connection is used after it was closed, none is left behind: what is *)
(* established is complete, what was lost has one of two named causes      *)
(* (Websocket_Connect, Websocket_Disconnect, wslay_helper.c).              *)
ConnectionsAccounted == EstablishedIsComplete /\ LeaksExplained

(* The messages waiting in the queue, without the control events. *)
Pending == {queue[i].msg : i \in {j \in DOMAIN queue : queue[j].kind = "send"}}

Service == INSTANCE MessageService
             WITH Messages <- 1..MaxCalls, Capacity <- QueueCapacity, pending <- Pending, done <- completed

(* SendMessage's promise, see MessageService: accepted messages complete   *)
(* once, in order, and eventually, whatever happens to the connection; the *)
(* completion callback frees the message's buffer (HandleEvent,            *)
(* OnSendIceCandidateComplete).                                            *)
ServicePromise == Service!Spec

(* After any failure the task gets back to an established WebSocket:       *)
(* neither a failed reconnection inside an event nor an exhausted retry    *)
(* loop leaves it waiting for good (StartListening, Websocket_Recv).       *)
ReconnectsAlways == []<>(halted \/ ws.est)

(* The start-up barrier Master_Task waits on without a timeout is set      *)
(* (OnSignalingConnectionStateChange, AppCommon_StartSignalingController). *)
BarrierReleased == <>(halted \/ barrier)

(* The task connects, for the first time and after every failure.          *)
ConnectsAlways == ReconnectsAlways /\ BarrierReleased
=============================================================================

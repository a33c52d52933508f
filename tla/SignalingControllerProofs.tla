----------------------- MODULE SignalingControllerProofs -----------------------
(***************************************************************************)
(* Proofs about SignalingController for every capacity of the queue, every *)
(* number of retries, every life time and grace period the service may     *)
(* use: the type invariant, that nothing is used past its time, that no    *)
(* connection is used after it was closed, and that the task implements    *)
(* the safety part of MessageService.                                      *)
(***************************************************************************)
EXTENDS SignalingController, FiniteSetTheorems, FunctionTheorems, TLAPS

------------------------------------------------------------------------------
(* What a step changes.  Few actions touch more than one of: the control of *)
(* the task, the WebSocket, what the service has lent, and the queue.       *)

wsVars == <<ws, idle, leaks, excuses>>
lentVars == <<creds, ice, served>>
clockVars == <<now, faults, inbound>>

\* Environment variables are only counted up.
LEMMA ClockChanges ==
    [Next]_vars =>
        \/ UNCHANGED clockVars
        \/ faults < MaxFaults /\ faults' = faults + 1 /\ UNCHANGED <<now, inbound>>
        \/ now < MaxTime /\ now' = now + 1
             /\ UNCHANGED <<faults, inbound, lentVars, wsVars, queueVars>>
        \/ inbound < MaxInbound /\ inbound' = inbound + 1 /\ UNCHANGED <<now, faults>>
<1> USE DEF NoFault, Fault, envVars, clockVars, HttpOk, lentVars, wsVars, connVars
<1>1. Task => \/ UNCHANGED clockVars
              \/ faults < MaxFaults /\ faults' = faults + 1 /\ UNCHANGED <<now, inbound>>
              \/ inbound < MaxInbound /\ inbound' = inbound + 1 /\ UNCHANGED <<now, faults>>
  BY DEF Task, HttpRetry, HttpFail, HttpNullSocket, ConnectServers, CheckCredentials,
     FetchTemporaryCredentials, FetchRefusedHalfway, DescribeSignalingChannel,
     GetSignalingChannelEndpoints, QueryIceServerConfigs, GetIceServerConfigs, JoinStorageSession,
     WebsocketConnect, WebsocketConnectFail, RetryDelay, HandleWssMessage, RecvReturns,
     RecvPingOrSelectFails, RecvReadFails, RecvWhileDown, NullContextFault, HandleSendEvent,
     HandleReconnectEvent, HandleRefreshEvent, RefreshDisconnect, RefreshRetryOrGiveUp, QueueDrained
<1>2. QED
  BY <1>1 DEF Next, TaskStep, Tick, SendMessage, vars

\* The queue is filled by SendMessage and the service, and emptied by HandleEvent.
LEMMA QueueChanges ==
    [Next]_vars =>
        \/ UNCHANGED queueVars
        \/ SendMessage
        \/ \E kind \in {"reconnect", "refreshIce", "offer", "close"} : HandleWssMessage(kind)
        \/ Running /\ \E status \in {"SENT_DONE", "SENT_FAIL"} : HandleSendEvent(status)
        \/ HandleReconnectEvent \/ HandleRefreshEvent
  BY DEF Next, vars, TaskStep, Tick,
     Task, HttpRetry, HttpFail, HttpNullSocket, ConnectServers, CheckCredentials,
     FetchTemporaryCredentials, FetchRefusedHalfway, DescribeSignalingChannel,
     GetSignalingChannelEndpoints, QueryIceServerConfigs, GetIceServerConfigs, JoinStorageSession,
     WebsocketConnect, WebsocketConnectFail, RetryDelay, RecvReturns,
     RecvPingOrSelectFails, RecvReadFails, RecvWhileDown, NullContextFault,
     RefreshDisconnect, RefreshRetryOrGiveUp, QueueDrained

\* Keys and ICE servers change when they are fetched and when the task starts over; an
\* offer has the age of its ICE servers recorded.
LEMMA LentChanges ==
    [Next]_vars =>
        \/ UNCHANGED lentVars
        \/ ConnectServers \/ FetchTemporaryCredentials \/ FetchRefusedHalfway
        \/ QueryIceServerConfigs \/ GetIceServerConfigs
  BY DEF Next, vars, connVars, lentVars, TaskStep, Tick, SendMessage,
     Task, HttpRetry, HttpFail, HttpNullSocket, CheckCredentials,
     DescribeSignalingChannel,
     GetSignalingChannelEndpoints, JoinStorageSession,
     WebsocketConnect, WebsocketConnectFail, RetryDelay, HandleWssMessage, RecvReturns,
     RecvPingOrSelectFails, RecvReadFails, RecvWhileDown, NullContextFault, HandleSendEvent,
     HandleReconnectEvent, HandleRefreshEvent, RefreshDisconnect, RefreshRetryOrGiveUp, QueueDrained

\* The WebSocket is opened by Websocket_Connect, closed by Websocket_Disconnect, and asked
\* to close by the service.
LEMMA WsChanges ==
    [Next]_vars =>
        \/ UNCHANGED wsVars
        \/ WebsocketConnect
        \/ \E step \in {"tls", "upgrade"} \cup LateSteps : WebsocketConnectFail(step)
        \/ ws' \in {Disconnected(ws), [ws EXCEPT !.close = TRUE], ws}
           /\ UNCHANGED <<leaks, excuses>>
           /\ \/ idle' \in {0, idle}
              \/ idle' = idle + 1 /\ idle + 1 < PingInterval
        \/ RecvReadFails
<1> USE DEF wsVars
<1>1. CASE RecvReturns \/ RecvPingOrSelectFails \/ RecvWhileDown
  BY <1>1 DEF RecvReturns, RecvPingOrSelectFails, RecvWhileDown, RecvFails
<1>2. CASE HandleReconnectEvent \/ RefreshDisconnect
  BY <1>2 DEF HandleReconnectEvent, RefreshDisconnect
<1>3. CASE \E kind \in {"reconnect", "refreshIce", "offer", "close"} : HandleWssMessage(kind)
  BY <1>3 DEF HandleWssMessage
<1>4. QED
  BY <1>1, <1>2, <1>3 DEF Next, vars, connVars, TaskStep, Tick, SendMessage,
     Task, HttpRetry, HttpFail, HttpNullSocket, ConnectServers, CheckCredentials,
     FetchTemporaryCredentials, FetchRefusedHalfway, DescribeSignalingChannel,
     GetSignalingChannelEndpoints, QueryIceServerConfigs, GetIceServerConfigs, JoinStorageSession,
     RetryDelay, NullContextFault, HandleSendEvent, HandleRefreshEvent,
     RefreshRetryOrGiveUp, QueueDrained

------------------------------------------------------------------------------
(* Types. *)

Events == {ReconnectEvent, RefreshEvent} \cup {SendEvent(m) : m \in 1..MaxCalls}
Websockets == [ctx : BOOLEAN, wake : {"none", "open", "stale"}, est : BOOLEAN,
               close : BOOLEAN, tls : {"null", "open", "freed"}]

\* The helpers of the WebSocket return contexts.
LEMMA WebsocketTypes ==
    ASSUME NEW w \in Websockets
    PROVE  /\ TlsDisconnect(w) \in Websockets /\ Disconnected(w) \in Websockets
           /\ [w EXCEPT !.est = FALSE] \in Websockets /\ [w EXCEPT !.close = TRUE] \in Websockets
           /\ \A step \in {"tls", "upgrade"} \cup LateSteps : FailedConnect(w, step) \in Websockets
           /\ TlsLost(w) \in {0, 1} /\ CtxLost(w) \in {0, 1}
<1>1. TlsDisconnect(w) \in Websockets
  BY DEF Websockets, TlsDisconnect
<1>2. Disconnected(w) \in Websockets
  BY <1>1 DEF Websockets, Disconnected
<1>3. \A step \in {"tls", "upgrade"} \cup LateSteps : FailedConnect(w, step) \in Websockets
  BY <1>1 DEF Websockets, FailedConnect, LateSteps
<1>4. TlsLost(w) \in {0, 1} /\ CtxLost(w) \in {0, 1}
  BY DEF TlsLost, CtxLost
<1>5. QED
  BY <1>1, <1>2, <1>3, <1>4 DEF Websockets

\* The callback leaves a state and a barrier.
LEMMA StateTypes ==
    ASSUME TypeOK, NEW new \in {"CONNECTED", "DISCONNECTED"}, OnConnectionStateChange(new)
    PROVE  state' \in {"NONE", "CONNECTED", "DISCONNECTED"} /\ barrier' \in BOOLEAN
  BY DEF TypeOK, OnConnectionStateChange, OnSignalingConnectionStateChange

\* An event that fits into the queue, and the oldest event of a queue.
LEMMA QueueTypes ==
    ASSUME TypeOK
    PROVE  /\ queue \in Seq(Events) /\ Len(queue) \in Nat
           /\ \A e \in Events : Len(queue) < QueueCapacity =>
                  Append(queue, e) \in Seq(Events) /\ Len(Append(queue, e)) <= QueueCapacity
           /\ queue # <<>> => /\ Head(queue) \in Events /\ Tail(queue) \in Seq(Events)
                              /\ Len(Tail(queue)) <= QueueCapacity
<1>1. queue \in Seq(Events) /\ Len(queue) <= QueueCapacity
  BY DEF TypeOK, Events
<1>2. QueueCapacity \in Nat
  BY SignalingAssumption
<1>3. QED
  BY <1>1, <1>2

\* Where the task goes when a request has failed, or the WebSocket is open.
LEMMA ControlTypes ==
    ASSUME TypeOK, AbandonRequest \/ AfterConnect \/ ServiceConnected \/ ServiceFailed
    PROVE  /\ pc' \in PCs /\ caller' \in {"none", "outer", "event"}
           /\ state' \in {"NONE", "CONNECTED", "DISCONNECTED"} /\ barrier' \in BOOLEAN
           /\ UNCHANGED <<config, halted>>
<1>1. ASSUME ServiceConnected \/ ServiceFailed
      PROVE  /\ pc' \in PCs /\ caller' \in {"none", "outer", "event"}
             /\ state' \in {"NONE", "CONNECTED", "DISCONNECTED"} /\ barrier' \in BOOLEAN
             /\ UNCHANGED <<config, halted>>
  BY <1>1, StateTypes DEF ServiceConnected, ServiceFailed, Goto, PCs
<1>2. CASE AbandonRequest
  BY <1>1, <1>2 DEF AbandonRequest, Goto, PCs, TypeOK
<1>3. CASE AfterConnect
  BY <1>1, <1>3 DEF AfterConnect, Goto, PCs, HttpSteps, TypeOK
<1>4. QED
  BY <1>1, <1>2, <1>3

ControlTypeOK ==
    /\ config \in Configs /\ pc \in PCs
    /\ caller \in {"none", "outer", "event"} /\ tries \in 0..NumRetries
    /\ state \in {"NONE", "CONNECTED", "DISCONNECTED"} /\ barrier \in BOOLEAN
    /\ halted \in BOOLEAN

\* The task is always at one of its steps, and gives up a request after NumRetries.
LEMMA ControlStep == TypeOK /\ [Next]_vars => ControlTypeOK'
<1> SUFFICES ASSUME TypeOK, [Next]_vars
             PROVE  ControlTypeOK'
  OBVIOUS
<1>t. ControlTypeOK
  BY DEF TypeOK, ControlTypeOK
<1> USE SignalingAssumption DEF Goto, connVars, queueVars, PCs, HttpSteps, ControlTypeOK, HttpOk
<1>1. CASE HttpRetry
  BY <1>1, <1>t DEF HttpRetry
<1>2. CASE HttpFail \/ FetchRefusedHalfway
  BY <1>2, ControlTypes, <1>t DEF HttpFail, FetchRefusedHalfway
<1>3. CASE HttpNullSocket \/ NullContextFault
  BY <1>3, <1>t DEF HttpNullSocket, NullContextFault
<1>4. CASE \/ ConnectServers \/ CheckCredentials \/ RetryDelay
           \/ HandleRefreshEvent \/ RefreshRetryOrGiveUp \/ QueueDrained
  BY <1>4, <1>t DEF ConnectServers, CheckCredentials, RetryDelay,
     HandleRefreshEvent, RefreshRetryOrGiveUp, QueueDrained
<1>5. CASE \/ FetchTemporaryCredentials \/ DescribeSignalingChannel \/ GetSignalingChannelEndpoints
           \/ QueryIceServerConfigs
  BY <1>5, <1>t DEF FetchTemporaryCredentials, DescribeSignalingChannel,
     GetSignalingChannelEndpoints, QueryIceServerConfigs
<1>6. CASE GetIceServerConfigs
  BY <1>6, <1>t DEF GetIceServerConfigs
<1>7. CASE JoinStorageSession \/ WebsocketConnect
  BY <1>7, <1>t, ControlTypes DEF JoinStorageSession, WebsocketConnect
<1>8. ASSUME NEW step \in {"tls", "upgrade"} \cup LateSteps, WebsocketConnectFail(step)
      PROVE  ControlTypeOK'
  BY <1>8, <1>t, ControlTypes DEF WebsocketConnectFail
<1>9. ASSUME NEW kind \in {"reconnect", "refreshIce", "offer", "close"}, HandleWssMessage(kind)
      PROVE  ControlTypeOK'
  BY <1>9, <1>t DEF HandleWssMessage
<1>10. CASE RecvReturns \/ RecvPingOrSelectFails \/ RecvReadFails \/ RecvWhileDown
  BY <1>10, <1>t DEF RecvReturns, RecvPingOrSelectFails, RecvReadFails, RecvWhileDown, RecvFails
<1>11. ASSUME NEW status \in {"SENT_DONE", "SENT_FAIL"}, HandleSendEvent(status)
       PROVE  ControlTypeOK'
  BY <1>11, <1>t DEF HandleSendEvent
<1>12. CASE HandleReconnectEvent \/ RefreshDisconnect
  BY <1>12, <1>t DEF HandleReconnectEvent, RefreshDisconnect
<1>13. CASE Tick \/ SendMessage \/ UNCHANGED vars
  BY <1>13, <1>t DEF Tick, SendMessage, vars
<1>14. QED
  BY <1>1, <1>2, <1>3, <1>4, <1>5, <1>6, <1>7, <1>8, <1>9, <1>10, <1>11, <1>12, <1>13
     DEF Next, TaskStep, Task

\* The clock, the failures and the messages of the service stay within their bounds.
LEMMA ClockStep ==
    TypeOK /\ [Next]_vars =>
        /\ now' \in 0..MaxTime /\ faults' \in 0..MaxFaults /\ inbound' \in 0..MaxInbound
        /\ now' \in Nat /\ now' >= now
<1> SUFFICES ASSUME TypeOK, [Next]_vars
             PROVE  /\ now' \in 0..MaxTime /\ faults' \in 0..MaxFaults /\ inbound' \in 0..MaxInbound
                    /\ now' \in Nat /\ now' >= now
  OBVIOUS
<1>1. /\ now \in 0..MaxTime /\ faults \in 0..MaxFaults /\ inbound \in 0..MaxInbound
      /\ MaxTime \in Nat /\ MaxFaults \in Nat /\ MaxInbound \in Nat
  BY SignalingAssumption DEF TypeOK
<1>2. /\ now' = now \/ (now < MaxTime /\ now' = now + 1)
      /\ faults' = faults \/ (faults < MaxFaults /\ faults' = faults + 1)
      /\ inbound' = inbound \/ (inbound < MaxInbound /\ inbound' = inbound + 1)
  BY ClockChanges DEF clockVars
<1>3. QED
  BY <1>1, <1>2

\* The queue holds events, no more than its capacity.
LEMMA QueueStep ==
    TypeOK /\ [Next]_vars =>
        /\ queue' \in Seq(Events) /\ Len(queue') <= QueueCapacity
        /\ calls' \in 0..MaxCalls
        /\ completed' \in Seq([msg : 1..MaxCalls, status : {"SENT_DONE", "SENT_FAIL"}])
<1> SUFFICES ASSUME TypeOK, [Next]_vars
             PROVE  /\ queue' \in Seq(Events) /\ Len(queue') <= QueueCapacity
                    /\ calls' \in 0..MaxCalls
                    /\ completed' \in Seq([msg : 1..MaxCalls, status : {"SENT_DONE", "SENT_FAIL"}])
  OBVIOUS
<1>t. /\ queue \in Seq(Events) /\ Len(queue) <= QueueCapacity /\ calls \in 0..MaxCalls
      /\ completed \in Seq([msg : 1..MaxCalls, status : {"SENT_DONE", "SENT_FAIL"}])
  BY DEF TypeOK, Events
<1>1. CASE UNCHANGED queueVars
  BY <1>1, <1>t DEF queueVars
<1>2. CASE SendMessage
  <2>1. calls' \in 1..MaxCalls /\ SendEvent(calls + 1) \in Events
    <3>1. calls' = calls + 1 /\ calls < MaxCalls /\ MaxCalls \in Nat
      BY <1>2, SignalingAssumption DEF SendMessage
    <3>2. calls + 1 \in 1..MaxCalls
      BY <1>t, <3>1
    <3>3. QED
      BY <3>1, <3>2 DEF Events
  <2>2. QED
    BY <1>2, <1>t, <2>1, QueueTypes, SignalingAssumption DEF SendMessage
<1>3. ASSUME NEW kind \in {"reconnect", "refreshIce", "offer", "close"}, HandleWssMessage(kind)
      PROVE  /\ queue' \in Seq(Events) /\ Len(queue') <= QueueCapacity
             /\ UNCHANGED <<calls, completed>>
  <2>1. kind \in {"reconnect", "refreshIce"} => [kind |-> kind] \in Events
    BY DEF Events, ReconnectEvent, RefreshEvent
  <2>2. QED
    BY <1>3, <1>t, <2>1, QueueTypes, SignalingAssumption DEF HandleWssMessage
<1>4. ASSUME NEW status \in {"SENT_DONE", "SENT_FAIL"}, HandleSendEvent(status)
      PROVE  /\ queue' \in Seq(Events) /\ Len(queue') <= QueueCapacity /\ calls' = calls
             /\ completed' \in Seq([msg : 1..MaxCalls, status : {"SENT_DONE", "SENT_FAIL"}])
  <2>1. Head(queue) \in Events /\ Head(queue).kind = "send" /\ queue # <<>>
    BY <1>4, QueueTypes DEF HandleSendEvent
  <2>2. Head(queue).msg \in 1..MaxCalls
    BY <2>1 DEF Events, ReconnectEvent, RefreshEvent, SendEvent
  <2>3. QED
    BY <1>4, <1>t, <2>1, <2>2, QueueTypes DEF HandleSendEvent
<1>5. CASE HandleReconnectEvent \/ HandleRefreshEvent
  BY <1>5, <1>t, QueueTypes DEF HandleReconnectEvent, HandleRefreshEvent, queueVars
<1>6. QED
  BY <1>1, <1>2, <1>3, <1>4, <1>5, <1>t, QueueChanges

------------------------------------------------------------------------------
(* What the service has lent: keys and ICE servers. *)

LentTypeOK ==
    /\ creds \in [key : Nat, token : Nat, exp : Nat]
    /\ ice \in [count : 0..1, exp : Nat, fetched : Nat]
    /\ served \in Nat

\* The expiration in use never says more than a whole life from now, so that a fetch that
\* stops halfway cannot leave an older key with a later expiration; the ICE servers
\* are refreshed IceGrace before the time to live that counts from their fetch.
LentInv ==
    /\ LentTypeOK
    /\ CredentialsNotOverstated /\ creds.exp <= now + CredLife
    /\ ice.fetched <= now /\ (ice.count > 0 => ice.exp = ice.fetched + (IceTtl - IceGrace))
    /\ ServedIceConfigsFresh

\* Nothing is made to last longer, and nothing older than its time to live is served.
LEMMA LentStep == TypeOK /\ LentInv /\ [Next]_vars => LentInv'
<1> SUFFICES ASSUME TypeOK, LentInv, [Next]_vars
             PROVE  LentInv'
  OBVIOUS
<1>n. /\ now \in Nat /\ now' \in Nat /\ now' >= now /\ CredLife \in Nat /\ IceTtl \in Nat
      /\ IceGrace \in Nat /\ IceGrace <= IceTtl /\ IceTtl - IceGrace \in Nat
  <2>1. CredLife \in Nat /\ IceTtl \in Nat /\ IceGrace \in Nat /\ IceGrace <= IceTtl
        /\ MaxTime \in Nat
    BY SignalingAssumption
  <2>2. now \in 0..MaxTime /\ now' \in Nat /\ now' >= now
    BY ClockStep DEF TypeOK
  <2>3. QED
    BY <2>1, <2>2
<1> USE DEF LentInv, LentTypeOK, CredentialsNotOverstated, ServedIceConfigsFresh, HttpOk, NoFault,
            envVars
<1>1. CASE UNCHANGED lentVars
  BY <1>1, <1>n DEF lentVars
<1>2. CASE ConnectServers
  BY <1>2, <1>n DEF ConnectServers, NoCreds
<1>3. CASE FetchTemporaryCredentials
  BY <1>3, <1>n DEF FetchTemporaryCredentials, Fetched
<1>4. CASE FetchRefusedHalfway
  BY <1>4, <1>n DEF FetchRefusedHalfway, Fetched, Fault
<1>5. CASE QueryIceServerConfigs
  <2>1. served' = served \/ (served' = now - ice.fetched /\ ice.count > 0 /\ ice.exp >= now)
    BY <1>5 DEF QueryIceServerConfigs, IceConfigsUsable
  <2>2. served' \in Nat /\ served' <= IceTtl
    BY <1>n, <2>1
  <2>3. QED
    BY <1>5, <1>n, <2>2 DEF QueryIceServerConfigs
<1>6. CASE GetIceServerConfigs
  <2>1. /\ ice' = [count |-> 1, exp |-> now + (IceTtl - IceGrace), fetched |-> now]
        /\ served' \in {0, served} /\ creds' = creds /\ now' = now
    BY <1>6 DEF GetIceServerConfigs, UpdateIceServerConfigs
  <2>2. QED
    BY <1>n, <2>1
<1>7. QED
  BY <1>1, <1>2, <1>3, <1>4, <1>5, <1>6, LentChanges

------------------------------------------------------------------------------
(* The connection to the service. *)

WsTypeOK ==
    /\ ws \in Websockets /\ idle \in 0..PingInterval
    /\ leaks \in [tls : Nat, ctx : Nat] /\ excuses \in [tls : Nat, ctx : Nat]

WsInv == WsTypeOK /\ EstablishedIsComplete /\ LeaksExplained

\* What the helpers leave of a connection.
LEMMA WebsocketFacts ==
    ASSUME NEW w \in Websockets
    PROVE  /\ Disconnected(w).est = FALSE /\ Disconnected(w).ctx = FALSE
           /\ Disconnected(w).tls = IF w.est THEN "freed" ELSE w.tls
           /\ ~w.est => \A step \in {"tls", "upgrade"} \cup LateSteps :
                  /\ FailedConnect(w, step).est = FALSE /\ FailedConnect(w, step).tls # "open"
                  /\ (step \notin LateSteps => FailedConnect(w, step).ctx = w.ctx)
<1>1. /\ Disconnected(w).est = FALSE /\ Disconnected(w).ctx = FALSE
      /\ Disconnected(w).tls = IF w.est THEN "freed" ELSE w.tls
  BY DEF Websockets, Disconnected, TlsDisconnect
<1>2. ASSUME ~w.est, NEW step \in {"tls", "upgrade"} \cup LateSteps
      PROVE  /\ FailedConnect(w, step).est = FALSE /\ FailedConnect(w, step).tls # "open"
             /\ (step \notin LateSteps => FailedConnect(w, step).ctx = w.ctx)
  BY <1>2 DEF Websockets, FailedConnect, TlsDisconnect, LateSteps
<1>3. QED
  BY <1>1, <1>2

\* An established connection stays complete, and what is overwritten is excused.
LEMMA WsStep == TypeOK /\ WsInv /\ [Next]_vars => WsInv'
<1> SUFFICES ASSUME TypeOK, WsInv, [Next]_vars
             PROVE  WsInv'
  OBVIOUS
<1> USE DEF WsInv, WsTypeOK, EstablishedIsComplete, LeaksExplained
<1>t. /\ PingInterval \in Nat \ {0} /\ ws \in Websockets /\ idle \in 0..PingInterval
      /\ leaks.tls \in Nat /\ leaks.ctx \in Nat /\ excuses.tls \in Nat /\ excuses.ctx \in Nat
      /\ TlsLost(ws) \in {0, 1} /\ CtxLost(ws) \in {0, 1}
  BY SignalingAssumption, WebsocketTypes
<1>1. CASE UNCHANGED wsVars
  BY <1>1 DEF wsVars
<1>2. CASE WebsocketConnect
  <2>1. CASE ws.est /\ UNCHANGED <<ws, idle, leaks, excuses>>
    BY <2>1
  <2>2. CASE ~ws.est /\ ~UNCHANGED <<ws, idle, leaks, excuses>>
    <3>1. PICK wake \in {"open", "stale"} :
            /\ ws' = [ctx |-> TRUE, wake |-> wake, est |-> TRUE, close |-> FALSE, tls |-> "open"]
            /\ idle' = 0 /\ excuses' = excuses
            /\ leaks' = [tls |-> leaks.tls + TlsLost(ws), ctx |-> leaks.ctx + CtxLost(ws)]
      BY <1>2, <2>2 DEF WebsocketConnect
    <3>2. WsTypeOK'
      <4>1. ws' \in Websockets
        BY <3>1 DEF Websockets
      <4>2. leaks' \in [tls : Nat, ctx : Nat]
        BY <1>t, <3>1
      <4>3. QED
        BY <1>t, <3>1, <4>1, <4>2
    <3>3. EstablishedIsComplete'
      BY <3>1
    <3>4. LeaksExplained'
      BY <2>2, <3>1 DEF TlsLost, CtxLost
    <3>5. QED
      BY <3>2, <3>3, <3>4
  <2>3. QED
    BY <1>2, <2>1, <2>2 DEF WebsocketConnect
<1>3. ASSUME NEW step \in {"tls", "upgrade"} \cup LateSteps, WebsocketConnectFail(step)
      PROVE  WsInv'
  <2> DEFINE late == IF step \in LateSteps THEN 1 ELSE 0
  <2>1. /\ ~ws.est /\ ws' = FailedConnect(ws, step) /\ idle' = idle
        /\ leaks' = [tls |-> leaks.tls + TlsLost(ws),
                     ctx |-> leaks.ctx + (IF step \in LateSteps THEN CtxLost(ws) ELSE 0)]
        /\ excuses' = [excuses EXCEPT !.ctx = @ + late]
    BY <1>3 DEF WebsocketConnectFail
  <2>2. /\ ws'.est = FALSE /\ ws'.tls # "open" /\ (step \notin LateSteps => ws'.ctx = ws.ctx)
    BY <2>1, WebsocketFacts
  <2>3. WsTypeOK'
    <3>1. ws' \in Websockets
      BY <1>t, <2>1, WebsocketTypes
    <3>2. leaks' \in [tls : Nat, ctx : Nat]
      BY <1>t, <2>1
    <3>3. late \in Nat /\ excuses' \in [tls : Nat, ctx : Nat]
      BY <1>t, <2>1
    <3>4. QED
      BY <1>t, <2>1, <3>1, <3>2, <3>3
  <2>4. LeaksExplained'
    <3>1. leaks'.tls = leaks.tls + TlsLost(ws) /\ excuses'.tls = excuses.tls
      BY <2>1
    <3>2. /\ leaks'.ctx = leaks.ctx + (IF step \in LateSteps THEN CtxLost(ws) ELSE 0)
          /\ excuses'.ctx = excuses.ctx + late
      BY <2>1
    <3>3. leaks'.tls <= excuses'.tls
      BY <2>1, <3>1 DEF TlsLost
    <3>4. leaks'.ctx + (IF ws'.ctx THEN 1 ELSE 0) <= excuses'.ctx
      <4>1. CASE step \in LateSteps
        BY <1>t, <2>1, <3>2, <4>1 DEF CtxLost
      <4>2. CASE step \notin LateSteps
        BY <1>t, <2>1, <2>2, <3>2, <4>2
      <4>3. QED
        BY <4>1, <4>2
    <3>5. QED
      BY <2>2, <2>3, <3>3, <3>4
  <2>5. QED
    BY <2>2, <2>3, <2>4
<1>4. CASE /\ ws' \in {Disconnected(ws), [ws EXCEPT !.close = TRUE], ws}
           /\ UNCHANGED <<leaks, excuses>>
           /\ \/ idle' \in {0, idle}
              \/ idle' = idle + 1 /\ idle + 1 < PingInterval
  <2>1. WsTypeOK'
    <3>1. ws' \in Websockets
      BY <1>4, <1>t, WebsocketTypes
    <3>2. idle' \in 0..PingInterval
      BY <1>4, <1>t
    <3>3. QED
      BY <1>4, <3>1, <3>2
  <2>2. CASE ws' = Disconnected(ws)
    <3>1. ws'.est = FALSE /\ ws'.ctx = FALSE /\ ws'.tls = IF ws.est THEN "freed" ELSE ws.tls
      BY <1>t, <2>2, WebsocketFacts
    <3>2. QED
      BY <1>4, <1>t, <2>1, <3>1
  <2>3. CASE ws' \in {[ws EXCEPT !.close = TRUE], ws}
    <3>1. ws'.est = ws.est /\ ws'.ctx = ws.ctx /\ ws'.tls = ws.tls
      BY <2>3 DEF Websockets
    <3>2. QED
      BY <1>4, <2>1, <3>1
  <2>4. QED
    BY <1>4, <2>2, <2>3
<1>5. CASE RecvReadFails
  <2> DEFINE w == [ws EXCEPT !.est = FALSE]
  <2>1. /\ ws.est /\ ws' = Disconnected(w) /\ excuses' = [excuses EXCEPT !.tls = @ + 1]
        /\ leaks' = leaks /\ idle' = idle
    BY <1>5 DEF RecvReadFails, RecvFails
  <2>2. w \in Websockets /\ w.est = FALSE /\ w.tls = "open"
    BY <2>1, WebsocketTypes DEF Websockets
  <2>3. ws' \in Websockets /\ ws'.est = FALSE /\ ws'.ctx = FALSE /\ ws'.tls = "open"
    BY <2>1, <2>2, WebsocketTypes, WebsocketFacts
  <2>4. QED
    BY <2>1, <2>3
<1>6. QED
  BY <1>1, <1>2, <1>3, <1>4, <1>5, WsChanges
------------------------------------------------------------------------------
(* The messages of a queue. *)

Sends(q) == {i \in 1..Len(q) : q[i].kind = "send"}
Msgs(q) == {q[i].msg : i \in Sends(q)}
InOrder(q) == \A i, j \in Sends(q) : i < j => q[i].msg < q[j].msg

\* An event is a message with its number or a control event.
LEMMA EventFacts ==
    /\ \A e \in Events : e.kind = "send" => e.msg \in 1..MaxCalls
    /\ \A m : SendEvent(m).kind = "send" /\ SendEvent(m).msg = m
    /\ ReconnectEvent.kind # "send" /\ RefreshEvent.kind # "send"
  BY DEF Events, SendEvent, ReconnectEvent, RefreshEvent

\* There are no more messages than events.
LEMMA MsgsBound ==
    ASSUME NEW q \in Seq(Events)
    PROVE  /\ Msgs(q) \subseteq 1..MaxCalls
           /\ IsFiniteSet(Msgs(q)) /\ Cardinality(Msgs(q)) <= Len(q)
           /\ Cardinality(Msgs(q)) \in Nat
<1> DEFINE f == [i \in Sends(q) |-> q[i].msg]
<1>1. Len(q) \in Nat /\ Sends(q) \subseteq 1..Len(q)
  BY DEF Sends
<1>2. IsFiniteSet(1..Len(q)) /\ Cardinality(1..Len(q)) = Len(q)
  <2>1. /\ IsFiniteSet(1..Len(q))
        /\ Cardinality(1..Len(q)) = IF 1 > Len(q) THEN 0 ELSE Len(q) - 1 + 1
    BY <1>1, FS_Interval
  <2>2. QED
    BY <1>1, <2>1
<1>3. IsFiniteSet(Sends(q)) /\ Cardinality(Sends(q)) <= Len(q)
  BY <1>1, <1>2, FS_Subset
<1>4. f \in Surjection(Sends(q), Msgs(q))
  BY DEF Surjection, Msgs
<1>5. IsFiniteSet(Msgs(q)) /\ Cardinality(Msgs(q)) <= Cardinality(Sends(q))
  BY <1>3, <1>4, FS_Surjection
<1>6. Cardinality(Msgs(q)) \in Nat /\ Cardinality(Sends(q)) \in Nat
  BY <1>3, <1>5, FS_CardinalityType
<1>7. Msgs(q) \subseteq 1..MaxCalls
  BY EventFacts DEF Msgs, Sends
<1>8. QED
  BY <1>1, <1>3, <1>5, <1>6, <1>7

\* An event is added to the end.
LEMMA MsgsAppend ==
    ASSUME NEW q \in Seq(Events), NEW e \in Events
    PROVE  /\ Msgs(Append(q, e)) = IF e.kind = "send" THEN Msgs(q) \cup {e.msg} ELSE Msgs(q)
           /\ InOrder(q) /\ (e.kind = "send" => \A m \in Msgs(q) : m < e.msg)
                => InOrder(Append(q, e))
<1> DEFINE r == Append(q, e)  n == Len(q) + 1
<1>1. /\ Len(q) \in Nat /\ Len(r) = n /\ r[n] = e /\ \A i \in 1..Len(q) : r[i] = q[i]
  OBVIOUS
<1> HIDE DEF r
<1>2. Sends(r) = IF e.kind = "send" THEN Sends(q) \cup {n} ELSE Sends(q)
  BY <1>1 DEF Sends
<1>3. \A i \in Sends(q) : i \in Nat /\ r[i] = q[i] /\ i < n
  BY <1>1 DEF Sends
<1>4. Msgs(r) = IF e.kind = "send" THEN Msgs(q) \cup {e.msg} ELSE Msgs(q)
  BY <1>1, <1>2, <1>3 DEF Msgs
<1>5. ASSUME InOrder(q), e.kind = "send" => \A m \in Msgs(q) : m < e.msg
      PROVE  InOrder(r)
  <2> SUFFICES ASSUME NEW i \in Sends(r), NEW j \in Sends(r), i < j
               PROVE  r[i].msg < r[j].msg
    BY DEF InOrder
  <2>1. i \in Sends(q)
    BY <1>1, <1>2, <1>3
  <2>2. CASE j \in Sends(q)
    BY <1>3, <1>5, <2>1, <2>2 DEF InOrder
  <2>3. CASE j \notin Sends(q)
    BY <1>1, <1>2, <1>3, <1>5, <2>1, <2>3 DEF Msgs
  <2>4. QED
    BY <2>2, <2>3
<1>6. QED
  BY <1>4, <1>5 DEF r

\* The first event is taken off: the oldest message, or none.
LEMMA MsgsTail ==
    ASSUME NEW q \in Seq(Events), q # <<>>, InOrder(q)
    PROVE  /\ InOrder(Tail(q))
           /\ Head(q).kind # "send" => Msgs(Tail(q)) = Msgs(q)
           /\ Head(q).kind = "send" =>
                  /\ Head(q).msg \in Msgs(q) /\ Msgs(Tail(q)) = Msgs(q) \ {Head(q).msg}
                  /\ \A m \in Msgs(q) : m # Head(q).msg => Head(q).msg < m
<1> DEFINE r == Tail(q)
<1>1. /\ Len(q) \in Nat /\ Len(r) = Len(q) - 1 /\ Head(q) = q[1] /\ 1 \in 1..Len(q)
      /\ \A i \in 1..Len(r) : i + 1 \in 1..Len(q) /\ r[i] = q[i + 1]
      /\ \A i \in 1..Len(q) : i # 1 => i - 1 \in 1..Len(r) /\ r[i - 1] = q[i]
  OBVIOUS
<1> HIDE DEF r
<1>2. \A i \in Sends(r) : i \in Nat /\ i + 1 \in Sends(q) /\ r[i] = q[i + 1] /\ i + 1 > 1
  BY <1>1 DEF Sends
<1>3. \A i \in Sends(q) : i # 1 => i \in Nat /\ i > 1 /\ i - 1 \in Sends(r) /\ r[i - 1] = q[i]
  BY <1>1 DEF Sends
<1>4. InOrder(r)
  BY <1>2 DEF InOrder
<1>5. 1 \in Sends(q) <=> Head(q).kind = "send"
  BY <1>1 DEF Sends
<1>6. \A m : m \in Msgs(r) <=> \E i \in Sends(q) : i # 1 /\ q[i].msg = m
  <2>1. ASSUME NEW m \in Msgs(r)
        PROVE  \E i \in Sends(q) : i # 1 /\ q[i].msg = m
    BY <1>2 DEF Msgs
  <2>2. ASSUME NEW i \in Sends(q), i # 1
        PROVE  q[i].msg \in Msgs(r)
    BY <1>3, <2>2 DEF Msgs
  <2>3. QED
    BY <2>1, <2>2
<1>7. CASE Head(q).kind # "send"
  <2>1. \A m : m \in Msgs(r) <=> m \in Msgs(q)
    BY <1>5, <1>6, <1>7, ZenonT(30) DEF Msgs
  <2>2. QED
    BY <1>4, <1>7, <2>1 DEF r
<1>8. CASE Head(q).kind = "send"
  <2>1. \A i \in Sends(q) : i # 1 => Head(q).msg < q[i].msg /\ q[i].msg \in Int
        /\ Head(q).msg \in Int
    <3>1. \A i \in Sends(q) : q[i].msg \in 1..MaxCalls
      BY EventFacts DEF Sends
    <3>2. \A i \in Sends(q) : i # 1 => q[1].msg < q[i].msg
      BY <1>3, <1>5, <1>8 DEF InOrder
    <3>3. 1 \in Sends(q) /\ Head(q) = q[1]
      BY <1>1, <1>5, <1>8
    <3>4. QED
      BY <3>1, <3>2, <3>3
  <2>2. Head(q).msg \in Msgs(q)
    BY <1>1, <1>5, <1>8 DEF Msgs
  <2>3. \A m \in Msgs(q) : m # Head(q).msg => Head(q).msg < m
    BY <1>1, <2>1 DEF Msgs
  <2>4. \A m : m \in Msgs(r) <=> m \in Msgs(q) /\ m # Head(q).msg
    <3>1. \A i \in Sends(q) : i # 1 => q[i].msg # Head(q).msg
      BY <2>1
    <3>2. \A m : m \in Msgs(q) <=> \E i \in Sends(q) : q[i].msg = m
      BY DEF Msgs
    <3>3. QED
      BY <1>1, <1>6, <3>1, <3>2
  <2>5. QED
    BY <1>4, <1>8, <2>2, <2>3, <2>4 DEF r
<1>9. QED
  BY <1>7, <1>8
------------------------------------------------------------------------------
(* The refinement of MessageService. *)

\* Messages wait in the order of their numbers, after those that were completed.
MsgInv ==
    /\ InOrder(queue)
    /\ \A m \in Msgs(queue) : m <= calls
    /\ \A i \in 1..Len(completed) : completed[i].msg <= calls
    /\ \A i \in 1..Len(completed) : \A m \in Msgs(queue) : completed[i].msg < m

\* The refinement mapping in these terms.
LEMMA MsgsOfSeq ==
    ASSUME NEW q \in Seq(Events)
    PROVE  {q[i].msg : i \in {j \in DOMAIN q : q[j].kind = "send"}} = Msgs(q)
  BY DEF Msgs, Sends

\* Where the device halts nothing else happens.
LEMMA HaltedChanges ==
    TypeOK /\ [Next]_vars => \/ UNCHANGED halted
                             \/ halted' = TRUE /\ UNCHANGED queueVars
<1> SUFFICES ASSUME TypeOK, [Next]_vars
             PROVE  UNCHANGED halted \/ (halted' = TRUE /\ UNCHANGED queueVars)
  OBVIOUS
<1> USE DEF Goto
<1>1. CASE HttpFail \/ FetchRefusedHalfway \/ JoinStorageSession \/ WebsocketConnect
  BY <1>1, ControlTypes DEF HttpFail, FetchRefusedHalfway, JoinStorageSession, WebsocketConnect
<1>2. ASSUME NEW step \in {"tls", "upgrade"} \cup LateSteps, WebsocketConnectFail(step)
      PROVE  UNCHANGED halted
  BY <1>2, ControlTypes DEF WebsocketConnectFail
<1>3. CASE HttpNullSocket \/ NullContextFault
  BY <1>3 DEF HttpNullSocket, NullContextFault
<1>4. ASSUME NEW kind \in {"reconnect", "refreshIce", "offer", "close"}, HandleWssMessage(kind)
      PROVE  UNCHANGED halted
  BY <1>4 DEF HandleWssMessage
<1>5. CASE RecvReturns \/ RecvPingOrSelectFails \/ RecvReadFails \/ RecvWhileDown
  BY <1>5 DEF RecvReturns, RecvPingOrSelectFails, RecvReadFails, RecvWhileDown, RecvFails
<1>6. QED
  BY <1>1, <1>2, <1>3, <1>4, <1>5
     DEF Next, vars, TaskStep, Task, Tick, SendMessage, HttpRetry, ConnectServers, CheckCredentials,
         FetchTemporaryCredentials, DescribeSignalingChannel, GetSignalingChannelEndpoints,
         QueryIceServerConfigs, GetIceServerConfigs, RetryDelay, HandleSendEvent,
         HandleReconnectEvent, HandleRefreshEvent, RefreshDisconnect, RefreshRetryOrGiveUp,
         QueueDrained

\* What a step does to the messages: nothing, accept the next number, or complete the
\* oldest one.
MessageStep ==
    \/ Msgs(queue') = Msgs(queue) /\ UNCHANGED completed /\ calls' >= calls
    \/ /\ calls' = calls + 1 /\ calls' \in 1..MaxCalls /\ Len(queue) < QueueCapacity
       /\ Msgs(queue') = Msgs(queue) \cup {calls'} /\ UNCHANGED completed
    \/ \E m \in Msgs(queue), status \in {"SENT_DONE", "SENT_FAIL"} :
          /\ ~halted /\ \A n \in Msgs(queue) : m # n => m < n
          /\ Msgs(queue') = Msgs(queue) \ {m}
          /\ completed' = Append(completed, [msg |-> m, status |-> status]) /\ calls' = calls

LEMMA MessageChanges ==
    TypeOK /\ MsgInv /\ [Next]_vars => InOrder(queue') /\ MessageStep
<1> SUFFICES ASSUME TypeOK, MsgInv, [Next]_vars
             PROVE  InOrder(queue') /\ MessageStep
  OBVIOUS
<1>t. /\ queue \in Seq(Events) /\ InOrder(queue) /\ calls \in 0..MaxCalls /\ calls \in Nat
      /\ MaxCalls \in Nat /\ \A m \in Msgs(queue) : m <= calls
  BY QueueTypes, SignalingAssumption DEF MsgInv, TypeOK
<1>1. CASE UNCHANGED queueVars
  BY <1>1, <1>t DEF queueVars, MessageStep
<1>2. CASE SendMessage
  <2>1. calls' = calls + 1 /\ calls' \in 1..MaxCalls /\ completed' = completed
    BY <1>2, <1>t DEF SendMessage
  <2>2. CASE Len(queue) < QueueCapacity
    <3>1. queue' = Append(queue, SendEvent(calls')) /\ SendEvent(calls') \in Events
      BY <1>2, <2>1, <2>2 DEF SendMessage, Events
    <3>2. \A m \in Msgs(queue) : m < calls'
      BY <1>t, <2>1, MsgsBound
    <3>3. Msgs(queue') = Msgs(queue) \cup {calls'} /\ InOrder(queue')
      BY <1>t, <3>1, <3>2, MsgsAppend, EventFacts
    <3>4. QED
      BY <2>1, <2>2, <3>3 DEF MessageStep
  <2>3. CASE ~(Len(queue) < QueueCapacity)
    BY <1>2, <1>t, <2>1, <2>3 DEF SendMessage, MessageStep
  <2>4. QED
    BY <2>2, <2>3
<1>3. ASSUME NEW kind \in {"reconnect", "refreshIce", "offer", "close"}, HandleWssMessage(kind)
      PROVE  InOrder(queue') /\ MessageStep
  <2>1. UNCHANGED <<calls, completed>>
    BY <1>3 DEF HandleWssMessage
  <2>2. queue' = queue
        \/ (kind \in {"reconnect", "refreshIce"} /\ queue' = Append(queue, [kind |-> kind]))
    BY <1>3 DEF HandleWssMessage
  <2>3. kind \in {"reconnect", "refreshIce"} =>
          [kind |-> kind] \in Events /\ [kind |-> kind].kind # "send"
    BY DEF Events, ReconnectEvent, RefreshEvent
  <2>4. InOrder(queue') /\ Msgs(queue') = Msgs(queue)
    BY <1>t, <2>2, <2>3, MsgsAppend
  <2>5. QED
    BY <1>t, <2>1, <2>4 DEF MessageStep
<1>4. ASSUME Running, NEW status \in {"SENT_DONE", "SENT_FAIL"}, HandleSendEvent(status)
      PROVE  InOrder(queue') /\ MessageStep
  <2>1. /\ queue # <<>> /\ Head(queue).kind = "send" /\ queue' = Tail(queue) /\ calls' = calls
        /\ completed' = Append(completed, [msg |-> Head(queue).msg, status |-> status])
    BY <1>4 DEF HandleSendEvent
  <2>2. /\ InOrder(queue') /\ Head(queue).msg \in Msgs(queue)
        /\ Msgs(queue') = Msgs(queue) \ {Head(queue).msg}
        /\ \A m \in Msgs(queue) : m # Head(queue).msg => Head(queue).msg < m
    BY <1>t, <2>1, MsgsTail
  <2>3. QED
    BY <1>4, <2>1, <2>2 DEF MessageStep, Running
<1>5. CASE HandleReconnectEvent \/ HandleRefreshEvent
  <2>1. /\ queue # <<>> /\ Head(queue).kind # "send" /\ queue' = Tail(queue)
        /\ UNCHANGED <<calls, completed>>
    BY <1>5 DEF HandleReconnectEvent, HandleRefreshEvent
  <2>2. InOrder(queue') /\ Msgs(queue') = Msgs(queue)
    BY <1>t, <2>1, MsgsTail
  <2>3. QED
    BY <1>t, <2>1, <2>2 DEF MessageStep
<1>6. QED
  BY <1>1, <1>2, <1>3, <1>4, <1>5, QueueChanges

LEMMA ElementOfSeq ==
    ASSUME NEW S, NEW q \in Seq(S), NEW i \in 1..Len(q)
    PROVE  q[i] \in S
  OBVIOUS

\* The messages stay in order.
LEMMA MsgStep == TypeOK /\ MsgInv /\ [Next]_vars => MsgInv'
<1> SUFFICES ASSUME TypeOK, MsgInv, [Next]_vars
             PROVE  MsgInv'
  OBVIOUS
<1>t. /\ calls \in Nat /\ Msgs(queue) \subseteq Nat
      /\ completed \in Seq([msg : 1..MaxCalls, status : {"SENT_DONE", "SENT_FAIL"}])
      /\ \A i \in 1..Len(completed) : completed[i].msg \in Nat
  <2>1. calls \in Nat /\ completed \in Seq([msg : 1..MaxCalls, status : {"SENT_DONE", "SENT_FAIL"}])
    BY SignalingAssumption DEF TypeOK
  <2>2. Msgs(queue) \subseteq Nat
    BY QueueTypes, MsgsBound
  <2>3. \A i \in 1..Len(completed) : completed[i].msg \in Nat
    <3>1. \A i \in 1..Len(completed) :
             completed[i] \in [msg : 1..MaxCalls, status : {"SENT_DONE", "SENT_FAIL"}]
      BY <2>1, ElementOfSeq
    <3>2. QED
      BY <3>1
  <2>4. QED
    BY <2>1, <2>2, <2>3
<1>1. InOrder(queue') /\ MessageStep
  BY MessageChanges
<1>2. CASE Msgs(queue') = Msgs(queue) /\ UNCHANGED completed /\ calls' >= calls
  BY <1>1, <1>2, <1>t, QueueStep DEF MsgInv
<1>3. CASE /\ calls' = calls + 1 /\ Msgs(queue') = Msgs(queue) \cup {calls'} /\ UNCHANGED completed
  BY <1>1, <1>3, <1>t DEF MsgInv
<1>4. ASSUME NEW m \in Msgs(queue), NEW status \in {"SENT_DONE", "SENT_FAIL"},
             \A n \in Msgs(queue) : m # n => m < n, Msgs(queue') = Msgs(queue) \ {m},
             completed' = Append(completed, [msg |-> m, status |-> status]), calls' = calls
      PROVE  MsgInv'
  <2>1. /\ Len(completed') = Len(completed) + 1 /\ Len(completed) \in Nat
        /\ \A i \in 1..Len(completed) : completed'[i] = completed[i]
        /\ completed'[Len(completed) + 1].msg = m
    BY <1>t, <1>4
  <2>2. \A i \in 1..Len(completed') : i \in 1..Len(completed) \/ i = Len(completed) + 1
    BY <2>1
  <2>3. QED
    BY <1>1, <1>4, <2>1, <2>2 DEF MsgInv
<1>5. QED
  BY <1>1, <1>2, <1>3, <1>4 DEF MessageStep

\* Every step is a step of the service or leaves it alone.
LEMMA ServiceStep == TypeOK /\ TypeOK' /\ MsgInv /\ [Next]_vars => [Service!Next]_(Service!vars)
<1> SUFFICES ASSUME TypeOK, TypeOK', MsgInv, [Next]_vars
             PROVE  [Service!Next]_(Service!vars)
  OBVIOUS
<1>p. Pending = Msgs(queue) /\ Pending' = Msgs(queue')
  <2>1. queue \in Seq(Events) /\ queue' \in Seq(Events)
    BY QueueTypes, QueueStep
  <2>2. QED
    BY <2>1, MsgsOfSeq DEF Pending
<1>t. /\ queue \in Seq(Events) /\ Len(queue) \in Nat /\ Cardinality(Pending) \in Nat
      /\ Cardinality(Pending) <= Len(queue) /\ Pending \subseteq 1..MaxCalls
      /\ QueueCapacity \in Nat /\ calls \in Nat
  <2>1. queue \in Seq(Events) /\ Len(queue) \in Nat
    BY QueueTypes
  <2>2. /\ Cardinality(Pending) \in Nat /\ Cardinality(Pending) <= Len(queue)
        /\ Pending \subseteq 1..MaxCalls
    BY <2>1, <1>p, MsgsBound
  <2>3. QueueCapacity \in Nat /\ calls \in Nat
    BY SignalingAssumption DEF TypeOK
  <2>4. QED
    BY <2>1, <2>2, <2>3
<1>c. /\ DOMAIN completed = 1..Len(completed)
      /\ \A i \in 1..Len(completed) : completed[i].msg \in Nat
  <2>1. completed \in Seq([msg : 1..MaxCalls, status : {"SENT_DONE", "SENT_FAIL"}])
    BY DEF TypeOK
  <2>2. \A i \in 1..Len(completed) :
           completed[i] \in [msg : 1..MaxCalls, status : {"SENT_DONE", "SENT_FAIL"}]
    BY <2>1, ElementOfSeq
  <2>3. MaxCalls \in Nat
    BY SignalingAssumption
  <2>4. QED
    BY <2>1, <2>2, <2>3
<1>1. CASE halted' # halted
  <2>1. halted' = TRUE /\ UNCHANGED queueVars
    BY <1>1, HaltedChanges
  <2>2. Pending' = Pending /\ completed' = completed
    BY <2>1 DEF queueVars, Pending
  <2>3. QED
    BY <2>1, <2>2 DEF Service!Next, Service!Halt
<1>2. CASE halted' = halted
  <2>1. MessageStep
    BY MessageChanges
  <2>2. CASE Msgs(queue') = Msgs(queue) /\ UNCHANGED completed /\ calls' >= calls
    BY <1>p, <1>2, <2>2 DEF Service!vars
  <2>3. CASE /\ calls' = calls + 1 /\ calls' \in 1..MaxCalls /\ Len(queue) < QueueCapacity
             /\ Msgs(queue') = Msgs(queue) \cup {calls'} /\ UNCHANGED completed
    <3>1. \A n \in Service!Known : n < calls'
      BY <1>p, <1>t, <1>c, <2>3 DEF Service!Known, MsgInv
    <3>2. Cardinality(Pending) < QueueCapacity
      BY <1>t, <2>3
    <3>3. Pending' = Pending \cup {calls'}
      BY <1>p, <2>3
    <3>4. PICK m \in 1..MaxCalls : m = calls'
      BY <2>3
    <3>5. Service!Accept(m)
      <4>1. Service!Cardinality(Pending) = Cardinality(Pending)
        BY DEF Cardinality, Service!Cardinality, IsFiniteSet, Service!IsFiniteSet
      <4>2. QED
        BY <1>2, <2>3, <3>1, <3>2, <3>3, <3>4, <4>1 DEF Service!Accept
    <3>6. QED
      BY <3>4, <3>5 DEF Service!Next
  <2>4. ASSUME NEW m \in Msgs(queue), NEW status \in {"SENT_DONE", "SENT_FAIL"},
               ~halted, \A n \in Msgs(queue) : m # n => m < n, Msgs(queue') = Msgs(queue) \ {m},
               completed' = Append(completed, [msg |-> m, status |-> status])
        PROVE  Service!Next
    <3>1. m \in 1..MaxCalls /\ \A n \in Pending : m <= n
      BY <1>p, <1>t, <2>4
    <3>2. Service!Complete(m, status)
      BY <1>p, <1>2, <2>4, <3>1 DEF Service!Complete
    <3>3. QED
      BY <3>1, <3>2 DEF Service!Next, Service!CompleteOldest, Service!Status
  <2>5. QED
    BY <2>1, <2>2, <2>3, <2>4 DEF MessageStep
<1>3. QED
  BY <1>1, <1>2

------------------------------------------------------------------------------
(* The theorems. *)

IInv == TypeOK /\ LentInv /\ WsInv /\ MsgInv

\* The controller starts with nothing lent, open or waiting.
LEMMA InitIInv == Init => IInv
<1> SUFFICES ASSUME Init
             PROVE  IInv
  OBVIOUS
<1> USE SignalingAssumption
<1>1. LentInv
  BY DEF Init, LentInv, LentTypeOK, CredentialsNotOverstated, ServedIceConfigsFresh, NoCreds
<1>2. WsInv
  BY DEF Init, WsInv, WsTypeOK, EstablishedIsComplete, LeaksExplained, WebsocketDown, Websockets
<1>3. MsgInv
  BY DEF Init, MsgInv, InOrder, Msgs, Sends
<1>4. ControlTypeOK
  <2>1. 0 \in 0..NumRetries
    OBVIOUS
  <2>2. pc \in PCs
    BY DEF Init, PCs
  <2>3. QED
    BY <2>1, <2>2 DEF Init, ControlTypeOK
<1>5. TypeOK
  BY <1>1, <1>2, <1>4
     DEF Init, TypeOK, LentInv, LentTypeOK, WsInv, WsTypeOK, Websockets, ControlTypeOK
<1>6. QED
  BY <1>1, <1>2, <1>3, <1>5 DEF IInv

\* The parts of the invariant are kept by the parts of a step.
LEMMA IInvStep == IInv /\ [Next]_vars => IInv'
<1> SUFFICES ASSUME IInv, [Next]_vars
             PROVE  IInv'
  OBVIOUS
<1>1. LentInv' /\ WsInv' /\ MsgInv'
  BY LentStep, WsStep, MsgStep DEF IInv
<1>2. ControlTypeOK'
  BY ControlStep DEF IInv
<1>3. TypeOK'
  BY <1>1, <1>2, ClockStep, QueueStep
     DEF IInv, TypeOK, LentInv, LentTypeOK, WsInv, WsTypeOK, Websockets, ControlTypeOK, Events
<1>4. QED
  BY <1>1, <1>3 DEF IInv

LEMMA IInvAlways == Spec => []IInv
  BY InitIInv, IInvStep, PTL DEF Spec

\* The variables keep their types, sendMessageQueue its capacity and the retry loops
\* their number of attempts.
THEOREM TypeCorrect == Spec => []TypeOK
<1>1. IInv => TypeOK
  BY DEF IInv
<1>2. QED
  BY IInvAlways, <1>1, PTL

\* The expiration that is compared with the clock is never later than that of the keys in
\* use, and a session never gets ICE servers older than their time to live.
THEOREM NothingOutlivedAlways == Spec => []NothingOutlived
<1>1. IInv => NothingOutlived
  BY DEF IInv, LentInv, NothingOutlived
<1>2. QED
  BY IInvAlways, <1>1, PTL

\* A connection that counts as established has its wslay context and its TLS socket, and
\* no TLS connection or context is lost but by a failed read or a late failed connect.
THEOREM ConnectionsAccountedAlways == Spec => []ConnectionsAccounted
<1>1. IInv => ConnectionsAccounted
  BY DEF IInv, WsInv, ConnectionsAccounted
<1>2. QED
  BY IInvAlways, <1>1, PTL

\* The task implements the safety part of MessageService: a message that
\* SignalingController_SendMessage has accepted completes at most once, in the order of
\* the calls, whatever happens to the connection.
THEOREM ImplementsMessageService == Spec => Service!Safety
<1>1. Init => Service!Init
  BY DEF Init, Service!Init, Pending
<1>2. IInv /\ IInv' /\ [Next]_vars => [Service!Next]_(Service!vars)
  BY ServiceStep DEF IInv
<1>3. QED
  BY IInvAlways, <1>1, <1>2, PTL DEF Spec, Service!Safety
==============================================================================

-------------------------------- MODULE Master --------------------------------
(***************************************************************************)
(* The start of the master (master.c, app_common.c): Master_Task sets up   *)
(* the application and IoTConnect, makes the signaling task and waits for  *)
(* its first connection, after which it deletes itself; if a step fails it *)
(* cleans up and idles.  The signaling task uses what IoTConnect has       *)
(* discovered: the region and the address of the credentials; a message of *)
(* a viewer starts a session with the ICE servers of IceServers and is     *)
(* answered as in SdpNegotiation.                                          *)
(***************************************************************************)
EXTENDS IoTConnect, IceServers, SdpNegotiation

CONSTANT ConfigLists \* the lists of ICE server configurations the service may give

VARIABLES
    signaling, \* SignalingController_Task
    barrier,   \* APP_COMMON_SIGNALING_CONTROLER_START_UP_BARRIER_BIT
    offered,   \* the configurations and the region the list was made from
    iceServers \* the list: pcConfig.iceServers, a local of the start of a session

signalingVars == <<signaling, barrier, offered, iceServers>>
masterVars == <<iotVars, signalingVars, sdpVars>>

NotOffered == [region |-> NULL, configs |-> <<>>]

MasterInit ==
    /\ IoTInit /\ SdpInit
    /\ signaling = "none" /\ barrier = FALSE
    /\ offered = NotOffered /\ iceServers = <<>>

------------------------------------------------------------------------------
(* Master_Task. *)

\* AppCommon_Init and InitializeAppMediaSource.
InitializeApp ==
    /\ at = "boot" /\ at' \in {"init", "stop"}
    /\ UNCHANGED <<isInitialized, isConnected, config, region, mqttVars, telemetry, publishes,
                   signalingVars>>

StartIoTConnect ==
    /\ \/ InitSucceeds("connect") \/ InitFails("stop")
       \/ Connect("stop") \/ Subscribe("stop") \/ CreateTelemetryTask("stop")
       \/ SetConnected("signaling")
    /\ UNCHANGED signalingVars

\* AppCommon_StartSignalingController: the task is made ...
StartSignalingController ==
    /\ at = "signaling"
    /\ \/ signaling' = "starting" /\ at' = "barrier"
       \/ at' = "stop" /\ UNCHANGED signaling
    /\ UNCHANGED <<isInitialized, isConnected, config, region, mqttVars, telemetry, publishes,
                   barrier, offered, iceServers>>

\* Mutant: the wait has a limit.
WaitForBarrier_Limited ==
    /\ at = "barrier"
    /\ at' = IF barrier THEN "deleted" ELSE "stop"
    /\ barrier' = FALSE
    /\ UNCHANGED <<isInitialized, isConnected, config, region, mqttVars, telemetry, publishes,
                   signaling, offered, iceServers>>

\* ... and the barrier waited for without a limit; AppCommon_WaitSignalingControllerStop
\* deletes the calling task, so the cleanup is not reached.
WaitForBarrier ==
    /\ at = "barrier" /\ barrier
    /\ at' = "deleted"
    /\ barrier' = FALSE
    /\ UNCHANGED <<isInitialized, isConnected, config, region, mqttVars, telemetry, publishes,
                   signaling, offered, iceServers>>

MasterTask ==
    \/ InitializeApp \/ StartIoTConnect \/ StartSignalingController \/ WaitForBarrier
    \/ Cleanup("idle") /\ UNCHANGED signalingVars

------------------------------------------------------------------------------
(* SignalingController_Task. *)

\* strlen of the region, which may be NULL: the device faults.  Then the controller
\* listens.
StartListening ==
    /\ signaling = "starting"
    /\ signaling' = IF region = NULL THEN "fault" ELSE "listening"
    /\ UNCHANGED <<iotVars, barrier, offered, iceServers>>

\* OnSignalingConnectionStateChange; the credentials have been fetched by then.
SignalingConnected ==
    /\ signaling = "listening" /\ CanRefreshCredentials
    /\ signaling' = "connected"
    /\ barrier' = TRUE
    /\ UNCHANGED <<iotVars, offered, iceServers>>

\* StartPeerConnectionSession, up to the transceivers.
StartSession ==
    /\ \E configs \in ConfigLists : offered' = [region |-> region, configs |-> configs]
    /\ iceServers' = GetIceServerList(region, offered'.configs)
    /\ UNCHANGED <<iotVars, signaling, barrier>>

\* The list is gone when the session goes on.
ForgetServers ==
    /\ offered' = NotOffered /\ iceServers' = <<>>
    /\ UNCHANGED <<iotVars, signaling, barrier>>

\* A message of the viewer: AppCommon_GetPeerConnectionSession starts a session that is
\* reusable, which may fail, before the message is handled; one that
\* SignalingController_ExtractSdpMessageFromSignalingMessage refuses gets no session.
OnSignalingMessageReceived ==
    /\ signaling = "connected"
    /\ \E message \in Messages :
        \/ peer.state = "INITED" /\ StartSession /\ HandleMessage(message, Started(peer), {})
        \/ peer.state # "INITED" /\ ForgetServers /\ HandleMessage(message, peer, described)
        \/ ForgetServers /\ MessageRefused

SignalingTask ==
    \/ (StartListening \/ SignalingConnected) /\ UNCHANGED sdpVars
    \/ OnSignalingMessageReceived

\* A fault stops every task.
MasterNext ==
    /\ signaling # "fault"
    /\ \/ MasterTask /\ UNCHANGED sdpVars
       \/ SignalingTask
       \/ Telemetry /\ UNCHANGED <<signalingVars, sdpVars>>
       \/ CloseSteps /\ ForgetServers

MasterSpec == MasterInit /\ [][MasterNext]_masterVars

------------------------------------------------------------------------------
(* Properties. *)

\* What a task works with is not taken away from it: the telemetry task publishes on a
\* connected client, the signaling task has its region and the settings until the end,
\* and a master that has given up holds no connection, no task and no settings
\* (Master_Task, IoTConnect_Start, IoTConnect_Stop, IoTConnect_Deinit).
UsersHaveTheirData ==
    /\ telemetry = "publishing" => mqttConnected /\ network # "closed" /\ isInitialized
    /\ signaling \in {"listening", "connected"} => isInitialized /\ region # NULL /\ config # {}
    /\ at = "idle" =>
        /\ network = "closed" /\ ~mqttConnected /\ telemetry = "none"
        /\ config = {} /\ region = NULL /\ ~isConnected /\ ~isInitialized

\* The URIs the list can be made from, in the order of the configurations.
Candidates(configs) ==
    FlattenSeq([i \in DOMAIN configs |->
        [j \in DOMAIN configs[i].uris |-> [config |-> i, uri |-> configs[i].uris[j]]]])

\* What the fields of a server have room for: a host with the NUL behind it, a port of
\* 16 bits, and the user name and password of its configuration.
Fits(configs, c) ==
    /\ c.uri.host + 1 <= UrlMax
    /\ c.uri.port.kind = "digits" /\ c.uri.port.value <= PortMax
    /\ configs[c.config].user <= CredentialMax /\ configs[c.config].password <= CredentialMax

\* The two examples of an ICE server's URI in the comment of ParseIceServerUri.
IsExampleTurn(uri) ==
    uri.scheme \in {"turn", "turns"} /\ uri.tail \in {"?transport=udp", "?transport=tcp"}
IsExampleStun(uri) == uri.scheme = "stun" /\ uri.tail = NoTail

\* Transport texts that end before they name a transport.
BrokenOff == {"?", "?transport="}

\* What a server says is what its URI says and what fits: the agent does not go to
\* another port, with the credentials of another server, or over another transport
\* than the URI names.
Serves(configs, server, c) ==
    /\ server.name = c.uri.name /\ server.type = c.uri.scheme /\ server.credentials = c.config
    /\ server.port <= PortMax
    /\ c.uri.port.value < UlMod => server.port = c.uri.port.value /\ Fits(configs, c)
    /\ server.type # "stun" =>
        \/ c.uri.tail = "?transport=udp" /\ server.transport = "udp"
        \/ c.uri.tail = "?transport=tcp" /\ server.transport = "tcp"
        \/ c.uri.tail \in BrokenOff

\* The ways to read the list as a selection from the URIs, in their order.
Readings(list, configs) ==
    LET named == Candidates(configs)
    IN {from \in [2..Len(list) -> DOMAIN named] :
           /\ \A k, m \in DOMAIN from : k < m => from[k] < from[m]
           /\ \A k \in DOMAIN from : Serves(configs, list[k], named[from[k]])}

\* What a session is started with: the default STUN server of the discovered region, then
\* servers the service has named, in its order, each with what its own URI and its own
\* configuration say.  None is missing for the sake of another that is not understood or
\* too long: a TURN server named as in the comment's first example is there, unless the
\* list is full of servers named before it (GetIceServerList, ParseIceServerUri).
ServersAreConfigured ==
    iceServers # <<>> =>
        LET named == Candidates(offered.configs)
            Full == Len(iceServers) = MaxServers
        IN  /\ Len(iceServers) <= MaxServers
            /\ iceServers[1].name = offered.region /\ iceServers[1].type = "stun"
            /\ iceServers[1].transport = "udp"
            /\ \E from \in Readings(iceServers, offered.configs) :
                \A n \in DOMAIN named :
                    IsExampleTurn(named[n].uri) /\ Fits(offered.configs, named[n]) =>
                        \/ \E k \in DOMAIN from : from[k] = n
                        \/ Full /\ \A k \in DOMAIN from : from[k] < n

\* A STUN server named as in the comment's second example is there, unless the list is
\* full (ParseIceServerUri).  The code does not keep this: it asks a STUN URI for a
\* transport text too.
StunExampleIsServed ==
    iceServers # <<>> =>
        \A c \in Range(Candidates(offered.configs)) :
            IsExampleStun(c.uri) /\ Fits(offered.configs, c) =>
                \/ \E k \in DOMAIN iceServers : iceServers[k].name = c.uri.name
                \/ Len(iceServers) = MaxServers
==============================================================================

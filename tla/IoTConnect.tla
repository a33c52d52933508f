------------------------------ MODULE IoTConnect ------------------------------
(***************************************************************************)
(* The IoTConnect client (iotconnect.c, iotconnect_discovery.c,            *)
(* iotconnect_mqtt.c, iotconnect_kvs_creds.c): Init discovers the device's *)
(* settings, Start opens the MQTT connection and makes the telemetry task, *)
(* Stop and Deinit undo them.  These are called by one task, whose place   *)
(* in them is the variable "at"; the telemetry task runs beside it.        *)
(***************************************************************************)
EXTENDS Naturals

CONSTANTS
    Regions,     \* the AWS regions an ARN may name
    MaxPublishes \* bound: telemetry messages

ASSUME IoTConnectConstants == MaxPublishes \in Nat /\ "NULL" \notin Regions

VARIABLES
    at,            \* where the calling task is
    isInitialized,
    isConnected,   \* of iotconnect.c
    config,        \* what iotcl holds: nothing, or the struct and its texts
    region,        \* s_aws_region
    network,       \* the socket of mqttNetwork: "lost" when the peer has gone
    mqttConnected, \* isConnected of iotconnect_mqtt.c
    telemetry,     \* the telemetry task: none, waiting, or in a publish
    publishes

iotVars == <<at, isInitialized, isConnected, config, region, network, mqttConnected, telemetry,
             publishes>>
mqttVars == <<network, mqttConnected>>

NULL == "NULL"
ConfigTexts == {"host", "client_id", "sub_c2d", "vs_creds_url"}

IoTInit ==
    /\ at = "boot" /\ isInitialized = FALSE /\ isConnected = FALSE
    /\ config = {} /\ region = NULL /\ network = "closed" /\ mqttConnected = FALSE
    /\ telemetry = "none" /\ publishes = 0

------------------------------------------------------------------------------
(* IoTConnect_Init. *)

\* IoTConnect_DoDiscovery: one of the two requests or an answer fails, or the identity
\* response is taken, whatever texts it has; the region stays NULL without a proper ARN.
InitSucceeds(then) ==
    /\ at = "init"
    /\ \E texts \in SUBSET ConfigTexts : config' = {"struct"} \cup texts
    /\ \E r \in Regions \cup {NULL} : region' = r
    /\ isInitialized' = TRUE
    /\ at' = then
    /\ UNCHANGED <<isConnected, mqttVars, telemetry, publishes>>

\* iotcl_init fails, or the discovery, after which iotcl_deinit is called.
InitFails(otherwise) ==
    /\ at = "init"
    /\ at' = otherwise
    /\ UNCHANGED <<isInitialized, isConnected, config, region, mqttVars, telemetry, publishes>>

------------------------------------------------------------------------------
(* IoTConnect_Start. *)

\* MqttClient_Connect: the network, then the MQTT session; a refused one closes the network.
Connect(otherwise) ==
    /\ at = "connect"
    /\ \/ /\ {"host", "client_id"} \subseteq config
          /\ network' = "open" /\ mqttConnected' = TRUE
          /\ at' = "subscribe"
       \/ at' = otherwise /\ UNCHANGED mqttVars
    /\ UNCHANGED <<isInitialized, isConnected, config, region, telemetry, publishes>>

\* MqttClient_Disconnect does nothing when the client is not connected.
MqttDisconnect ==
    /\ network' = IF mqttConnected THEN "closed" ELSE network
    /\ mqttConnected' = FALSE

\* MqttClient_Subscribe, when there is a topic.
Subscribe(otherwise) ==
    /\ at = "subscribe"
    /\ \/ at' = "createTask" /\ UNCHANGED mqttVars
       \/ "sub_c2d" \in config /\ at' = otherwise /\ MqttDisconnect
    /\ UNCHANGED <<isInitialized, isConnected, config, region, telemetry, publishes>>

\* xTaskCreate.
CreateTelemetryTask(otherwise) ==
    /\ at = "createTask"
    /\ \/ telemetry' = "waiting" /\ at' = "setConnected" /\ UNCHANGED mqttVars
       \/ at' = otherwise /\ MqttDisconnect /\ UNCHANGED telemetry
    /\ UNCHANGED <<isInitialized, isConnected, config, region, publishes>>

SetConnected(then) ==
    /\ at = "setConnected"
    /\ isConnected' = TRUE
    /\ at' = then
    /\ UNCHANGED <<isInitialized, config, region, mqttVars, telemetry, publishes>>

------------------------------------------------------------------------------
(* The telemetry task. *)

\* The two flags are looked at, then the message is made and published.
TelemetryDue ==
    /\ telemetry = "waiting" /\ isConnected /\ mqttConnected /\ publishes < MaxPublishes
    /\ telemetry' = "publishing"
    /\ publishes' = publishes + 1
    /\ UNCHANGED <<at, isInitialized, isConnected, config, region, mqttVars>>

\* MqttClient_Publish and what follows it; an error is logged, no flag is cleared.
TelemetrySent ==
    /\ telemetry = "publishing"
    /\ telemetry' = "waiting"
    /\ UNCHANGED <<at, isInitialized, isConnected, config, region, mqttVars, publishes>>

\* The broker or the network is gone (external): nothing takes notice.
ConnectionLost ==
    /\ network = "open" /\ network' = "lost"
    /\ UNCHANGED <<at, isInitialized, isConnected, config, region, mqttConnected, telemetry, publishes>>

Telemetry == TelemetryDue \/ TelemetrySent \/ ConnectionLost

------------------------------------------------------------------------------
(* IoTConnect_Stop and IoTConnect_Deinit, from "stop" on.  Deinit calls Stop again, which *)
(* returns at once.                                                                      *)

StopTelemetry ==
    /\ at = "stop"
    /\ IF isConnected THEN at' = "disconnect" /\ telemetry' = "none"
       ELSE at' = "deinit" /\ UNCHANGED telemetry
    /\ UNCHANGED <<isInitialized, isConnected, config, region, mqttVars, publishes>>

\* The connection is closed and the flag is cleared after it.
Disconnect ==
    /\ at = "disconnect"
    /\ MqttDisconnect
    /\ isConnected' = FALSE
    /\ at' = "deinit"
    /\ UNCHANGED <<isInitialized, config, region, telemetry, publishes>>

\* MqttClient_Deinit, iotcl_deinit, IoTConnect_DiscoveryDeinit.
Deinit(then) ==
    /\ at = "deinit"
    /\ IF isInitialized
       THEN /\ MqttDisconnect
            /\ config' = {} /\ region' = NULL /\ isInitialized' = FALSE
       ELSE UNCHANGED <<mqttVars, config, region, isInitialized>>
    /\ at' = then
    /\ UNCHANGED <<isConnected, telemetry, publishes>>

Cleanup(then) == StopTelemetry \/ Disconnect \/ Deinit(then)

------------------------------------------------------------------------------
(* The callback that the signaling controller refreshes its credentials with. *)

\* IoTConnect_KvsCredentialRefreshCallback succeeds only with a URL; the texts are
\* copied when all of them fit.
CanRefreshCredentials == "vs_creds_url" \in config
==============================================================================

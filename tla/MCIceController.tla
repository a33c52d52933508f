--------------------------- MODULE MCIceController ---------------------------
(* A host candidate and two relays for two contexts, one remote that is acceptable. *)
EXTENDS IceController

MCServers == <<[type |-> "TURNS", protocol |-> "TCP"], [type |-> "TURN", protocol |-> "TCP"],
               [type |-> "TURN", protocol |-> "UDP"]>>
MCNat == {"sendHost", "sendRelay", "host", "relay"}
MCRemotes == {[id |-> 1, family |-> "IPv4", protocol |-> "UDP", type |-> "host"],
              [id |-> 2, family |-> "IPv4", protocol |-> "TCP", type |-> "host"]}
==============================================================================

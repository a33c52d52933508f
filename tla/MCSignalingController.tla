----------------------- MODULE MCSignalingController -----------------------
(* Small instances of SignalingController. *)
EXTENDS SignalingController

(* The application's build (refresh callback, no storage session) and the  *)
(* build with IoT Core credentials and a storage session.                  *)
MCConfigs == {[storage |-> FALSE, refreshFn |-> TRUE], [storage |-> TRUE, refreshFn |-> FALSE]}
=============================================================================

---------------------------- MODULE MCAppSessions ----------------------------
(* Instances of AppSessions for TLC: more clients than slots, a queue that fills. *)
EXTENDS AppSessions
==============================================================================

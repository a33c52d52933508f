---------------------------- MODULE MCMediaSource ----------------------------
(* Instances of MediaSource for TLC: two viewers, queues that fill. *)
EXTENDS MediaSource
==============================================================================

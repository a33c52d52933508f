----------------------- MODULE MCPeerConnectionSession -----------------------
(* Instances of PeerConnectionSession for TLC: the constants are given in the  *)
(* configuration files.                                                        *)
EXTENDS PeerConnectionSession
==============================================================================

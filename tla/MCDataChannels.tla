---------------------------- MODULE MCDataChannels ----------------------------
(* Instances of DataChannels for TLC: two sessions that compete for three channels *)
(* and are interchangeable.                                                        *)
EXTENDS DataChannels, TLC

MCSymmetry == Permutations(Sessions)
==============================================================================

---------------------------- MODULE MCTokenBucket ----------------------------
(* Instances of TokenBucket and PacketRate for TLC.                        *)
EXTENDS PacketRate, TLC

(* Nothing tells the packets apart but their place in the order of calls.  *)
PacketSymmetry == Permutations(Packets)
=============================================================================

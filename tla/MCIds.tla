-------------------------------- MODULE MCIds --------------------------------
(* Instances of Ids for TLC.                                               *)
EXTENDS Ids, TLC

CONSTANTS h1, h2, zero

(* Two sources share a slot of the hash table.                             *)
SomeSlots == [h \in Hosts |-> IF h \in {h1, h2} THEN 0 ELSE 1]

DestSymmetry == Permutations(Dests)
=============================================================================

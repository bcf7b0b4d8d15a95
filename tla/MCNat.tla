-------------------------------- MODULE MCNat --------------------------------
(* Instances of Nat for TLC.                                               *)
EXTENDS Nat, TLC

(* Threads, flows and heap chunks are interchangeable.                     *)
PacketSymmetry ==
  Permutations(Threads) \cup Permutations(Flows) \cup Permutations(Cells)
=============================================================================

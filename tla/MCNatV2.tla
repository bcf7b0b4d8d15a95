------------------------------- MODULE MCNatV2 -------------------------------
(* Instances of NatV2 for TLC.                                             *)
EXTENDS NatV2, TLC

FlowSymmetry == Permutations(Flows)
=============================================================================

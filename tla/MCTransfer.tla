----------------------------- MODULE MCTransfer -----------------------------
(* Instances of Transfer for TLC.                                          *)
EXTENDS Transfer

(* Empty, less than a batch, a multiple of it, and a batch more and less.  *)
SomeSizes == 0..5
=============================================================================

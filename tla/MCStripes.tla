----------------------------- MODULE MCStripes -----------------------------
(* Instances of Stripes for TLC.                                           *)
EXTENDS Stripes

(* Stripes of 1000 bytes: a byte that the tolerance swallows, a stripe, a  *)
(* rest in the first and in the second block, a byte more than a number of *)
(* stripes, and a size that is negative as an int.                         *)
SomeSizes == {1, 700, 1000, 1001, 2300}

(* The matrix of two rows of the file and one of parity: any two rows can  *)
(* be inverted.                                                            *)
AllPairs == {{1, 2}, {1, 3}, {2, 3}}
=============================================================================

------------------------------ MODULE Restore ------------------------------
(***************************************************************************)
(* decode_file() of src/asg2/myftpclient.c: how the blocks of K servers    *)
(* become a file again.                                                    *)
(*                                                                         *)
(* A stripe is N blocks, the first K of them (its rows 0 to K - 1) what    *)
(* the file has.  A block is known by the put it is of, its stripe and its *)
(* row.  The file is a sequence of pieces: a block, and how much of it.    *)
(*                                                                         *)
(* gf_gen_rs_matrix() does not promise for every N and K that any K rows   *)
(* of its matrix can be inverted, and the program does not ask whether     *)
(* they could: which can is a parameter.                                   *)
(***************************************************************************)
EXTENDS Integers, FiniteSets, Sequences

CONSTANTS
  N,           \* servers, or blocks of a stripe
  K,           \* blocks that restore it
  BlockSize,
  IntMax,      \* one more than the largest int (2^31)
  Solvable     \* sets of K servers whose rows gf_invert_matrix() can invert

ASSUME CodeAssumption ==
  /\ K \in Nat \ {0} /\ N \in Nat /\ K <= N
  /\ BlockSize \in Nat \ {0}
  /\ IntMax \in Nat \ {0}

Servers == 1..N

ASSUME SolvableAssumption == Solvable \subseteq SUBSET Servers

Block(ver, stripe, row) == [ver |-> ver, stripe |-> stripe, row |-> row]

(* What is in memory that nothing was stored to, or comes of bad blocks.   *)
Garbage == Block(0, 0, 0)

StripeSize == K * BlockSize

(* return filesize: an unsigned long long becomes an int.                  *)
AsInt(size) ==
  LET low == size % (2 * IntMax) IN IF low < IntMax THEN low ELSE low - 2 * IntMax

-----------------------------------------------------------------------------

(* nos is at most 1e-3 more than a whole number of stripes.                *)
LooksWhole(size) == 1000 * (size % StripeSize) <= StripeSize

(* num_of_strip: a negative size is a huge one as unsigned long long, and  *)
(* its number of stripes is none as an int.                                *)
NumOfStrip(size) ==
  IF size < 0 THEN 0
  ELSE IF LooksWhole(size) THEN size \div StripeSize
  ELSE size \div StripeSize + 1

NonFullBlockInd(size) ==
  IF LooksWhole(size) THEN K ELSE (size % StripeSize) \div BlockSize

(* non_full_block_size is not set where the size looks whole.              *)
NonFullBlockSizes(size) ==
  IF LooksWhole(size) THEN {0, size % StripeSize, BlockSize} ELSE {size % BlockSize}

-----------------------------------------------------------------------------

(* qsort()                                                                 *)
Sorted(S) ==
  [m \in 1..Cardinality(S) |-> CHOOSE x \in S : Cardinality({y \in S : y <= x}) = m]

(* err_row_inds: the rows of the file that were not fetched.               *)
LostRows(ids) == Sorted({row \in 0..(K - 1) : row + 1 \notin ids})

(* Mutant: the place in the order of the servers is not looked up.         *)
RestoreOrderAsIs(ids, row) == row + 1

(* restore_order: which buffer has a row of the file.  Rows that were      *)
(* fetched are where their server is in effective_ids, the others behind.  *)
RestoreOrder(ids, row) ==
  IF row + 1 \in ids
  THEN CHOOSE m \in 1..K : Sorted(ids)[m] = row + 1
  ELSE K + CHOOSE m \in 1..Len(LostRows(ids)) : LostRows(ids)[m] = row

(* fread() into file_data: behind the end the buffer keeps its contents.   *)
Fread(blocks, strip) ==
  IF blocks = << >> THEN Garbage
  ELSE blocks[IF strip < Len(blocks) THEN strip + 1 ELSE Len(blocks)]

(* ec_encode_data() with a row of the inverted matrix, if there is one: it *)
(* gives the row of a stripe from K blocks of the stripe, in the order of  *)
(* the matrix.                                                             *)
Solve(blocks, rows, row) ==
  IF /\ {rows[m] + 1 : m \in 1..K} \in Solvable
     /\ \A m \in 1..K : blocks[m] = Block(blocks[1].ver, blocks[1].stripe, rows[m])
  THEN Block(blocks[1].ver, blocks[1].stripe, row)
  ELSE Garbage

(* file_data after a stripe was decoded.  files: what each server gave.    *)
FileData(files, ids, strip) ==
  LET read == [m \in 1..K |-> Fread(files[Sorted(ids)[m]], strip)]
      rows == [m \in 1..K |-> Sorted(ids)[m] - 1]
  IN  read \o [m \in 1..Len(LostRows(ids)) |-> Solve(read, rows, LostRows(ids)[m])]

(* The m-th block that is written to the file.                             *)
WrittenBlock(files, ids, m) ==
  FileData(files, ids, (m - 1) \div K)[RestoreOrder(ids, (m - 1) % K)]

(* The decoding loop: what it writes, when non_full_block_size is `rest`.  *)
(* restore_order[K] is behind the end of the array.                        *)
Written(files, ids, size, rest) ==
  LET full == (NumOfStrip(size) - 1) * K + NonFullBlockInd(size) IN
  IF NumOfStrip(size) = 0 THEN << >>
  ELSE [m \in 1..full |-> <<WrittenBlock(files, ids, m), BlockSize>>]
       \o IF rest = 0 THEN << >>
          ELSE IF NonFullBlockInd(size) = K THEN <<<<Garbage, rest>>>>
          ELSE <<<<WrittenBlock(files, ids, full + 1), rest>>>>

(* written_bytes == filesize: what the program says of it.                 *)
Verdict(size, rest) ==
  IF NumOfStrip(size) = 0 THEN "silent"
  ELSE IF ((NumOfStrip(size) - 1) * K + NonFullBlockInd(size)) * BlockSize + rest = size
  THEN "success" ELSE "mismatch"

-----------------------------------------------------------------------------

(* Servers that have the rows of the file, or rows that can be inverted.   *)
Decodable(ids) == ids = 1..K \/ ids \in Solvable

(* What a put of a file had to deliver to a server, and the file itself.   *)
LastStripe(size) == size \div StripeSize

AllBlocks(ver, size, s) ==
  [q \in 1..(LastStripe(size) + 1) |-> Block(ver, q - 1, s - 1)]

Original(ver, size) ==
  [m \in 1..(size \div BlockSize) |->
     <<Block(ver, (m - 1) \div K, (m - 1) % K), BlockSize>>]
  \o IF size % BlockSize = 0 THEN << >>
     ELSE LET m == size \div BlockSize IN
          <<<<Block(ver, m \div K, m % K), size % BlockSize>>>>
=============================================================================

--------------------------- MODULE StripesProofs ---------------------------
(* What holds of the erasure-coded transfer of src/asg2, for every number  *)
(* of servers, size of block, set of sizes, number of clients and faults.  *)
(*                                                                         *)
(* The parts, in order: sets of numbers and division; what decode_file()   *)
(* makes of blocks that are all there (WholeRestores); the inductive       *)
(* invariant (StripesInv); one lemma for each step; the theorems.          *)
EXTENDS Stripes, TLAPS, FiniteSetTheorems, SequenceTheorems

USE CodeAssumption, SizesAssumption, BoundAssumption

-----------------------------------------------------------------------------
(* Sets of naturals, and what Sorted() makes of them.                      *)

Rank(S, x) == Cardinality({y \in S : y <= x})

LEMMA UptoFacts ==
  ASSUME NEW S \in SUBSET Nat, IsFiniteSet(S), NEW x \in S
  PROVE  Rank(S, x) \in 1..Cardinality(S) /\ IsFiniteSet({y \in S : y <= x})
<1> DEFINE U == {y \in S : y <= x}
<1>1. /\ IsFiniteSet(U) /\ Cardinality(U) <= Cardinality(S)
  BY FS_Subset
<1>2. x \in U
  OBVIOUS
<1> HIDE DEF U
<1>3. Cardinality(U) \in Nat /\ Cardinality(S) \in Nat /\ Cardinality(U) # 0
  BY <1>1, <1>2, FS_EmptySet, FS_CardinalityType
<1> QED
  BY <1>1, <1>3 DEF Rank, U

LEMMA RankGrows ==
  ASSUME NEW S \in SUBSET Nat, IsFiniteSet(S), NEW x \in S, NEW z \in S, x < z
  PROVE  Rank(S, x) < Rank(S, z)
<1> DEFINE U == {y \in S : y <= x}
           V == {y \in S : y <= z}
<1>1. IsFiniteSet(V) /\ Cardinality(V) \in Nat /\ Cardinality(U) \in Nat
  BY UptoFacts DEF Rank
<1>2. U \in SUBSET V /\ z \in V /\ z \notin U
  <2>1. \A y \in S : y <= x => y <= z
    OBVIOUS
  <2>2. ~(z <= x) /\ z <= z
    OBVIOUS
  <2>3. U \in SUBSET V
    BY <2>1
  <2> QED
    BY <2>2, <2>3
<1> HIDE DEF U, V
<1>3. Cardinality(U) <= Cardinality(V) /\ Cardinality(U) # Cardinality(V)
  BY <1>1, <1>2, FS_Subset
<1>4. Cardinality(U) < Cardinality(V)
  BY <1>1, <1>3
<1> QED
  BY <1>4 DEF Rank, U, V

(* The elements of a finite set of numbers are ranked from 1 without gaps. *)
LEMMA Ranks ==
  ASSUME NEW S \in SUBSET Nat, IsFiniteSet(S)
  PROVE  /\ \A x, z \in S : Rank(S, x) = Rank(S, z) => x = z
         /\ \A m \in 1..Cardinality(S) : \E x \in S : Rank(S, x) = m
<1> DEFINE r == [x \in S |-> Rank(S, x)]
<1>1. r \in [S -> 1..Cardinality(S)]
  BY UptoFacts
<1>2. \A x, z \in S : Rank(S, x) = Rank(S, z) => x = z
  <2> SUFFICES ASSUME NEW x \in S, NEW z \in S, x # z PROVE Rank(S, x) # Rank(S, z)
    OBVIOUS
  <2>1. x < z \/ z < x
    OBVIOUS
  <2>2. Rank(S, x) \in Nat /\ Rank(S, z) \in Nat
    BY UptoFacts, FS_CardinalityType DEF Rank
  <2>3. CASE x < z
    BY <2>2, <2>3, RankGrows
  <2>4. CASE z < x
    BY <2>2, <2>4, RankGrows
  <2> QED
    BY <2>1, <2>3, <2>4
<1>3. \A x \in S : r[x] = Rank(S, x)
  OBVIOUS
<1> HIDE DEF r
<1>4. r \in Injection(S, 1..Cardinality(S))
  BY <1>1, <1>2, <1>3 DEF Injection, IsInjective
<1>5. IsFiniteSet(1..Cardinality(S)) /\ Cardinality(1..Cardinality(S)) = Cardinality(S)
  <2>1. Cardinality(S) \in Nat
    BY FS_CardinalityType
  <2>2. IsFiniteSet(1..Cardinality(S))
        /\ Cardinality(1..Cardinality(S)) =
             IF 1 > Cardinality(S) THEN 0 ELSE Cardinality(S) - 1 + 1
    BY <2>1, FS_Interval
  <2> QED
    BY <2>1, <2>2
<1>6. r \in Surjection(S, 1..Cardinality(S))
  BY <1>4, <1>5, FS_Injection
<1> QED
  BY <1>2, <1>3, <1>6 DEF Surjection

LEMMA SortedFacts ==
  ASSUME NEW S \in SUBSET Nat, IsFiniteSet(S)
  PROVE  /\ Cardinality(S) \in Nat
         /\ Sorted(S) \in Seq(S) /\ Len(Sorted(S)) = Cardinality(S)
         /\ \A m \in 1..Cardinality(S) : Sorted(S)[m] \in S /\ Rank(S, Sorted(S)[m]) = m
         /\ \A x \in S : Rank(S, x) \in 1..Cardinality(S) /\ Sorted(S)[Rank(S, x)] = x
<1> DEFINE n == Cardinality(S)
<1>1. n \in Nat
  BY FS_CardinalityType
<1>2. ASSUME NEW m \in 1..n PROVE Sorted(S)[m] \in S /\ Rank(S, Sorted(S)[m]) = m
  <2>1. Sorted(S)[m] = CHOOSE x \in S : Rank(S, x) = m
    BY DEF Sorted, Rank
  <2>2. \E x \in S : Rank(S, x) = m
    BY Ranks
  <2> QED
    BY <2>1, <2>2
<1>3. Sorted(S) \in [1..n -> S]
  <2>1. Sorted(S) = [m \in 1..n |-> CHOOSE x \in S : Rank(S, x) = m]
    BY DEF Sorted, Rank
  <2> QED
    BY <1>2, <2>1
<1>4. \A x \in S : Rank(S, x) \in 1..n /\ Sorted(S)[Rank(S, x)] = x
  <2> SUFFICES ASSUME NEW x \in S PROVE Rank(S, x) \in 1..n /\ Sorted(S)[Rank(S, x)] = x
    OBVIOUS
  <2>1. Rank(S, x) \in 1..n
    BY UptoFacts
  <2> DEFINE z == Sorted(S)[Rank(S, x)]
  <2>2. z \in S /\ Rank(S, z) = Rank(S, x)
    BY <1>2, <2>1
  <2> HIDE DEF z, n
  <2>3. z = x
    BY <2>2, Ranks
  <2> QED
    BY <2>1, <2>3 DEF z
<1> HIDE DEF n
<1>5. Sorted(S) \in Seq(S) /\ Len(Sorted(S)) = n
  BY <1>1, <1>3
<1> QED
  BY <1>1, <1>2, <1>4, <1>5 DEF n

(* A growing enumeration of a set is the sorted one.                       *)
LEMMA Enumerates ==
  ASSUME NEW n \in Nat, NEW f \in [1..n -> Nat],
         \A a, b \in 1..n : a < b => f[a] < f[b]
  PROVE  LET S == {f[m] : m \in 1..n} IN
         /\ IsFiniteSet(S) /\ Cardinality(S) = n
         /\ \A m \in 1..n : Sorted(S)[m] = f[m]
<1> DEFINE S == {f[m] : m \in 1..n}
<1>1. ASSUME NEW k \in 0..n
      PROVE  IsFiniteSet({f[m] : m \in 1..k}) /\ Cardinality({f[m] : m \in 1..k}) = k
  <2> DEFINE T == {f[m] : m \in 1..k}
             g == [m \in 1..k |-> f[m]]
  <2>1. IsFiniteSet(1..k) /\ Cardinality(1..k) = k
    <3>1. IsFiniteSet(1..k) /\ Cardinality(1..k) = IF 1 > k THEN 0 ELSE k - 1 + 1
      BY FS_Interval
    <3> QED
      BY <3>1
  <2>2. \A a, b \in 1..k : a # b => g[a] # g[b]
    <3> SUFFICES ASSUME NEW a \in 1..k, NEW b \in 1..k, a # b PROVE f[a] # f[b]
      OBVIOUS
    <3>1. f[a] \in Nat /\ f[b] \in Nat /\ (a < b \/ b < a)
      OBVIOUS
    <3>2. (a < b => f[a] < f[b]) /\ (b < a => f[b] < f[a])
      OBVIOUS
    <3> QED
      BY <3>1, <3>2
  <2>3. g \in [1..k -> T] /\ \A t \in T : \E m \in 1..k : g[m] = t
    OBVIOUS
  <2> HIDE DEF g, T
  <2>4. g \in Bijection(1..k, T)
    BY <2>2, <2>3 DEF Bijection, Injection, IsInjective, Surjection
  <2>5. ExistsBijection(1..k, T)
    BY <2>4 DEF ExistsBijection
  <2>6. IsFiniteSet(T) /\ Cardinality(T) = k
    BY <2>1, <2>5, FS_Bijection
  <2> QED
    BY <2>6 DEF T
<1>2. IsFiniteSet(S) /\ Cardinality(S) = n
  <2>1. n \in 0..n
    OBVIOUS
  <2> QED
    BY <1>1, <2>1
<1>3. S \in SUBSET Nat
  OBVIOUS
<1>4. ASSUME NEW m \in 1..n PROVE Sorted(S)[m] = f[m]
  <2>1. {y \in S : y <= f[m]} = {f[k] : k \in 1..m}
    <3>1. \A k \in 1..n : f[k] <= f[m] <=> k \in 1..m
      <4> SUFFICES ASSUME NEW k \in 1..n PROVE f[k] <= f[m] <=> k \in 1..m
        OBVIOUS
      <4>1. f[k] \in Nat /\ f[m] \in Nat /\ (k < m => f[k] < f[m]) /\ (m < k => f[m] < f[k])
        OBVIOUS
      <4> QED
        BY <4>1
    <3>2. \A k \in 1..m : k \in 1..n
      OBVIOUS
    <3> QED
      BY <3>1, <3>2
  <2>2. Cardinality({f[k] : k \in 1..m}) = m
    <3>1. m \in 0..n
      OBVIOUS
    <3> QED
      BY <1>1, <3>1
  <2>3. Rank(S, f[m]) = m /\ f[m] \in S
    BY <2>1, <2>2 DEF Rank
  <2> HIDE DEF S
  <2> QED
    BY <1>2, <1>3, <2>3, SortedFacts
<1> QED
  BY <1>2, <1>4

(* Every set of numbers has a first one.                                   *)
LEMMA FirstFacts ==
  ASSUME NEW S \in SUBSET Nat, S # {}
  PROVE  First(S) \in S /\ \A t \in S : First(S) <= t
<1>1. PICK n \in S : TRUE
  OBVIOUS
<1> DEFINE T == {k \in S : k <= n}
<1>2. IsFiniteSet(T) /\ T \in SUBSET Nat
  BY FS_BoundedSetOfNaturals
<1>3. n \in T
  OBVIOUS
<1> HIDE DEF T
<1>4. Cardinality(T) \in Nat /\ Cardinality(T) # 0
  BY <1>2, <1>3, FS_EmptySet, FS_CardinalityType
<1>5. PICK m \in T : Rank(T, m) = 1
  BY <1>2, <1>4, Ranks
<1>6. ASSUME NEW k \in T PROVE m <= k
  <2>1. k < m => Rank(T, k) < Rank(T, m)
    BY <1>2, RankGrows
  <2>2. Rank(T, k) \in 1..Cardinality(T)
    BY <1>2, UptoFacts
  <2> QED
    BY <1>2, <1>4, <1>5, <2>1, <2>2
<1>7. m \in S /\ \A t \in S : m <= t
  BY <1>1, <1>6 DEF T
<1> QED
  BY <1>7 DEF First

-----------------------------------------------------------------------------
(* Division.                                                               *)

LEMMA DivFacts ==
  ASSUME NEW b \in Nat \ {0}, NEW n \in Nat
  PROVE  /\ n \div b \in Nat /\ n % b \in 0..(b - 1)
         /\ n = b * (n \div b) + (n % b)
  OBVIOUS

LEMMA DivUnique ==
  ASSUME NEW b \in Nat \ {0}, NEW q \in Nat, NEW p \in Nat,
         NEW r \in 0..(b - 1), NEW s \in 0..(b - 1), b * q + r = b * p + s
  PROVE  q = p /\ r = s
<1>1. CASE p = q
  BY <1>1
<1>2. CASE p < q
  <2>1. b * q >= b * (p + 1)
    BY <1>2
  <2>2. b * (p + 1) = b * p + b
    OBVIOUS
  <2> QED
    BY <2>1, <2>2
<1>3. CASE q < p
  <2>1. b * p >= b * (q + 1)
    BY <1>3
  <2>2. b * (q + 1) = b * q + b
    OBVIOUS
  <2> QED
    BY <2>1, <2>2
<1> QED
  BY <1>1, <1>2, <1>3

LEMMA DivIs ==
  ASSUME NEW b \in Nat \ {0}, NEW q \in Nat, NEW r \in 0..(b - 1), NEW n, n = b * q + r
  PROVE  n \in Nat /\ n \div b = q /\ n % b = r
<1>1. n \in Nat
  <2>1. b * q \in Nat
    OBVIOUS
  <2> QED
    BY <2>1
<1>2. /\ n \div b \in Nat /\ n % b \in 0..(b - 1)
      /\ b * (n \div b) + (n % b) = b * q + r
  BY <1>1, DivFacts
<1> QED
  BY <1>1, <1>2, DivUnique

LEMMA DivBelow ==
  ASSUME NEW b \in Nat \ {0}, NEW q \in Nat, NEW n \in Nat, n < b * (q + 1)
  PROVE  n \div b <= q
<1> DEFINE p == n \div b
           r == n % b
<1>1. p \in Nat /\ r \in 0..(b - 1) /\ n = b * p + r
  BY DivFacts
<1> HIDE DEF p, r
<1>2. SUFFICES ASSUME p >= q + 1 PROVE FALSE
  BY <1>1 DEF p
<1>3. b * p >= b * (q + 1)
  BY <1>1, <1>2
<1>4. b * p \in Nat /\ b * (q + 1) \in Nat
  BY <1>1
<1> QED
  BY <1>1, <1>3, <1>4

LEMMA StripeSizes == StripeSize \in Nat \ {0} /\ BlockSize <= StripeSize
<1>1. K * BlockSize \in Nat /\ 1 * BlockSize <= K * BlockSize
  OBVIOUS
<1> QED
  BY <1>1 DEF StripeSize

(* A size in stripes, blocks of the last stripe, and bytes of the last.    *)
LEMMA SizeParts ==
  ASSUME NEW z \in Nat
  PROVE  LET q == z \div StripeSize
             b == (z % StripeSize) \div BlockSize
             r == z % BlockSize
         IN  /\ q \in Nat /\ b \in 0..(K - 1) /\ r \in 0..(BlockSize - 1)
             /\ z % StripeSize \in 0..(StripeSize - 1)
             /\ z = StripeSize * q + (z % StripeSize)
             /\ z \div BlockSize = q * K + b
             /\ z = BlockSize * (q * K + b) + r
<1> DEFINE q == z \div StripeSize
           w == z % StripeSize
           b == w \div BlockSize
           r == w % BlockSize
<1>1. q \in Nat /\ w \in 0..(StripeSize - 1) /\ z = StripeSize * q + w
  BY StripeSizes, DivFacts
<1>2. b \in Nat /\ r \in 0..(BlockSize - 1) /\ w = BlockSize * b + r
  <2>1. w \in Nat
    BY <1>1, StripeSizes
  <2> HIDE DEF w
  <2> QED
    BY <2>1, DivFacts
<1> HIDE DEF q, w
<1>3. b \in 0..(K - 1)
  <2>1. w \in Nat /\ w < K * BlockSize
    BY <1>1, StripeSizes DEF StripeSize
  <2>2. BlockSize * ((K - 1) + 1) = K * BlockSize /\ K - 1 \in Nat
    OBVIOUS
  <2>3. w < BlockSize * ((K - 1) + 1)
    BY <2>1, <2>2
  <2>4. b <= K - 1
    BY <2>1, <2>2, <2>3, DivBelow
  <2> QED
    BY <1>2, <2>4
<1> HIDE DEF b, r
<1>4. z = BlockSize * (q * K + b) + r
  <2>1. StripeSize * q = BlockSize * (q * K)
    BY <1>1 DEF StripeSize
  <2>2. BlockSize * (q * K + b) = BlockSize * (q * K) + BlockSize * b
    BY <1>1, <1>2
  <2>3. BlockSize * (q * K) \in Nat /\ BlockSize * b \in Nat
    BY <1>1, <1>2
  <2> QED
    BY <1>1, <1>2, <2>1, <2>2, <2>3
<1>5. q * K + b \in Nat
  BY <1>1, <1>2
<1>6. z \div BlockSize = q * K + b /\ z % BlockSize = r
  BY <1>2, <1>4, <1>5, DivIs
<1> QED
  BY <1>1, <1>2, <1>3, <1>4, <1>6 DEF q, w, b, r

-----------------------------------------------------------------------------
(* Decoding.                                                               *)

(* What was read of the servers asked, and the rows that is.               *)
ReadOf(files, ids, strip) == [m \in 1..K |-> Fread(files[Sorted(ids)[m]], strip)]
RowsOf(ids) == [m \in 1..K |-> Sorted(ids)[m] - 1]
LostOf(ids) == {row \in 0..(K - 1) : row + 1 \notin ids}

LEMMA IdsFacts ==
  ASSUME NEW ids \in SUBSET Servers, Cardinality(ids) = K
  PROVE  /\ \A m \in 1..K : Sorted(ids)[m] \in ids
         /\ \A x \in ids : \E m \in 1..K : Sorted(ids)[m] = x
<1>1. IsFiniteSet(Servers) /\ Servers \in SUBSET Nat
  BY FS_Interval DEF Servers
<1>2. IsFiniteSet(ids) /\ ids \in SUBSET Nat
  BY <1>1, FS_Subset
<1> QED
  BY <1>2, SortedFacts

LEMMA LostFacts ==
  ASSUME NEW ids
  PROVE  /\ LostRows(ids) = Sorted(LostOf(ids))
         /\ Len(LostRows(ids)) \in Nat
         /\ \A m \in 1..Len(LostRows(ids)) : LostRows(ids)[m] \in 0..(K - 1)
         /\ \A row \in 0..(K - 1) :
              row + 1 \notin ids => \E m \in 1..Len(LostRows(ids)) : LostRows(ids)[m] = row
<1>1. LostRows(ids) = Sorted(LostOf(ids))
  BY DEF LostRows, LostOf
<1>2. IsFiniteSet(0..(K - 1))
  BY FS_Interval
<1>3. LostOf(ids) \in SUBSET (0..(K - 1))
  BY DEF LostOf
<1>4. IsFiniteSet(LostOf(ids)) /\ LostOf(ids) \in SUBSET Nat
  BY <1>2, <1>3, FS_Subset
<1>5. /\ Len(LostRows(ids)) \in Nat
      /\ \A m \in 1..Len(LostRows(ids)) : LostRows(ids)[m] \in LostOf(ids)
      /\ \A row \in LostOf(ids) : \E m \in 1..Len(LostRows(ids)) : LostRows(ids)[m] = row
  BY <1>1, <1>4, SortedFacts
<1> QED
  BY <1>1, <1>3, <1>5 DEF LostOf

LEMMA BlockTypes ==
  /\ Garbage \in Blocks
  /\ \A b \in Blocks, row \in 0..(K - 1) : Block(b.ver, b.stripe, row) \in Blocks
<1>1. 0 \in 0..MaxRuns /\ 0 \in 0..(N - 1)
  OBVIOUS
<1>2. \A row \in 0..(K - 1) : row \in 0..(N - 1)
  OBVIOUS
<1>3. Garbage \in Blocks
  BY <1>1 DEF Garbage, Block, Blocks
<1> QED
  BY <1>2, <1>3 DEF Block, Blocks

LEMMA FreadTypes ==
  ASSUME NEW blocks \in Seq(Blocks), NEW strip \in Nat
  PROVE  Fread(blocks, strip) \in Blocks
<1>1. CASE blocks = << >>
  BY <1>1, BlockTypes DEF Fread
<1>2. CASE blocks # << >>
  <2>1. Len(blocks) \in Nat \ {0}
    BY <1>2
  <2>2. strip + 1 \in Nat /\ strip + 1 > 0
    OBVIOUS
  <2>3. (IF strip < Len(blocks) THEN strip + 1 ELSE Len(blocks)) \in 1..Len(blocks)
    BY <2>1, <2>2
  <2> QED
    BY <1>2, <2>3 DEF Fread
<1> QED
  BY <1>1, <1>2

(* The block that is written for a row of a stripe: the one that was read  *)
(* for that row, or what is solved for it.                                 *)
LEMMA FileDataFacts ==
  ASSUME NEW files \in [Servers -> Seq(Blocks)], NEW strip \in Nat, NEW row \in 0..(K - 1),
         NEW ids \in SUBSET Servers, Cardinality(ids) = K
  PROVE  LET read == ReadOf(files, ids, strip)
             block == FileData(files, ids, strip)[RestoreOrder(ids, row)]
         IN  /\ read \in [1..K -> Blocks]
             /\ \/ \E m \in 1..K : Sorted(ids)[m] = row + 1 /\ block = read[m]
                \/ row + 1 \notin ids /\ block = Solve(read, RowsOf(ids), row)
<1> DEFINE read == ReadOf(files, ids, strip)
           lost == LostRows(ids)
           solved == [m \in 1..Len(lost) |-> Solve(read, RowsOf(ids), lost[m])]
<1>1. read \in [1..K -> Blocks]
  <2>1. \A m \in 1..K : files[Sorted(ids)[m]] \in Seq(Blocks)
    BY IdsFacts
  <2>2. \A m \in 1..K : Fread(files[Sorted(ids)[m]], strip) \in Blocks
    BY <2>1, FreadTypes
  <2> QED
    BY <2>2 DEF ReadOf
<1>2. FileData(files, ids, strip) = read \o solved
  BY DEF FileData, ReadOf, RowsOf
<1>3. \A m \in 1..Len(lost) : lost[m] \in 0..(K - 1)
  BY LostFacts
<1>4. \A r \in 0..(K - 1) : Solve(read, RowsOf(ids), r) \in Blocks
  <2>1. read[1] \in Blocks
    BY <1>1
  <2> HIDE DEF read
  <2> QED
    BY <2>1, BlockTypes DEF Solve
<1>5. solved \in [1..Len(lost) -> Blocks]
  <2> HIDE DEF lost, read
  <2> QED
    BY <1>3, <1>4
<1>6. \A m \in 1..Len(lost) : solved[m] = Solve(read, RowsOf(ids), lost[m])
  BY Zenon
<1>7. Len(lost) \in Nat
  BY LostFacts
<1> HIDE DEF read, lost, solved
<1>8. /\ read \in Seq(Blocks) /\ Len(read) = K
      /\ solved \in Seq(Blocks) /\ Len(solved) = Len(lost)
  <2>1. ASSUME NEW n \in Nat, NEW f \in [1..n -> Blocks] PROVE f \in Seq(Blocks) /\ Len(f) = n
    OBVIOUS
  <2>2. K \in Nat
    OBVIOUS
  <2>3. read \in Seq(Blocks) /\ Len(read) = K
    BY <1>1, <2>1, <2>2
  <2>4. solved \in Seq(Blocks) /\ Len(solved) = Len(lost)
    BY <1>5, <1>7, <2>1
  <2> QED
    BY <2>3, <2>4
<1>9. \A m \in 1..(K + Len(lost)) :
        (read \o solved)[m] = IF m <= K THEN read[m] ELSE solved[m - K]
  BY <1>8, ConcatProperties
<1>10. CASE row + 1 \in ids
  <2> DEFINE m == CHOOSE x \in 1..K : Sorted(ids)[x] = row + 1
  <2>1. m \in 1..K /\ Sorted(ids)[m] = row + 1
    BY <1>10, IdsFacts
  <2>2. RestoreOrder(ids, row) = m
    BY <1>10 DEF RestoreOrder
  <2> HIDE DEF m
  <2>3. FileData(files, ids, strip)[m] = read[m]
    <3>1. m \in 1..(K + Len(lost)) /\ m <= K
      BY <1>7, <2>1
    <3> QED
      BY <1>2, <1>9, <3>1
  <2> QED
    BY <1>1, <2>1, <2>2, <2>3 DEF read
<1>11. CASE row + 1 \notin ids
  <2> DEFINE m == CHOOSE x \in 1..Len(lost) : lost[x] = row
  <2>1. m \in 1..Len(lost) /\ lost[m] = row
    <3>1. \E x \in 1..Len(lost) : lost[x] = row
      BY <1>11, LostFacts DEF lost
    <3> QED
      BY <3>1
  <2>2. RestoreOrder(ids, row) = K + m
    BY <1>11 DEF RestoreOrder, lost
  <2> HIDE DEF m
  <2>3. FileData(files, ids, strip)[K + m] = solved[m]
    <3>1. K + m \in 1..(K + Len(lost)) /\ ~(K + m <= K) /\ (K + m) - K = m
      BY <1>7, <2>1
    <3> QED
      BY <1>2, <1>9, <3>1
  <2>4. solved[m] = Solve(read, RowsOf(ids), row)
    BY <1>6, <2>1
  <2> QED
    BY <1>1, <1>11, <2>2, <2>3, <2>4 DEF read
<1> QED
  BY <1>10, <1>11

LEMMA WrittenBlockTypes ==
  ASSUME NEW files \in [Servers -> Seq(Blocks)], NEW m \in Nat \ {0},
         NEW ids \in SUBSET Servers, Cardinality(ids) = K
  PROVE  WrittenBlock(files, ids, m) \in Blocks
<1> DEFINE strip == (m - 1) \div K
           row == (m - 1) % K
           read == ReadOf(files, ids, strip)
<1>1. m - 1 \in Nat
  OBVIOUS
<1>2. strip \in Nat /\ row \in 0..(K - 1)
  BY <1>1, DivFacts
<1>3. WrittenBlock(files, ids, m) = FileData(files, ids, strip)[RestoreOrder(ids, row)]
  BY DEF WrittenBlock
<1> HIDE DEF strip, row
<1>4. /\ read \in [1..K -> Blocks]
      /\ \/ \E k \in 1..K : WrittenBlock(files, ids, m) = read[k]
         \/ WrittenBlock(files, ids, m) = Solve(read, RowsOf(ids), row)
  BY <1>2, <1>3, FileDataFacts
<1>5. Solve(read, RowsOf(ids), row) \in Blocks
  <2>1. read[1] \in Blocks
    BY <1>4
  <2> HIDE DEF read
  <2> QED
    BY <1>2, <2>1, BlockTypes DEF Solve
<1> HIDE DEF read
<1> QED
  BY <1>4, <1>5

(* K servers that stored everything of a put of z bytes, and whose rows of *)
(* the matrix can be inverted if they have to be.                          *)
AllWhole(files, ids, v, z) ==
  /\ files \in [Servers -> Seq(Blocks)]
  /\ ids \in SUBSET Servers /\ Cardinality(ids) = K
  /\ Decodable(ids)
  /\ z \in Nat
  /\ \A s \in ids : files[s] = AllBlocks(v, z, s)

(* The block of a file that is behind n others, and in one of its stripes. *)
BlockAt(v, n) == Block(v, n \div K, n % K)
InStripes(n, z) == n \div K <= LastStripe(z)

(* The rows of the matrix are those of the servers.                        *)
LEMMA RowsFacts ==
  ASSUME NEW ids \in SUBSET Servers, Cardinality(ids) = K
  PROVE  {RowsOf(ids)[k] + 1 : k \in 1..K} = ids
<1>1. \A k \in 1..K : RowsOf(ids)[k] + 1 = Sorted(ids)[k]
  <2>1. ASSUME NEW k \in 1..K PROVE RowsOf(ids)[k] + 1 = Sorted(ids)[k]
    <3>1. Sorted(ids)[k] \in 1..N
      BY IdsFacts, Zenon DEF Servers
    <3>2. RowsOf(ids)[k] = Sorted(ids)[k] - 1
      BY DEF RowsOf
    <3> QED
      BY <3>1, <3>2
  <2> QED
    BY <2>1
<1>2. \A k \in 1..K : RowsOf(ids)[k] + 1 \in ids
  BY <1>1, IdsFacts
<1>3. ASSUME NEW x \in ids PROVE \E k \in 1..K : RowsOf(ids)[k] + 1 = x
  BY <1>1, IdsFacts
<1> QED
  BY <1>2, <1>3, Zenon

(* Each block that is written is that of the file.                         *)
LEMMA WholeBlocks ==
  ASSUME NEW files, NEW ids, NEW v, NEW z, AllWhole(files, ids, v, z),
         NEW n \in Nat, InStripes(n, z)
  PROVE  WrittenBlock(files, ids, n + 1) = BlockAt(v, n)
<1> DEFINE strip == n \div K
           row == n % K
           read == ReadOf(files, ids, strip)
<1>1. /\ files \in [Servers -> Seq(Blocks)]
      /\ ids \in SUBSET Servers /\ Cardinality(ids) = K
      /\ z \in Nat /\ Decodable(ids)
      /\ \A s \in ids : files[s] = AllBlocks(v, z, s)
  BY DEF AllWhole
<1>2. strip \in Nat /\ row \in 0..(K - 1) /\ strip <= LastStripe(z)
  BY DivFacts DEF InStripes
<1>3. WrittenBlock(files, ids, n + 1) = FileData(files, ids, strip)[RestoreOrder(ids, row)]
  <2>1. (n + 1) - 1 = n
    OBVIOUS
  <2> QED
    BY <2>1 DEF WrittenBlock
<1> HIDE DEF strip, row
<1>4. LastStripe(z) \in Nat
  BY <1>1, StripeSizes, DivFacts DEF LastStripe
<1>5. ASSUME NEW k \in 1..K PROVE read[k] = Block(v, strip, Sorted(ids)[k] - 1)
  <2> DEFINE s == Sorted(ids)[k]
  <2>1. s \in ids
    BY <1>1, IdsFacts
  <2> HIDE DEF s
  <2>2. files[s] = AllBlocks(v, z, s)
    BY <1>1, <2>1
  <2>3. Len(AllBlocks(v, z, s)) = LastStripe(z) + 1
        /\ AllBlocks(v, z, s) # << >>
    BY <1>4 DEF AllBlocks
  <2>4. strip + 1 \in 1..(LastStripe(z) + 1) /\ strip < LastStripe(z) + 1
    BY <1>2, <1>4
  <2>5. AllBlocks(v, z, s)[strip + 1] = Block(v, (strip + 1) - 1, s - 1)
    BY <2>4 DEF AllBlocks
  <2>6. (strip + 1) - 1 = strip
    BY <1>2
  <2>7. Fread(files[s], strip) = Block(v, strip, s - 1)
    BY <2>2, <2>3, <2>4, <2>5, <2>6 DEF Fread
  <2> QED
    BY <2>7 DEF ReadOf, s
<1>6. /\ \A k \in 1..K : RowsOf(ids)[k] = Sorted(ids)[k] - 1
      /\ 1 \in 1..K
  BY DEF RowsOf
<1> HIDE DEF read
<1>7. ASSUME ids \in Solvable
      PROVE  Solve(read, RowsOf(ids), row) = Block(v, strip, row)
  <2>1. read[1].ver = v /\ read[1].stripe = strip
    <3>1. read[1] = Block(v, strip, Sorted(ids)[1] - 1)
      BY <1>5, <1>6
    <3> QED
      BY <3>1 DEF Block
  <2>2. \A k \in 1..K : read[k] = Block(read[1].ver, read[1].stripe, RowsOf(ids)[k])
    BY <1>5, <1>6, <2>1
  <2>3. {RowsOf(ids)[k] + 1 : k \in 1..K} \in Solvable
    BY <1>1, <1>7, RowsFacts
  <2> QED
    BY <2>1, <2>2, <2>3, Zenon DEF Solve
<1>8. \A k \in 1..K : Sorted(ids)[k] = row + 1 => read[k] = Block(v, strip, row)
  <2>1. (row + 1) - 1 = row
    BY <1>2
  <2> QED
    BY <1>5, <2>1
<1>9. \/ \E k \in 1..K : Sorted(ids)[k] = row + 1 /\ WrittenBlock(files, ids, n + 1) = read[k]
      \/ row + 1 \notin ids /\ WrittenBlock(files, ids, n + 1) = Solve(read, RowsOf(ids), row)
  BY <1>1, <1>2, <1>3, FileDataFacts DEF read
<1>10. row + 1 \notin ids => ids \in Solvable
  <2>1. row + 1 \in 1..K
    BY <1>2
  <2> QED
    BY <1>1, <2>1 DEF Decodable
<1>11. WrittenBlock(files, ids, n + 1) = Block(v, strip, row)
  BY <1>7, <1>8, <1>9, <1>10
<1> QED
  BY <1>11 DEF strip, row, BlockAt

(* What the decoding loop writes, and the verdict.                         *)
LEMMA WrittenTypes ==
  ASSUME NEW files \in [Servers -> Seq(Blocks)], NEW z \in Int, NEW rest \in NonFullBlockSizes(z),
         NEW ids \in SUBSET Servers, Cardinality(ids) = K
  PROVE  /\ Written(files, ids, z, rest) \in Seq(Blocks \X (1..StripeSize))
         /\ Verdict(z, rest) \in {"success", "mismatch", "silent"}
<1> DEFINE full == (NumOfStrip(z) - 1) * K + NonFullBlockInd(z)
           Pieces == Blocks \X (1..StripeSize)
<1>1. Verdict(z, rest) \in {"success", "mismatch", "silent"}
  BY DEF Verdict
<1>2. CASE NumOfStrip(z) = 0
  BY <1>1, <1>2 DEF Written
<1>3. CASE NumOfStrip(z) # 0
  <2>1. z \in Nat
    BY <1>3 DEF NumOfStrip
  <2>2. /\ z \div StripeSize \in Nat /\ z % StripeSize \in 0..(StripeSize - 1)
        /\ (z % StripeSize) \div BlockSize \in Nat /\ z % BlockSize \in 0..(BlockSize - 1)
    BY <2>1, SizeParts
  <2>3. NumOfStrip(z) \in Nat \ {0} /\ NonFullBlockInd(z) \in Nat
    BY <1>3, <2>1, <2>2 DEF NumOfStrip, NonFullBlockInd
  <2>4. rest \in 0..StripeSize
    BY <2>2, StripeSizes DEF NonFullBlockSizes
  <2>5. full \in Nat
    <3>1. NumOfStrip(z) - 1 \in Nat
      BY <2>3
    <3>2. (NumOfStrip(z) - 1) * K \in Nat
      BY <3>1
    <3> QED
      BY <2>3, <3>2
  <2> HIDE DEF full
  <2>6. \A m \in Nat \ {0} : WrittenBlock(files, ids, m) \in Blocks
    BY WrittenBlockTypes
  <2>7. [m \in 1..full |-> <<WrittenBlock(files, ids, m), BlockSize>>] \in Seq(Pieces)
    <3>1. \A m \in 1..full : <<WrittenBlock(files, ids, m), BlockSize>> \in Pieces
      <4>1. BlockSize \in 1..StripeSize
        BY StripeSizes
      <4>2. \A m \in 1..full : m \in Nat \ {0}
        BY <2>5
      <4> QED
        BY <2>6, <4>1, <4>2
    <3>2. [m \in 1..full |-> <<WrittenBlock(files, ids, m), BlockSize>>] \in [1..full -> Pieces]
      BY <3>1, Zenon
    <3> HIDE DEF Pieces
    <3> QED
      BY <2>5, <3>2
  <2> DEFINE tail == IF rest = 0 THEN << >>
                     ELSE IF NonFullBlockInd(z) = K THEN <<<<Garbage, rest>>>>
                     ELSE <<<<WrittenBlock(files, ids, full + 1), rest>>>>
  <2>8. tail \in Seq(Pieces)
    <3>1. WrittenBlock(files, ids, full + 1) \in Blocks
      BY <2>5, <2>6
    <3>2. rest # 0 => rest \in 1..StripeSize
      BY <2>4
    <3>3. rest # 0 => <<Garbage, rest>> \in Pieces
                      /\ <<WrittenBlock(files, ids, full + 1), rest>> \in Pieces
      BY <3>1, <3>2, BlockTypes
    <3> HIDE DEF Pieces
    <3>4. << >> \in Seq(Pieces) /\ \A p \in Pieces : <<p>> \in Seq(Pieces)
      OBVIOUS
    <3> QED
      BY <3>3, <3>4
  <2>9. Written(files, ids, z, rest)
        = [m \in 1..full |-> <<WrittenBlock(files, ids, m), BlockSize>>] \o tail
    BY <1>3 DEF Written, full
  <2> HIDE DEF Pieces, tail
  <2> QED
    BY <1>1, <2>7, <2>8, <2>9 DEF Pieces
<1> QED
  BY <1>2, <1>3

(* A size is q stripes and w bytes, or n blocks and r bytes, b of the      *)
(* blocks behind the last whole stripe.                                    *)
Parts(z, q, w, b, n, r) ==
  /\ q = z \div StripeSize /\ w = z % StripeSize /\ z = StripeSize * q + w
  /\ n = z \div BlockSize /\ r = z % BlockSize /\ z = BlockSize * n + r
  /\ b = w \div BlockSize /\ n = q * K + b

Blocks1(v, n) == [m \in 1..n |-> <<BlockAt(v, m - 1), BlockSize>>]
Written1(files, ids, n) == [m \in 1..n |-> <<WrittenBlock(files, ids, m), BlockSize>>]

LEMMA OriginalIs ==
  ASSUME NEW v, NEW z, NEW q, NEW w, NEW b, NEW n, NEW r, Parts(z, q, w, b, n, r)
  PROVE  Original(v, z) =
           Blocks1(v, n) \o IF r = 0 THEN << >> ELSE <<<<BlockAt(v, n), r>>>>
<1>1. z \div BlockSize = n /\ z % BlockSize = r
  BY DEF Parts
<1> QED
  BY <1>1 DEF Original, Blocks1, BlockAt

LEMMA PartsInStripes ==
  ASSUME NEW z, NEW q \in Nat, NEW w, NEW b \in 0..(K - 1), NEW n \in Nat, NEW r,
         Parts(z, q, w, b, n, r), NEW k \in 0..n
  PROVE  InStripes(k, z)
<1>1. LastStripe(z) = q /\ n = q * K + b
  BY DEF LastStripe, Parts
<1>2. K * (q + 1) = q * K + K /\ q * K \in Nat
  OBVIOUS
<1>3. k < K * (q + 1)
  BY <1>1, <1>2
<1>4. k \div K <= q
  BY <1>3, DivBelow
<1> QED
  BY <1>1, <1>4 DEF InStripes

LEMMA WholeFull ==
  ASSUME NEW files, NEW ids, NEW v, NEW z, AllWhole(files, ids, v, z),
         NEW q \in Nat, NEW w, NEW b \in 0..(K - 1), NEW n \in Nat, NEW r,
         Parts(z, q, w, b, n, r)
  PROVE  /\ Written1(files, ids, n) = Blocks1(v, n)
         /\ WrittenBlock(files, ids, n + 1) = BlockAt(v, n)
<1>1. ASSUME NEW k \in 0..n PROVE WrittenBlock(files, ids, k + 1) = BlockAt(v, k)
  <2>1. InStripes(k, z) /\ k \in Nat
    BY PartsInStripes
  <2> QED
    BY <2>1, WholeBlocks
<1>2. ASSUME NEW m \in 1..n PROVE WrittenBlock(files, ids, m) = BlockAt(v, m - 1)
  <2>1. m - 1 \in 0..n /\ (m - 1) + 1 = m
    OBVIOUS
  <2>2. WrittenBlock(files, ids, (m - 1) + 1) = BlockAt(v, m - 1)
    BY <1>1, <2>1
  <2> QED
    BY <2>1, <2>2
<1>3. n \in 0..n
  OBVIOUS
<1> QED
  BY <1>1, <1>2, <1>3 DEF Written1, Blocks1

LEMMA RestSucceeds ==
  ASSUME NEW files, NEW ids, NEW v, NEW z \in Nat, AllWhole(files, ids, v, z),
         NEW q \in Nat, NEW w, NEW b \in 0..(K - 1), NEW n \in Nat, NEW r \in Nat,
         Parts(z, q, w, b, n, r),
         NEW rest \in NonFullBlockSizes(z), ~LooksWhole(z)
  PROVE  Verdict(z, rest) = "success" /\ Written(files, ids, z, rest) = Original(v, z)
<1>1. NumOfStrip(z) = q + 1 /\ NonFullBlockInd(z) = b /\ rest = r
  <2>1. NumOfStrip(z) = z \div StripeSize + 1
    BY DEF NumOfStrip
  <2>2. NonFullBlockInd(z) = (z % StripeSize) \div BlockSize
    BY DEF NonFullBlockInd
  <2>3. rest = z % BlockSize
    BY DEF NonFullBlockSizes
  <2> QED
    BY <2>1, <2>2, <2>3, Zenon DEF Parts
<1>2. (NumOfStrip(z) - 1) * K + NonFullBlockInd(z) = n /\ NumOfStrip(z) # 0
      /\ NonFullBlockInd(z) # K
  <2>1. (q + 1) - 1 = q /\ q + 1 # 0 /\ b # K
    OBVIOUS
  <2>2. n = q * K + b
    BY DEF Parts
  <2> QED
    BY <1>1, <2>1, <2>2
<1>3. n * BlockSize + rest = z
  <2>1. z = BlockSize * n + r
    BY DEF Parts
  <2>2. n * BlockSize = BlockSize * n
    OBVIOUS
  <2> QED
    BY <1>1, <2>1, <2>2
<1>4. Verdict(z, rest) = "success"
  BY <1>2, <1>3 DEF Verdict
<1>5. Written(files, ids, z, rest) =
        Written1(files, ids, n)
        \o IF r = 0 THEN << >> ELSE <<<<WrittenBlock(files, ids, n + 1), r>>>>
  BY <1>1, <1>2 DEF Written, Written1
<1>6. /\ Written1(files, ids, n) = Blocks1(v, n)
      /\ WrittenBlock(files, ids, n + 1) = BlockAt(v, n)
  BY WholeFull
<1>7. Original(v, z) =
        Blocks1(v, n) \o IF r = 0 THEN << >> ELSE <<<<BlockAt(v, n), r>>>>
  BY OriginalIs
<1> QED
  BY <1>4, <1>5, <1>6, <1>7

(* Whole stripes, and a success: nothing is written behind them.           *)
LEMMA StripesSucceed ==
  ASSUME NEW files, NEW ids, NEW v, NEW z \in Nat, AllWhole(files, ids, v, z),
         NEW q \in Nat \ {0}, NEW b \in 0..(K - 1), NEW n \in Nat, NEW r \in Nat,
         Parts(z, q, 0, b, n, r),
         NEW rest \in NonFullBlockSizes(z), Verdict(z, rest) = "success", LooksWhole(z)
  PROVE  Written(files, ids, z, rest) = Original(v, z)
<1>1. NumOfStrip(z) = q /\ NonFullBlockInd(z) = K
  <2>1. NumOfStrip(z) = z \div StripeSize
    BY DEF NumOfStrip
  <2>2. NonFullBlockInd(z) = K
    BY DEF NonFullBlockInd
  <2> QED
    BY <2>1, <2>2, Zenon DEF Parts
<1>2. q * K \in Nat /\ n = q * K + b
  BY DEF Parts
<1>3. (q * K) * BlockSize \in Nat /\ BlockSize * (q * K) = (q * K) * BlockSize
  BY <1>2
<1>4. z = BlockSize * (q * K)
  <2>1. z = StripeSize * q + 0
    BY DEF Parts
  <2>2. StripeSize * q = BlockSize * (q * K)
    BY DEF StripeSize
  <2> QED
    BY <1>3, <2>1, <2>2
<1>5. n = q * K /\ r = 0
  <2> DEFINE m == q * K
  <2>1. m \in Nat
    BY <1>2
  <2>2. z = BlockSize * m + 0
    BY <1>3, <1>4
  <2> HIDE DEF m
  <2>3. 0 \in 0..(BlockSize - 1)
    OBVIOUS
  <2>4. z \div BlockSize = m /\ z % BlockSize = 0
    <3>1. ASSUME NEW r0 \in 0..(BlockSize - 1), z = BlockSize * m + r0
          PROVE  z \div BlockSize = m /\ z % BlockSize = r0
      BY <2>1, <3>1, DivIs
    <3> QED
      BY <2>2, <2>3, <3>1
  <2>5. n = m /\ r = 0
    BY <2>4, Zenon DEF Parts
  <2> QED
    BY <2>5 DEF m
<1>6. (NumOfStrip(z) - 1) * K + NonFullBlockInd(z) = n /\ NumOfStrip(z) # 0
  <2>1. (q - 1) * K + K = q * K /\ q # 0
    OBVIOUS
  <2> QED
    BY <1>1, <1>5, <2>1
<1>7. n * BlockSize + rest = z
  BY <1>6 DEF Verdict
<1>8. rest = 0
  <2>1. z % StripeSize = 0
    BY Zenon DEF Parts
  <2>2. rest \in Int
    BY <2>1 DEF NonFullBlockSizes
  <2>3. n * BlockSize = z /\ n * BlockSize \in Nat
    BY <1>3, <1>4, <1>5
  <2> QED
    BY <1>7, <2>2, <2>3
<1>9. Written(files, ids, z, rest) = Written1(files, ids, n) \o << >>
  BY <1>6, <1>8 DEF Written, Written1
<1>10. Written1(files, ids, n) = Blocks1(v, n)
  BY WholeFull
<1>11. Original(v, z) = Blocks1(v, n) \o << >>
  <2>1. Original(v, z) =
          Blocks1(v, n) \o IF r = 0 THEN << >> ELSE <<<<BlockAt(v, n), r>>>>
    BY OriginalIs
  <2> QED
    BY <1>5, <2>1
<1> QED
  BY <1>9, <1>10, <1>11

LEMMA WholeRestores ==
  ASSUME NEW files, NEW ids, NEW v, NEW z \in Nat, AllWhole(files, ids, v, z),
         NEW rest \in NonFullBlockSizes(z)
  PROVE  LET how == Verdict(z, rest)
             data == Written(files, ids, z, rest)
         IN  \/ how = "success" /\ data = Original(v, z)
             \/ how = "silent" /\ data = << >> /\ z <= StripeSize \div 1000
             \/ /\ LooksWhole(z) /\ z >= StripeSize
                /\ how = "success" => z % StripeSize # 0
<1>1. PICK q \in Nat, w \in 0..(StripeSize - 1), b \in 0..(K - 1), n \in Nat, r \in Nat :
        Parts(z, q, w, b, n, r)
  <2>1. /\ z \div StripeSize \in Nat /\ z % StripeSize \in 0..(StripeSize - 1)
        /\ (z % StripeSize) \div BlockSize \in 0..(K - 1)
        /\ z % BlockSize \in 0..(BlockSize - 1)
        /\ Parts(z, z \div StripeSize, z % StripeSize, (z % StripeSize) \div BlockSize,
                 z \div BlockSize, z % BlockSize)
    BY SizeParts, Zenon DEF Parts
  <2>2. z % BlockSize \in Nat /\ z \div BlockSize \in Nat
    BY <2>1, DivFacts
  <2> QED
    BY <2>1, <2>2, Zenon
<1>2. StripeSize \in Nat \ {0} /\ w \in Nat
  BY StripeSizes
<1>3. CASE ~LooksWhole(z)
  BY <1>1, <1>3, RestSucceeds
<1>4. CASE LooksWhole(z)
  <2>1. w = z % StripeSize /\ q = z \div StripeSize /\ z = StripeSize * q + w
    BY <1>1 DEF Parts
  <2>2. CASE q = 0
    <3>1. z = w
      <4>1. z = StripeSize * 0 + w
        BY <2>1, <2>2
      <4> QED
        BY <1>2, <4>1
    <3>2. 1000 * z <= StripeSize
      <4>1. 1000 * w <= StripeSize
        BY <1>4, <2>1 DEF LooksWhole
      <4> QED
        BY <3>1, <4>1
    <3>3. z <= StripeSize \div 1000
      <4>1. ASSUME NEW S \in Nat, NEW y \in Nat, 1000 * y <= S PROVE y <= S \div 1000
        BY <4>1
      <4> QED
        BY <1>2, <3>2, <4>1
    <3>4. NumOfStrip(z) = 0
      <4>1. NumOfStrip(z) = z \div StripeSize
        BY <1>4 DEF NumOfStrip
      <4> QED
        BY <2>1, <2>2, <4>1
    <3>5. Verdict(z, rest) = "silent" /\ Written(files, ids, z, rest) = << >>
      BY <3>4 DEF Verdict, Written
    <3> QED
      BY <3>3, <3>5
  <2>3. CASE q # 0
    <3>1. z >= StripeSize
      <4>1. StripeSize * q >= StripeSize * 1 /\ StripeSize * 1 = StripeSize
            /\ StripeSize * q \in Nat
        BY <1>2, <2>3
      <4> QED
        BY <1>2, <2>1, <4>1
    <3>2. w = 0 /\ Verdict(z, rest) = "success" => Written(files, ids, z, rest) = Original(v, z)
      BY <1>1, <1>4, <2>3, StripesSucceed
    <3> QED
      BY <1>4, <2>1, <3>1, <3>2
  <2> QED
    BY <2>2, <2>3
<1> QED
  BY <1>3, <1>4

-----------------------------------------------------------------------------
(* The inductive invariant.  What the client has done, ...                 *)

Delivering == pc \in {"put", "reply"}
Last == LastStripe(size)

(* The first stripe goes to every server, and no server misses a stripe    *)
(* that another one missed.                                                *)
Client ==
  /\ ver <= runs /\ (ver > 0 => size \in Sizes)
  /\ pc = "reply" => i = 0 /\ ready # {}
  /\ Delivering =>
       /\ ver > 0
       /\ ready \cap sent = {}
       /\ i = 0 => ready \cup sent \in {{}, Servers}
  /\ \A s, t \in Servers : s # t => missed[s] \cap missed[t] = {}

(* ... and for each server:  What its thread has in its connection.        *)
Thread(s) ==
  /\ s \notin up => thr[s] = "none"
  /\ thr[s] = "none" => chan[s] = << >>
  /\ thr[s] = "request" => chan[s] \in {<< >>, <<Request>>}
  /\ thr[s] = "data" =>
       \A m \in 1..Len(chan[s]) :
         chan[s][m] \in Nat \/ (chan[s][m] = End /\ m = Len(chan[s]))

(* Its turn in the delivery loop.  It is asked before it gets a block.     *)
Awaited(s) == pc = "reply" /\ s = First(ready)

Turn(s) ==
  Delivering =>
    /\ i > 0 /\ s \in ready => thr[s] = "none" \/ Len(chan[s]) < Capacity
    /\ i > 0 \/ s \in sent => thr[s] # "request"
    /\ i = 0 /\ s \notin sent /\ ~Awaited(s) => thr[s] # "data" /\ chan[s] = << >>
    /\ Awaited(s) /\ thr[s] = "data" => file[s] = << >> /\ chan[s] = << >>

MissedBy(s) ==
  /\ 0 \notin missed[s] /\ missed[s] \subseteq 0..Last
  /\ Delivering => missed[s] \subseteq 0..(i - 1)

(* The stripes in a file and, behind them, in a connection.                *)
HasEnd(c) == c # << >> /\ c[Len(c)] = End
Coming(c) == IF HasEnd(c) THEN Len(c) - 1 ELSE Len(c)
Count(f, c) == Len(f) + Coming(c)
Item(f, c, m) == IF m <= Len(f) THEN f[m].stripe ELSE c[m - Len(f)]
Items(f, c) == {Item(f, c, m) : m \in 1..Count(f, c)}

Given(s) == ((0..(i - 1)) \ missed[s]) \cup (IF s \in sent THEN {i} ELSE {})
Kept(s)  == (0..Last) \ missed[s]

(* Blocks are stored and travel in order, and are those that were sent.    *)
Flow(s) ==
  /\ \A m \in 1..Len(file[s]) : file[s][m] = Block(ver, file[s][m].stripe, s - 1)
  /\ \A m, n \in 1..Count(file[s], chan[s]) :
       m < n => Item(file[s], chan[s], m) < Item(file[s], chan[s], n)
  /\ Delivering =>
       /\ Items(file[s], chan[s]) = Given(s)
       /\ i = Last /\ s \in sent => HasEnd(chan[s])
  /\ HasEnd(chan[s]) =>
       /\ Items(file[s], chan[s]) = Kept(s) /\ Last \notin missed[s]
       /\ Delivering => i = Last /\ s \in sent

(* MetaAfterBlocks of a server.                                            *)
Closed(s) ==
  meta[s] # None /\ file[s] \notin {NoFile, << >>} /\ file[s][1].ver = meta[s][1] =>
    /\ file[s][Len(file[s])].stripe = LastStripe(meta[s][2])
    /\ meta[s][1] = ver => Len(file[s]) = Last + 1 - Cardinality(missed[s])

Disk(s) ==
  /\ ver = 0 => file[s] = NoFile /\ meta[s] = None /\ thr[s] = "none"
  /\ meta[s] # None =>
       /\ meta[s][1] \in 0..ver
       /\ thr[s] # "none" => meta[s][1] < ver
       /\ Delivering /\ meta[s][1] = ver => i = Last /\ s \in sent
  /\ s \notin torn => Closed(s)

(* Nobody was killed: what it has stored when its thread is done.          *)
Stored(s) ==
  /\ \A m \in 1..Len(file[s]) : file[s][m] = Block(ver, file[s][m].stripe, s - 1)
  /\ \A m, n \in 1..Len(file[s]) : m < n => file[s][m].stripe < file[s][n].stripe
  /\ {file[s][m].stripe : m \in 1..Len(file[s])} = Kept(s)

Undisturbed(s) ==
  /\ thr[s] = "none" => Stored(s)
  /\ thr[s] = "none" /\ Delivering => i = Last /\ s \in sent
  /\ thr[s] = "data" /\ ~Delivering => Items(file[s], chan[s]) = Kept(s)
  /\ thr[s] = "request" => Delivering

(* ... nor left out.                                                       *)
Runs(s) ==
  /\ s \in up
  /\ thr[s] = "none" /\ ver > 0 => meta[s] # None
  /\ thr[s] = "data" /\ ~Delivering => HasEnd(chan[s])

Server(s) ==
  /\ Thread(s) /\ Turn(s) /\ MissedBy(s)
  /\ thr[s] = "data" => Flow(s)
  /\ Disk(s)
  /\ faults = 0 /\ ver > 0 => Undisturbed(s)
  /\ faults = 0 /\ ~leftOut => Runs(s)

(* A get: the size it has so far.                                          *)
Getting ==
  /\ pc \in {"get", "spin"} => \A s \in Servers : thr[s] = "none"
  /\ pc = "get" =>
       /\ Cardinality(ava) = K
       /\ answer = None
       /\ (\A s \in got : Whole(s)) => fsize = (IF got = {} THEN 0 ELSE AsInt(size))

StripesInv ==
  /\ TypeOK /\ Client
  /\ \A s \in Servers : Server(s)
  /\ Getting /\ WholeServersRestore

-----------------------------------------------------------------------------
(* What a step leaves alone.                                               *)

(* The client's place in the delivery stays the same.                      *)
Stays ==
  /\ UNCHANGED <<ver, size, i, ready, sent>>
  /\ Delivering' <=> Delivering
  /\ pc' = "reply" <=> pc = "reply"

SameServer(s) ==
  /\ thr'[s] = thr[s] /\ chan'[s] = chan[s] /\ file'[s] = file[s] /\ meta'[s] = meta[s]
  /\ missed'[s] = missed[s]
  /\ s \in torn' <=> s \in torn
  /\ s \notin up' => thr[s] = "none"
  /\ faults' = 0 => faults = 0
  /\ ~leftOut' => ~leftOut
  /\ faults' = 0 /\ ~leftOut' => s \in up'

(* A server that a step does not touch.                                    *)
LEMMA FrameButTurn ==
  ASSUME NEW s \in Servers, Server(s), SameServer(s), UNCHANGED <<ver, size, i>>,
         Delivering' <=> Delivering, s \in sent' <=> s \in sent,
         Turn(s)'
  PROVE  Server(s)'
<1> USE DEF SameServer
<1>1. Thread(s)'
  BY DEF Server, Thread
<1>2. MissedBy(s)'
  BY DEF Server, MissedBy, Last
<1>3. Kept(s)' = Kept(s) /\ Given(s)' = Given(s)
  BY DEF Kept, Given, Last
<1>4. Flow(s) => Flow(s)'
  BY <1>3 DEF Flow, Last
<1>5. Disk(s)'
  BY DEF Server, Disk, Closed, Last
<1>6. Undisturbed(s) => Undisturbed(s)'
  BY <1>3 DEF Undisturbed, Stored, Last
<1>7. faults' = 0 /\ ver' > 0 => Undisturbed(s)'
  BY <1>6 DEF Server
<1>8. faults' = 0 /\ ~leftOut' => Runs(s)'
  BY <1>3 DEF Server, Runs
<1> QED
  BY <1>1, <1>2, <1>4, <1>5, <1>7, <1>8 DEF Server

LEMMA Frame ==
  ASSUME NEW s \in Servers, Server(s), Stays, SameServer(s)
  PROVE  Server(s)'
<1>1. Turn(s)'
  BY DEF Server, Turn, Awaited, Stays, SameServer
<1> QED
  BY <1>1, FrameButTurn DEF Stays

(* ... when the client stops delivering, and a process was killed.         *)
LEMMA FrameStops ==
  ASSUME NEW s \in Servers, Server(s), SameServer(s), UNCHANGED <<ver, size, i>>,
         ~Delivering', faults' # 0
  PROVE  Server(s)'
<1> USE DEF SameServer
<1>1. Thread(s)' /\ Turn(s)' /\ MissedBy(s)'
  BY DEF Server, Thread, Turn, MissedBy, Last
<1>2. Kept(s)' = Kept(s)
  BY DEF Kept, Last
<1>3. Flow(s) => Flow(s)'
  BY <1>2 DEF Flow, Last
<1>4. Disk(s)'
  BY DEF Server, Disk, Closed, Last
<1> QED
  BY <1>1, <1>3, <1>4 DEF Server

LEMMA FrameClient ==
  ASSUME Client, Stays, runs' >= runs, ver \in Int, runs \in Int, runs' \in Int,
         UNCHANGED missed
  PROVE  Client'
BY DEF Client, Stays

LEMMA FrameAll ==
  ASSUME StripesInv, Stays, \A s \in Servers : SameServer(s), runs' \in {runs, runs + 1},
         UNCHANGED missed
  PROVE  Client' /\ \A s \in Servers : Server(s)'
<1>1. ver \in Int /\ runs \in Int
  BY DEF StripesInv, TypeOK
<1>2. Client'
  BY <1>1, FrameClient DEF StripesInv
<1> QED
  BY <1>2, Frame DEF StripesInv

LEMMA FrameGetting ==
  ASSUME Getting, pc' \in {"get", "spin"} => pc' = pc,
         UNCHANGED <<thr, ava, got, fsize, answer, file, meta, ver, size>>
  PROVE  Getting'
BY DEF Getting, Whole

LEMMA FrameRestored ==
  ASSUME WholeServersRestore, UNCHANGED <<answer, got, ver, size>>
  PROVE  WholeServersRestore'
BY DEF WholeServersRestore

LEMMA NoAnswer ==
  ASSUME answer' = None \/ answer'.how \notin {"success", "mismatch", "silent"}
  PROVE  WholeServersRestore'
BY DEF WholeServersRestore

(* The first k of a set.                                                   *)
LEMMA FirstsOf ==
  ASSUME NEW S \in SUBSET Nat, IsFiniteSet(S), NEW k \in 0..Cardinality(S)
  PROVE  Cardinality({s \in S : Cardinality({t \in S : t < s}) < k}) = k
<1> DEFINE n == Cardinality(S)
           f == [m \in 1..k |-> Sorted(S)[m]]
<1>1. /\ n \in Nat
      /\ \A m \in 1..n : Sorted(S)[m] \in S /\ Rank(S, Sorted(S)[m]) = m
      /\ \A x \in S : Rank(S, x) \in 1..n /\ Sorted(S)[Rank(S, x)] = x
  BY SortedFacts
<1>2. ASSUME NEW s \in S PROVE Rank(S, s) = Cardinality({t \in S : t < s}) + 1
  <2> DEFINE U == {t \in S : t < s}
  <2>1. IsFiniteSet(U)
    BY FS_Subset
  <2>2. {t \in S : t <= s} = U \cup {s} /\ s \notin U
    <3>1. \A t \in S : t <= s <=> (t < s \/ t = s)
      OBVIOUS
    <3>2. s \notin U
      OBVIOUS
    <3> QED
      BY <3>1, <3>2
  <2> HIDE DEF U
  <2>3. Cardinality(U \cup {s}) = Cardinality(U) + 1
    BY <2>1, <2>2, FS_AddElement
  <2> QED
    BY <2>2, <2>3 DEF Rank, U
<1>3. \A s \in S : Cardinality({t \in S : t < s}) \in Nat
  <2> SUFFICES ASSUME NEW s \in S PROVE Cardinality({t \in S : t < s}) \in Nat
    OBVIOUS
  <2>1. IsFiniteSet({t \in S : t < s})
    BY FS_Subset
  <2> QED
    BY <2>1, FS_CardinalityType
<1> HIDE DEF n
<1>4. k \in Nat /\ k <= n
  BY <1>1 DEF n
<1>5. {s \in S : Cardinality({t \in S : t < s}) < k} = {f[m] : m \in 1..k}
  <2>1. ASSUME NEW s \in S, Cardinality({t \in S : t < s}) < k
        PROVE  s \in {f[m] : m \in 1..k}
    <3>1. Rank(S, s) \in 1..k /\ Sorted(S)[Rank(S, s)] = s
      BY <1>1, <1>2, <1>3, <1>4, <2>1
    <3> QED
      BY <3>1
  <2>2. ASSUME NEW m \in 1..k
        PROVE  f[m] \in S /\ Cardinality({t \in S : t < f[m]}) < k
    <3> DEFINE s == f[m]
    <3>1. s \in S /\ Rank(S, s) = m
      BY <1>1, <1>4
    <3> HIDE DEF s
    <3>2. Cardinality({t \in S : t < s}) < k
      BY <1>2, <1>3, <1>4, <3>1
    <3> QED
      BY <3>1, <3>2 DEF s
  <2> QED
    BY <2>1, <2>2
<1>6. f \in [1..k -> Nat]
  <2>1. ASSUME NEW m \in 1..k PROVE Sorted(S)[m] \in Nat
    <3>1. m \in 1..n
      BY <1>1, <1>4
    <3> QED
      BY <1>1, <3>1
  <2> QED
    BY <2>1
<1>7. \A a, b \in 1..k : a < b => f[a] < f[b]
  <2> SUFFICES ASSUME NEW a \in 1..k, NEW b \in 1..k, a < b
               PROVE  Sorted(S)[a] < Sorted(S)[b]
    OBVIOUS
  <2> DEFINE x == Sorted(S)[a]
             y == Sorted(S)[b]
  <2>1. x \in S /\ y \in S /\ Rank(S, x) = a /\ Rank(S, y) = b
    BY <1>1, <1>4
  <2> HIDE DEF x, y
  <2>2. y < x => Rank(S, y) < Rank(S, x)
    BY <2>1, RankGrows
  <2>3. x # y
    BY <2>1
  <2>4. x < y
    BY <2>1, <2>2, <2>3
  <2> QED
    BY <2>4 DEF x, y
<1> HIDE DEF f
<1>8. Cardinality({f[m] : m \in 1..k}) = k
  BY <1>4, <1>6, <1>7, Enumerates
<1> QED
  BY <1>5, <1>8

LEMMA ServersFinite ==
  /\ Servers \in SUBSET Nat /\ IsFiniteSet(Servers) /\ Cardinality(Servers) = N
  /\ \A S \in SUBSET Servers :
       IsFiniteSet(S) /\ S \in SUBSET Nat /\ Cardinality(S) \in 0..N
<1>1. Servers \in SUBSET Nat /\ IsFiniteSet(Servers) /\ Cardinality(Servers) = N
  <2>1. IsFiniteSet(1..N) /\ Cardinality(1..N) = IF 1 > N THEN 0 ELSE N - 1 + 1
    BY FS_Interval
  <2> QED
    BY <2>1 DEF Servers
<1>2. ASSUME NEW S \in SUBSET Servers
      PROVE  IsFiniteSet(S) /\ S \in SUBSET Nat /\ Cardinality(S) \in 0..N
  <2>1. IsFiniteSet(S) /\ Cardinality(S) <= N
    BY <1>1, FS_Subset
  <2>2. Cardinality(S) \in Nat
    BY <2>1, FS_CardinalityType
  <2> QED
    BY <1>1, <2>1, <2>2
<1> QED
  BY <1>1, <1>2

(* TypeOK in parts.                                                        *)
ClientTypes ==
  /\ pc \in {"off", "put", "reply", "get", "spin"}
  /\ ver \in 0..MaxRuns
  /\ size \in Sizes \cup {0}
  /\ i \in 0..LastStripe(size)
  /\ ready \subseteq Servers /\ sent \subseteq Servers

Answers ==
  {None} \cup [how : {"failed", "nothing", "undefined"}]
    \cup [how : {"success", "mismatch", "silent"}, whole : BOOLEAN,
          data : Seq(Blocks \X (1..StripeSize))]

GetterTypes ==
  /\ ava \subseteq Servers /\ got \subseteq ava
  /\ fsize \in Int
  /\ dc \in BOOLEAN /\ unset \in BOOLEAN
  /\ answer \in Answers

ServerTypes ==
  /\ up \subseteq Servers
  /\ thr \in [Servers -> {"none", "request", "data"}]
  /\ chan \in [Servers -> Seq({Request, End} \cup Nat)]
  /\ \A s \in Servers : Len(chan[s]) <= Capacity + 1
  /\ file \in [Servers -> Seq(Blocks)]
  /\ meta \in [Servers -> Metas]

HistoryTypes ==
  /\ runs \in 0..MaxRuns /\ faults \in 0..MaxFaults
  /\ ended \in {"none", "done", "exit", "killed"}
  /\ missed \in [Servers -> SUBSET Nat]
  /\ torn \subseteq Servers /\ leftOut \in BOOLEAN

LEMMA TypeParts ==
  /\ TypeOK => ClientTypes /\ GetterTypes /\ ServerTypes /\ HistoryTypes
  /\ ClientTypes' /\ GetterTypes' /\ ServerTypes' /\ HistoryTypes' => TypeOK'
BY DEF TypeOK, ClientTypes, GetterTypes, ServerTypes, HistoryTypes, Answers

LEMMA FrameTypes ==
  /\ ClientTypes /\ UNCHANGED <<pc, ver, size, i, ready, sent>> => ClientTypes'
  /\ GetterTypes /\ UNCHANGED <<ava, got, fsize, dc, unset, answer>> => GetterTypes'
  /\ ServerTypes /\ UNCHANGED <<up, thr, chan, file, meta>> => ServerTypes'
  /\ HistoryTypes /\ UNCHANGED <<runs, faults, ended, missed, torn, leftOut>> => HistoryTypes'
BY DEF ClientTypes, GetterTypes, ServerTypes, HistoryTypes

-----------------------------------------------------------------------------
(* The steps of a get, and those between two clients.                      *)

LEMMA StartGetStep ==
  ASSUME StripesInv, StartGet
  PROVE  StripesInv'
<1> USE DEF StartGet, Starts
<1>1. TypeOK /\ up \subseteq Servers
  BY DEF StripesInv, TypeOK
<1>2. TypeOK'
  <2>1. ClientTypes /\ ServerTypes /\ HistoryTypes
    BY <1>1, TypeParts
  <2>2. ClientTypes'
    BY <2>1 DEF ClientTypes, client
  <2>3. ServerTypes'
    BY <2>1, FrameTypes DEF servers
  <2>4. HistoryTypes'
    BY <2>1 DEF HistoryTypes
  <2>5. GetterTypes'
    <3>1. ava' \subseteq Servers /\ got' \subseteq ava' /\ fsize' \in Int
          /\ dc' \in BOOLEAN /\ unset' \in BOOLEAN
      <4>1. ava' \subseteq up
        BY Zenon
      <4>2. ava' \subseteq Servers
        BY <1>1, <4>1, Zenon
      <4>3. dc' \in BOOLEAN /\ unset' \in BOOLEAN
        BY Zenon
      <4>4. got' = {} /\ fsize' = 0
        BY Zenon
      <4>5. got' \subseteq ava' /\ fsize' \in Int
        BY <4>4
      <4> QED
        BY <4>2, <4>3, <4>5, Zenon
    <3>2. answer' \in Answers
      BY Zenon DEF Answers
    <3> QED
      BY <3>1, <3>2 DEF GetterTypes
  <2> QED
    BY <2>2, <2>3, <2>4, <2>5, TypeParts
<1>3. Client' /\ \A s \in Servers : Server(s)'
  <2>1. Stays
    BY DEF Stays, Delivering, client
  <2>2. \A s \in Servers : SameServer(s)
    BY DEF StripesInv, SameServer, servers, Server, Thread, Runs
  <2> QED
    BY <2>1, <2>2, FrameAll
<1>4. Getting'
  <2>1. Cardinality(ava') = K
    <3>1. IsFiniteSet(up) /\ up \in SUBSET Nat /\ K \in 0..Cardinality(up)
      BY <1>1, ServersFinite
    <3> QED
      BY <3>1, FirstsOf
  <2>2. got' = {} /\ fsize' = 0
    OBVIOUS
  <2>3. \A s \in Servers : thr'[s] = "none"
    BY DEF servers
  <2> QED
    BY <2>1, <2>2, <2>3 DEF Getting
<1>5. WholeServersRestore'
  BY NoAnswer
<1> QED
  BY <1>2, <1>3, <1>4, <1>5 DEF StripesInv

LEMMA RefusedStep ==
  ASSUME StripesInv, PutRefused \/ GetRefused
  PROVE  StripesInv'
<1>1. PICK missing \in Int : GivesUp(missing)
  BY DEF PutRefused, GetRefused
<1> USE DEF GivesUp, Starts
<1>2. TypeOK /\ up \subseteq Servers
  BY DEF StripesInv, TypeOK
<1>3. up' \subseteq up
  BY <1>1
<1>4. TypeOK'
  <2>1. ClientTypes /\ ServerTypes /\ HistoryTypes /\ GetterTypes
    BY <1>2, TypeParts
  <2>2. ClientTypes'
    BY <1>1, <2>1, FrameTypes DEF client
  <2>3. ServerTypes'
    BY <1>1, <1>2, <1>3, <2>1 DEF ServerTypes
  <2>4. HistoryTypes'
    BY <1>1, <2>1 DEF HistoryTypes
  <2>5. GetterTypes'
    <3>1. answer' \in Answers
      BY <1>1, Zenon DEF Answers
    <3> QED
      BY <1>1, <2>1, <3>1 DEF GetterTypes
  <2> QED
    BY <2>2, <2>3, <2>4, <2>5, TypeParts
<1>5. ~(faults = 0 /\ ~leftOut)
  <2> SUFFICES ASSUME faults = 0, ~leftOut PROVE FALSE
    OBVIOUS
  <2>1. up = Servers
    BY <1>2 DEF StripesInv, Server, Runs
  <2>2. ~(Cardinality(Servers) < K)
    BY ServersFinite
  <2> QED
    BY <2>1, <2>2 DEF PutRefused, GetRefused
<1>6. Client' /\ \A s \in Servers : Server(s)'
  <2>1. Stays
    BY <1>1 DEF Stays, Delivering, client
  <2>2. \A s \in Servers : SameServer(s)
    BY <1>1, <1>5 DEF SameServer
  <2>3. runs' \in {runs, runs + 1} /\ UNCHANGED missed
    BY <1>1
  <2> QED
    BY <2>1, <2>2, <2>3, FrameAll
<1>7. Getting'
  BY <1>1 DEF Getting
<1>8. WholeServersRestore'
  BY <1>1, NoAnswer
<1> QED
  BY <1>4, <1>6, <1>7, <1>8 DEF StripesInv

LEMMA AskedFacts ==
  ASSUME StripesInv, pc = "get", Cardinality(got) < K
  PROVE  Asked \in ava /\ Asked \in Servers /\ Asked \notin got
<1>1. ava \subseteq Servers /\ got \subseteq ava /\ Cardinality(ava) = K
  BY DEF StripesInv, TypeOK, Getting
<1>2. ava \ got # {} /\ ava \ got \in SUBSET Nat
  <2>1. ava # got
    BY <1>1
  <2>2. Servers \in SUBSET Nat
    BY ServersFinite
  <2> QED
    BY <1>1, <2>1, <2>2
<1>3. Asked \in ava \ got
  BY <1>2, FirstFacts DEF Asked
<1> QED
  BY <1>1, <1>3

(* A step of a get: the servers are asked and change nothing.              *)
LEMMA FrameGet ==
  ASSUME StripesInv, pc = "get", pc' \in {"get", "off"},
         UNCHANGED <<client, servers, faults, runs, missed, torn, leftOut>>
  PROVE  Client' /\ \A s \in Servers : Server(s)'
<1>1. Stays
  BY DEF Stays, Delivering, client
<1>2. \A s \in Servers : SameServer(s)
  BY DEF StripesInv, SameServer, Server, Thread, Runs, servers
<1>3. runs' \in {runs, runs + 1} /\ UNCHANGED missed
  OBVIOUS
<1> QED
  BY <1>1, <1>2, <1>3, FrameAll

(* The size that a server gives, if it has any.                            *)
LEMMA MetaTypes ==
  ASSUME TypeOK, NEW s \in Servers, meta[s] # None
  PROVE  meta[s][1] \in 0..MaxRuns /\ meta[s][2] \in Nat
<1>1. meta[s] \in Metas /\ 0 \in 0..MaxRuns
  BY DEF TypeOK
<1>2. CASE meta[s] = Empty
  BY <1>1, <1>2 DEF Empty
<1>3. CASE meta[s] # Empty
  <2>1. PICK v \in 1..MaxRuns, z \in Sizes : meta[s] = <<v, z>>
    BY <1>1, <1>3, SMT DEF Metas
  <2> QED
    BY <2>1
<1> QED
  BY <1>2, <1>3

LEMMA AsIntFacts ==
  ASSUME NEW z \in Nat
  PROVE  AsInt(z) \in Int /\ (z < IntMax => AsInt(z) = z)
<1>1. 2 * IntMax \in Nat \ {0}
  OBVIOUS
<1>2. z % (2 * IntMax) \in Nat
  BY <1>1, DivFacts
<1>3. AsInt(z) \in Int
  <2> DEFINE low == z % (2 * IntMax)
  <2> HIDE DEF low
  <2>1. low \in Nat
    BY <1>2 DEF low
  <2>2. AsInt(z) = IF low < IntMax THEN low ELSE low - 2 * IntMax
    BY DEF AsInt, low
  <2> QED
    BY <2>1, <2>2
<1>4. ASSUME z < IntMax PROVE z % (2 * IntMax) = z
  <2>1. z \in 0..(2 * IntMax - 1)
    BY <1>4
  <2>2. z = (2 * IntMax) * 0 + z /\ 0 \in Nat
    OBVIOUS
  <2> QED
    BY <1>1, <2>1, <2>2, DivIs
<1> QED
  BY <1>3, <1>4 DEF AsInt

LEMMA FetchStep ==
  ASSUME StripesInv, Fetch
  PROVE  StripesInv'
<1> USE DEF Fetch, Fetched
<1>1. TypeOK /\ Asked \in ava /\ Asked \in Servers
  BY AskedFacts DEF StripesInv
<1> DEFINE z == meta[Asked][2]
<1>2. z \in Nat /\ AsInt(z) \in Int
  <2>1. meta[Asked][2] \in Nat
    BY <1>1, MetaTypes
  <2> QED
    BY <2>1, AsIntFacts
<1>3. fsize' = (IF fsize = 0 THEN AsInt(z) ELSE fsize)
  OBVIOUS
<1> HIDE DEF z
<1>4. TypeOK'
  <2>1. ClientTypes /\ ServerTypes /\ HistoryTypes /\ GetterTypes
    BY <1>1, TypeParts
  <2>2. ClientTypes' /\ ServerTypes' /\ HistoryTypes'
    BY <2>1, FrameTypes DEF client, servers, history
  <2>3. dc' \in BOOLEAN
    BY Zenon
  <2>4. GetterTypes'
    BY <1>1, <1>2, <1>3, <2>1, <2>3 DEF GetterTypes
  <2> QED
    BY <2>2, <2>4, TypeParts
<1>5. Client' /\ \A s \in Servers : Server(s)'
  BY FrameGet DEF history
<1>6. Getting'
  <2>1. /\ \A s \in Servers : thr[s] = "none"
        /\ Cardinality(ava) = K
        /\ answer = None
        /\ (\A s \in got : Whole(s)) => fsize = (IF got = {} THEN 0 ELSE AsInt(size))
    BY DEF StripesInv, Getting
  <2>2. \A s \in Servers : Whole(s)' <=> Whole(s)
    BY DEF Whole, client, servers
  <2>3. got' = got \cup {Asked} /\ got' # {} /\ got' \subseteq Servers
    BY <1>1 DEF TypeOK
  <2>4. ASSUME \A s \in got' : Whole(s)'
        PROVE  fsize' = AsInt(size')
    <3>1. \A s \in got' : Whole(s)
      BY <2>2, <2>3, <2>4
    <3>2. fsize = (IF got = {} THEN 0 ELSE AsInt(size))
      BY <2>1, <2>3, <3>1
    <3>3. z = size
      BY <2>3, <3>1 DEF Whole, z
    <3> QED
      BY <1>3, <3>2, <3>3 DEF client
  <2> QED
    BY <2>1, <2>3, <2>4 DEF Getting, servers
<1>7. WholeServersRestore'
  BY NoAnswer DEF StripesInv, Getting
<1> QED
  BY <1>4, <1>5, <1>6, <1>7 DEF StripesInv

LEMMA SizeNat == ASSUME TypeOK PROVE size \in Nat /\ Last \in Nat /\ i \in 0..Last
<1>1. size \in Nat
  BY DEF TypeOK
<1>2. LastStripe(size) \in Nat
  BY <1>1, StripeSizes, DivFacts DEF LastStripe
<1> QED
  BY <1>1, <1>2 DEF TypeOK, Last

(* A server that stored a put has a file and its size.                     *)
LEMMA WholeHasFile ==
  ASSUME StripesInv, NEW s \in Servers, Whole(s)
  PROVE  file[s] # NoFile /\ meta[s] = <<ver, size>>
<1>1. TypeOK /\ Disk(s)
  BY DEF StripesInv, Server
<1>2. meta[s] = <<ver, size>> /\ file[s] = AllBlocks(ver, size, s)
  BY DEF Whole
<1>3. ver \in Nat /\ ver # 0
  <2>1. meta[s] # None
    BY <1>2 DEF None
  <2> QED
    BY <1>1, <2>1 DEF Disk, TypeOK
<1>4. AllBlocks(ver, size, s)[1] = Block(ver, 0, s - 1)
  <2>1. LastStripe(size) \in Nat
    BY <1>1, SizeNat DEF Last
  <2>2. 1 \in 1..(LastStripe(size) + 1) /\ 1 - 1 = 0
    BY <2>1
  <2> QED
    BY <2>2 DEF AllBlocks
<1>5. ASSUME file[s] = NoFile PROVE FALSE
  <2>1. Block(ver, 0, s - 1) = Block(0, 0, 0)
    BY <1>2, <1>4, <1>5 DEF NoFile, Garbage
  <2> QED
    BY <1>3, <2>1 DEF Block
<1> QED
  BY <1>2, <1>5

LEMMA FetchNothingStep ==
  ASSUME StripesInv, FetchNothing
  PROVE  StripesInv'
<1> USE DEF FetchNothing
<1>1. TypeOK /\ Asked \in ava /\ Asked \in Servers
  BY AskedFacts DEF StripesInv
<1>2. TypeOK'
  <2>1. ClientTypes /\ ServerTypes /\ HistoryTypes /\ GetterTypes
    BY <1>1, TypeParts
  <2>2. ClientTypes' /\ ServerTypes' /\ HistoryTypes'
    BY <2>1, FrameTypes DEF client, servers, history
  <2>3. dc' \in BOOLEAN /\ unset' \in BOOLEAN
    BY Zenon
  <2>4. GetterTypes'
    BY <1>1, <2>1, <2>3 DEF GetterTypes
  <2> QED
    BY <2>2, <2>4, TypeParts
<1>3. Client' /\ \A s \in Servers : Server(s)'
  BY FrameGet DEF history
<1>4. Getting'
  <2>1. (\A s \in Servers : thr[s] = "none") /\ Cardinality(ava) = K /\ answer = None
    BY DEF StripesInv, Getting
  <2>2. \A s \in Servers : Whole(s)' <=> Whole(s)
    BY DEF Whole, client, servers
  <2>3. PICK a \in Servers : a = Asked
    BY <1>1
  <2>4. ~Whole(a)
    BY <2>3, WholeHasFile
  <2>5. ~(\A s \in got' : Whole(s)')
    BY <2>2, <2>3, <2>4
  <2> QED
    BY <2>1, <2>5 DEF Getting, servers
<1>5. WholeServersRestore'
  BY NoAnswer DEF StripesInv, Getting
<1> QED
  BY <1>2, <1>3, <1>4, <1>5 DEF StripesInv

(* With nobody killed or left out, no server lacks what it is asked for.   *)
LEMMA FetchEndsStep ==
  ASSUME StripesInv, FetchCrashes \/ FetchFails
  PROVE  StripesInv'
<1>1. TypeOK /\ Asked \in ava /\ Asked \in Servers /\ pc = "get"
  BY AskedFacts DEF StripesInv, FetchCrashes, FetchFails
<1>2. PICK alive \in SUBSET up : Drops(alive)
  BY DEF FetchCrashes, FetchFails
<1>3. up' \subseteq up
  BY <1>2 DEF Drops
<1>4. /\ UNCHANGED <<client, ava, got, fsize, dc, unset, thr, chan, file, meta, runs, faults,
                 missed, torn, leftOut>>
      /\ ended' = "exit" /\ pc' = "off" /\ answer' = [how |-> "failed"]
  BY DEF FetchCrashes, FetchFails, GetEnds
<1>5. \A s \in Servers : thr[s] = "none"
  BY <1>1 DEF StripesInv, Getting
<1>6. ~(faults = 0 /\ ~leftOut)
  <2> SUFFICES ASSUME faults = 0, ~leftOut PROVE FALSE
    OBVIOUS
  <2>1. Runs(Asked) /\ Disk(Asked)
    BY <1>1 DEF StripesInv, Server
  <2>2. Asked \in up /\ (ver > 0 => meta[Asked] # None) /\ (ver = 0 => file[Asked] = NoFile)
    BY <1>1, <1>5, <2>1 DEF Runs, Disk
  <2>3. ver > 0 \/ ver = 0
    BY <1>1 DEF TypeOK
  <2> QED
    BY <2>2, <2>3 DEF FetchCrashes, FetchFails
<1>7. TypeOK'
  <2>1. ClientTypes /\ ServerTypes /\ HistoryTypes /\ GetterTypes
    BY <1>1, TypeParts
  <2>2. ClientTypes'
    BY <1>4, <2>1 DEF client, ClientTypes
  <2>3. ServerTypes'
    BY <1>3, <1>4, <2>1 DEF ServerTypes
  <2>4. HistoryTypes'
    BY <1>4, <2>1 DEF HistoryTypes
  <2>5. GetterTypes'
    <3>1. answer' \in Answers
      BY <1>4, Zenon DEF Answers
    <3> QED
      BY <1>4, <2>1, <3>1 DEF GetterTypes
  <2> QED
    BY <2>2, <2>3, <2>4, <2>5, TypeParts
<1>8. Client' /\ \A s \in Servers : Server(s)'
  <2>1. Stays
    BY <1>1, <1>4 DEF Stays, Delivering, client
  <2>2. \A s \in Servers : SameServer(s)
    BY <1>4, <1>5, <1>6 DEF SameServer
  <2>3. runs' \in {runs, runs + 1} /\ UNCHANGED missed
    BY <1>4
  <2> QED
    BY <2>1, <2>2, <2>3, FrameAll
<1>9. Getting'
  BY <1>4 DEF Getting
<1>10. WholeServersRestore'
  BY <1>4, NoAnswer
<1> QED
  BY <1>7, <1>8, <1>9, <1>10 DEF StripesInv

LEMMA FaultFacts ==
  ASSUME TypeOK, Fault
  PROVE  faults' # 0 /\ faults' \in 0..MaxFaults
BY DEF TypeOK, Fault

(* A server that is killed while it sends its file: the client ends, or    *)
(* spins, or takes the part for the whole.                                 *)
LEMMA FetchCutStep ==
  ASSUME StripesInv, FetchCut
  PROVE  StripesInv'
<1>1. TypeOK /\ Asked \in ava /\ Asked \in Servers /\ pc = "get" /\ meta[Asked] # None
  BY AskedFacts DEF StripesInv, FetchCut
<1>2. faults' # 0 /\ faults' \in 0..MaxFaults
  BY <1>1, FaultFacts DEF FetchCut
<1>3. /\ UNCHANGED <<client, ava, thr, chan, file, meta, runs, missed, torn, leftOut>>
      /\ up' \subseteq up
  BY DEF FetchCut, Drops
<1>4. /\ \A s \in Servers : thr[s] = "none"
      /\ Cardinality(ava) = K
      /\ answer = None
      /\ (\A s \in got : Whole(s)) => fsize = (IF got = {} THEN 0 ELSE AsInt(size))
  BY <1>1 DEF StripesInv, Getting
<1>5. \/ /\ pc' = "off" /\ answer' = [how |-> "failed"] /\ ended' = "exit"
         /\ UNCHANGED <<got, fsize, dc, unset>>
      \/ pc' = "spin" /\ UNCHANGED <<got, fsize, dc, unset, answer, ended>>
      \/ Fetched /\ unset' = TRUE /\ UNCHANGED <<pc, answer, ended>>
  BY DEF FetchCut, GetEnds
<1> DEFINE z == meta[Asked][2]
<1>6. z \in Nat /\ AsInt(z) \in Int
  <2>1. meta[Asked][2] \in Nat
    BY <1>1, MetaTypes
  <2> QED
    BY <2>1, AsIntFacts
<1>7. Fetched => fsize' = (IF fsize = 0 THEN AsInt(z) ELSE fsize)
  BY DEF Fetched
<1> HIDE DEF z
<1>8. TypeOK'
  <2>1. ClientTypes /\ ServerTypes /\ HistoryTypes /\ GetterTypes
    BY <1>1, TypeParts
  <2>2. ClientTypes'
    BY <1>1, <1>3, <1>5, <2>1 DEF ClientTypes, client
  <2>3. ServerTypes'
    BY <1>3, <2>1 DEF ServerTypes
  <2>4. HistoryTypes'
    BY <1>2, <1>3, <1>5, <2>1 DEF HistoryTypes
  <2>5. dc' \in BOOLEAN /\ unset' \in BOOLEAN
    <3>1. dc \in BOOLEAN /\ unset \in BOOLEAN
      BY <2>1 DEF GetterTypes
    <3>2. dc' = dc \/ dc' = (dc /\ ~(fsize = 0 /\ fsize' = -1))
      BY <1>5 DEF Fetched
    <3>3. unset' = unset \/ unset' = TRUE
      BY <1>5
    <3> QED
      BY <3>1, <3>2, <3>3, Zenon
  <2>6. got' \subseteq ava
    BY <1>1, <1>5, <2>1 DEF GetterTypes, Fetched
  <2>7. fsize' \in Int
    BY <1>5, <1>6, <1>7, <2>1 DEF GetterTypes
  <2>8. answer' \in Answers
    <3>1. answer' = None \/ answer' = [how |-> "failed"]
      BY <1>4, <1>5
    <3>2. CASE answer' = None
      BY <3>2, Zenon DEF Answers
    <3>3. CASE answer' = [how |-> "failed"]
      BY <3>3, Zenon DEF Answers
    <3> QED
      BY <3>1, <3>2, <3>3
  <2>9. GetterTypes'
    BY <1>3, <2>1, <2>5, <2>6, <2>7, <2>8 DEF GetterTypes
  <2> QED
    BY <2>2, <2>3, <2>4, <2>9, TypeParts
<1>9. Client' /\ \A s \in Servers : Server(s)'
  <2>1. Stays
    BY <1>1, <1>3, <1>5 DEF Stays, Delivering, client
  <2>2. \A s \in Servers : SameServer(s)
    BY <1>2, <1>3, <1>4 DEF SameServer
  <2>3. runs' \in {runs, runs + 1} /\ UNCHANGED missed
    BY <1>3
  <2> QED
    BY <2>1, <2>2, <2>3, FrameAll
<1>10. Getting'
  <2> SUFFICES ASSUME pc' = "get"
               PROVE  (\A s \in got' : Whole(s)') =>
                        fsize' = (IF got' = {} THEN 0 ELSE AsInt(size'))
    BY <1>3, <1>4, <1>5 DEF Getting
  <2>1. \A s \in Servers : Whole(s)' <=> Whole(s)
    BY <1>3 DEF Whole, client
  <2>2. Fetched /\ got' = got \cup {Asked} /\ got' # {} /\ got' \subseteq Servers
    BY <1>1, <1>5 DEF TypeOK, Fetched
  <2>3. ASSUME \A s \in got' : Whole(s)'
        PROVE  fsize' = AsInt(size')
    <3>1. \A s \in got' : Whole(s)
      BY <2>1, <2>2, <2>3
    <3>2. fsize = (IF got = {} THEN 0 ELSE AsInt(size))
      BY <1>4, <2>2, <3>1
    <3>3. z = size
      BY <2>2, <3>1 DEF Whole, z
    <3> QED
      BY <1>3, <1>7, <2>2, <3>2, <3>3 DEF client
  <2> QED
    BY <2>2, <2>3
<1>11. WholeServersRestore'
  BY <1>4, <1>5, NoAnswer
<1> QED
  BY <1>8, <1>9, <1>10, <1>11 DEF StripesInv

LEMMA DecodeStep ==
  ASSUME StripesInv, Decode
  PROVE  StripesInv'
<1>1. /\ TypeOK /\ pc = "get" /\ pc' = "off" /\ Cardinality(got) = K
      /\ ended' = "done" /\ got' = got
      /\ UNCHANGED <<client, ava, got, fsize, dc, unset, servers, runs, faults, missed,
                     torn, leftOut>>
  BY DEF StripesInv, Decode, GetEnds
<1>2. \/ answer' \in [how : {"nothing", "undefined"}]
      \/ /\ ~unset
         /\ \E rest \in NonFullBlockSizes(fsize) :
              answer' = [how   |-> Verdict(fsize, rest),
                         whole |-> \A s \in got : Whole(s),
                         data  |-> Written(file, got, fsize, rest)]
  BY DEF Decode, GetEnds
<1>3. /\ got \in SUBSET Servers /\ fsize \in Int
      /\ file \in [Servers -> Seq(Blocks)]
  BY <1>1 DEF TypeOK
<1>4. answer' \in Answers
  <2>1. CASE answer' \in [how : {"nothing", "undefined"}]
    BY <2>1 DEF Answers
  <2>2. ASSUME NEW rest \in NonFullBlockSizes(fsize), NEW w \in BOOLEAN,
               answer' = [how |-> Verdict(fsize, rest), whole |-> w,
                          data |-> Written(file, got, fsize, rest)]
        PROVE  answer' \in Answers
    <3>1. /\ Written(file, got, fsize, rest) \in Seq(Blocks \X (1..StripeSize))
          /\ Verdict(fsize, rest) \in {"success", "mismatch", "silent"}
      BY <1>1, <1>3, WrittenTypes
    <3> QED
      BY <2>2, <3>1, Zenon DEF Answers
  <2>3. (\A s \in got : Whole(s)) \in BOOLEAN
    OBVIOUS
  <2> QED
    BY <1>2, <2>1, <2>2, <2>3
<1>5. TypeOK'
  <2>1. ClientTypes /\ ServerTypes /\ HistoryTypes /\ GetterTypes
    BY <1>1, TypeParts
  <2>2. ClientTypes' /\ ServerTypes'
    BY <1>1, <2>1 DEF client, ClientTypes, servers, ServerTypes
  <2>3. HistoryTypes'
    BY <1>1, <2>1 DEF HistoryTypes
  <2>4. GetterTypes'
    BY <1>1, <1>4, <2>1 DEF GetterTypes
  <2> QED
    BY <2>2, <2>3, <2>4, TypeParts
<1>6. Client' /\ \A s \in Servers : Server(s)'
  <2>1. UNCHANGED <<client, servers, faults, runs, missed, torn, leftOut>> /\ pc' \in {"get", "off"}
    BY <1>1
  <2> QED
    BY <1>1, <2>1, FrameGet
<1>7. Getting'
  BY <1>1 DEF Getting
<1>8. WholeServersRestore'
  <2>1. CASE answer' \in [how : {"nothing", "undefined"}]
    BY <2>1, NoAnswer
  <2>2. ASSUME ~unset, NEW rest \in NonFullBlockSizes(fsize),
               answer' = [how   |-> Verdict(fsize, rest),
                          whole |-> \A s \in got : Whole(s),
                          data  |-> Written(file, got, fsize, rest)]
        PROVE  WholeServersRestore'
    <3>1. ver' = ver /\ size' = size
      BY <1>1 DEF client
    <3> DEFINE how == Verdict(fsize, rest)
               data == Written(file, got, fsize, rest)
               all == \A s \in got : Whole(s)
    <3>2. SUFFICES ASSUME all, Decodable(got), size < IntMax
                   PROVE  \/ how = "success" /\ data = Original(ver, size)
                          \/ how = "silent" /\ data = << >> /\ size <= StripeSize \div 1000
                          \/ /\ LooksWhole(size) /\ size >= StripeSize
                             /\ how = "success" => size % StripeSize # 0
      <4> HIDE DEF how, data, all
      <4>1. answer'.how = how /\ answer'.data = data
        BY <2>2 DEF how, data, all
      <4>2. answer'.whole => all
        BY <2>2, Zenon DEF how, data, all
      <4> QED
        BY <1>1, <3>1, <4>1, <4>2 DEF WholeServersRestore, Decodable
    <3>3. size \in Nat
      BY <1>1, SizeNat
    <3>4. got # {}
      BY <1>1, FS_EmptySet
    <3>5. fsize = size
      <4>1. fsize = AsInt(size)
        BY <1>1, <3>2, <3>4 DEF StripesInv, Getting
      <4> QED
        BY <3>2, <3>3, <4>1, AsIntFacts
    <3>6. AllWhole(file, got, ver, size)
      BY <1>1, <1>3, <3>2, <3>3 DEF AllWhole, Whole
    <3> QED
      BY <3>3, <3>5, <3>6, WholeRestores
  <2> QED
    BY <1>2, <2>1, <2>2
<1> QED
  BY <1>5, <1>6, <1>7, <1>8 DEF StripesInv

LEMMA RestartStep ==
  ASSUME StripesInv, NEW s \in Servers, Restart(s)
  PROVE  StripesInv'
<1> USE DEF Restart
<1>1. TypeOK'
  <2>1. ClientTypes /\ ServerTypes /\ HistoryTypes /\ GetterTypes
    BY TypeParts DEF StripesInv
  <2>2. ClientTypes' /\ GetterTypes' /\ HistoryTypes'
    BY <2>1, FrameTypes DEF client, getter, history
  <2>3. ServerTypes'
    BY <2>1 DEF ServerTypes
  <2> QED
    BY <2>2, <2>3, TypeParts
<1>2. Client' /\ \A t \in Servers : Server(t)'
  <2>1. Stays
    BY DEF Stays, Delivering, client
  <2>2. \A t \in Servers : SameServer(t)
    BY DEF StripesInv, SameServer, Server, Thread, Runs, history
  <2>3. runs' \in {runs, runs + 1} /\ UNCHANGED missed
    BY DEF history
  <2> QED
    BY <2>1, <2>2, <2>3, FrameAll
<1>3. Getting'
  BY DEF Getting
<1>4. WholeServersRestore'
  BY FrameRestored DEF StripesInv, client, getter
<1> QED
  BY <1>1, <1>2, <1>3, <1>4 DEF StripesInv

-----------------------------------------------------------------------------
(* The steps of a put.                                                     *)

LEMMA StartPutStep ==
  ASSUME StripesInv, StartPut
  PROVE  StripesInv'
<1>1. /\ pc = "off" /\ runs < MaxRuns /\ runs' = runs + 1 /\ answer' = None
      /\ \A s \in Servers : thr[s] = "none"
      /\ up = Servers /\ pc' = "put" /\ size' \in Sizes
      /\ ver' = ver + 1 /\ i' = 0 /\ ready' = {} /\ sent' = {}
      /\ thr' = [s \in Servers |-> "request"]
      /\ missed' = [s \in Servers |-> {}]
      /\ ended' = "none"
      /\ ava' = {} /\ got' = {} /\ fsize' = 0
      /\ UNCHANGED <<up, chan, file, meta, faults, torn, leftOut>>
  BY DEF StartPut, Starts
<1>2. TypeOK /\ ver \in Nat /\ runs \in Nat /\ ver <= runs
  BY DEF StripesInv, TypeOK, Client
<1>3. LastStripe(size') \in Nat
  BY <1>1, StripeSizes, DivFacts DEF LastStripe
<1>4. TypeOK'
  <2>1. ClientTypes /\ ServerTypes /\ HistoryTypes /\ GetterTypes
    BY <1>2, TypeParts
  <2>2. ClientTypes'
    BY <1>1, <1>2, <1>3, <2>1 DEF ClientTypes, HistoryTypes
  <2>3. ServerTypes'
    BY <1>1, <2>1 DEF ServerTypes
  <2>4. HistoryTypes'
    BY <1>1, <1>2, <2>1 DEF HistoryTypes
  <2>5. GetterTypes'
    <3>1. dc' \in BOOLEAN /\ unset' \in BOOLEAN
      BY Zenon DEF StartPut
    <3>2. answer' \in Answers
      BY <1>1, Zenon DEF Answers
    <3> QED
      BY <1>1, <3>1, <3>2 DEF GetterTypes
  <2> QED
    BY <2>2, <2>3, <2>4, <2>5, TypeParts
<1>5. Client'
  BY <1>1, <1>2 DEF Client, Delivering
<1>6. ASSUME NEW s \in Servers PROVE Server(s)'
  <2>1. Thread(s) /\ Disk(s) /\ (faults = 0 /\ ~leftOut => Runs(s))
    BY DEF StripesInv, Server
  <2>2. thr'[s] = "request" /\ chan[s] = << >> /\ missed'[s] = {}
    BY <1>1, <2>1 DEF Thread
  <2>3. Thread(s)' /\ Turn(s)' /\ MissedBy(s)'
    BY <1>1, <2>2 DEF Thread, Turn, MissedBy
  <2>4. meta[s] # None => meta[s][1] \in 0..ver
    BY <2>1 DEF Disk
  <2>5. Closed(s) => Closed(s)'
    BY <1>1, <1>2, <2>4 DEF Closed
  <2>6. Disk(s)'
    BY <1>1, <1>2, <2>1, <2>4, <2>5 DEF Disk
  <2>7. Undisturbed(s)'
    BY <1>1, <2>2 DEF Undisturbed, Delivering
  <2>8. faults' = 0 /\ ~leftOut' => Runs(s)'
    BY <1>1, <2>2 DEF Runs
  <2> QED
    BY <2>2, <2>3, <2>6, <2>7, <2>8 DEF Server
<1>7. Getting'
  BY <1>1 DEF Getting
<1>8. WholeServersRestore'
  BY <1>1, NoAnswer
<1> QED
  BY <1>4, <1>5, <1>6, <1>7, <1>8 DEF StripesInv

(* A client that delivers: what has nothing to do with it.                 *)
LEMMA FrameDelivery ==
  ASSUME StripesInv, Delivering, UNCHANGED <<ver, size, getter>>, pc' \notin {"get", "spin"}
  PROVE  Getting' /\ WholeServersRestore'
<1>1. Getting'
  BY DEF Getting
<1> QED
  BY <1>1, FrameRestored DEF StripesInv, getter

LEMMA SelectStep ==
  ASSUME StripesInv, Select
  PROVE  StripesInv'
<1>1. /\ pc = "put" /\ ready = {} /\ ready' = Writable \ sent /\ ready' # {}
      /\ UNCHANGED <<pc, ver, size, i, sent, getter, servers, runs, faults, history>>
  BY DEF Select
<1>2. TypeOK /\ i \in Nat
  BY SizeNat DEF StripesInv
<1>3. ready' \subseteq Servers
  BY <1>1 DEF Writable
<1>4. TypeOK'
  <2>1. ClientTypes /\ ServerTypes /\ HistoryTypes /\ GetterTypes
    BY <1>2, TypeParts
  <2>2. ServerTypes' /\ HistoryTypes' /\ GetterTypes'
    BY <1>1, <2>1, FrameTypes DEF servers, history, getter
  <2>3. ClientTypes'
    BY <1>1, <1>3, <2>1 DEF ClientTypes
  <2> QED
    BY <2>2, <2>3, TypeParts
<1>5. i = 0 => ready' = Servers /\ sent = {}
  <2> SUFFICES ASSUME i = 0 PROVE ready' = Servers /\ sent = {}
    OBVIOUS
  <2>1. sent \in {{}, Servers}
    BY <1>1 DEF StripesInv, Client, Delivering
  <2>2. sent = {}
    BY <1>1, <1>3, <2>1
  <2>3. \A s \in Servers : chan[s] = << >>
    BY <1>1, <2>2 DEF StripesInv, Server, Turn, Delivering, Awaited
  <2>4. Writable = Servers
    BY <2>3 DEF Writable
  <2> QED
    BY <1>1, <2>2, <2>4
<1>6. Client'
  BY <1>1, <1>5 DEF StripesInv, Client, Delivering, history
<1>7. ASSUME NEW s \in Servers PROVE Server(s)'
  <2>1. Server(s)
    BY DEF StripesInv
  <2>2. Turn(s)'
    <3>1. s \in ready' => thr[s] = "none" \/ Len(chan[s]) < Capacity
      BY <1>1 DEF Writable, Dead
    <3>2. ~Awaited(s) /\ ~Awaited(s)'
      BY <1>1 DEF Awaited
    <3> QED
      BY <1>1, <2>1, <3>1, <3>2 DEF Server, Turn, servers, Delivering
  <2>3. SameServer(s)
    BY <1>1, <2>1 DEF SameServer, Server, Thread, Runs, servers, history
  <2> QED
    BY <1>1, <2>1, <2>2, <2>3, FrameButTurn DEF Delivering
<1>8. Getting' /\ WholeServersRestore'
  BY <1>1, FrameDelivery DEF Delivering
<1> QED
  BY <1>4, <1>6, <1>7, <1>8 DEF StripesInv

LEMMA FirstReady ==
  ASSUME TypeOK, ready # {}
  PROVE  First(ready) \in ready
BY ServersFinite, FirstFacts DEF TypeOK

LEMMA PutLostStep ==
  ASSUME StripesInv, NEW s \in Servers, PutLost(s)
  PROVE  StripesInv'
<1>1. /\ pc = "put" /\ s \in ready /\ i > 0 /\ thr[s] = "none"
      /\ ready' = ready \ {s} /\ sent' = sent \cup {s}
      /\ UNCHANGED <<pc, ver, size, i, getter, servers, runs, faults, history>>
  BY FirstReady DEF PutLost, Dead, StripesInv
<1>2. TypeOK /\ i \in Nat
  BY SizeNat DEF StripesInv
<1>3. TypeOK'
  <2>1. ClientTypes /\ ServerTypes /\ HistoryTypes /\ GetterTypes
    BY <1>2, TypeParts
  <2>2. ServerTypes' /\ HistoryTypes' /\ GetterTypes'
    BY <1>1, <2>1, FrameTypes DEF servers, history, getter
  <2>3. ClientTypes'
    BY <1>1, <2>1 DEF ClientTypes
  <2> QED
    BY <2>2, <2>3, TypeParts
<1>4. Client'
  BY <1>1, <1>2 DEF StripesInv, Client, Delivering, history
<1>5. ASSUME NEW t \in Servers PROVE Server(t)'
  <2>1. Server(t)
    BY DEF StripesInv
  <2>2. SameServer(t)
    BY <1>1, <2>1 DEF SameServer, Server, Thread, Runs, servers, history
  <2>3. Turn(t)'
    BY <1>1, <1>2, <2>1 DEF Server, Turn, servers, Delivering, Awaited
  <2>4. CASE t # s
    BY <1>1, <2>1, <2>2, <2>3, <2>4, FrameButTurn DEF Delivering
  <2>5. CASE t = s
    <3>1. Thread(t)' /\ MissedBy(t)'
      BY <1>1, <2>1 DEF Server, Thread, MissedBy, Last, servers, history, Delivering
    <3>2. Disk(t)'
      BY <1>1, <2>1, <2>5 DEF Server, Disk, Closed, Last, servers, history, Delivering
    <3>3. Undisturbed(t) => Undisturbed(t)'
      BY <1>1, <2>5
      DEF Undisturbed, Stored, Kept, Last, servers, history, Delivering
    <3>4. Runs(t) => Runs(t)'
      BY <1>1, <2>5 DEF Runs, servers, history, Delivering
    <3>5. thr'[t] # "data"
      BY <1>1, <2>5 DEF servers
    <3> QED
      BY <1>1, <2>1, <2>3, <3>1, <3>2, <3>3, <3>4, <3>5 DEF Server, history
  <2> QED
    BY <2>4, <2>5
<1>6. Getting' /\ WholeServersRestore'
  BY <1>1, FrameDelivery DEF Delivering
<1> QED
  BY <1>3, <1>4, <1>5, <1>6 DEF StripesInv

(* It was killed.                                                          *)
LEMMA PutFailsStep ==
  ASSUME StripesInv, NEW s \in Servers, PutFails(s)
  PROVE  StripesInv'
<1>1. /\ Delivering /\ s \in ready /\ thr[s] = "none"
      /\ pc' = "off" /\ ended' = "exit"
      /\ UNCHANGED <<client, getter, servers, runs, faults, missed, torn, leftOut>>
  BY FirstReady DEF PutFails, Dead, StripesInv, Delivering
<1>2. TypeOK
  BY DEF StripesInv
<1>3. TypeOK'
  <2>1. ClientTypes /\ ServerTypes /\ HistoryTypes /\ GetterTypes
    BY <1>2, TypeParts
  <2>2. ServerTypes' /\ GetterTypes'
    BY <1>1, <2>1, FrameTypes DEF servers, getter
  <2>3. ClientTypes'
    BY <1>1, <2>1 DEF ClientTypes, client
  <2>4. HistoryTypes'
    BY <1>1, <2>1 DEF HistoryTypes
  <2> QED
    BY <2>2, <2>3, <2>4, TypeParts
<1>4. faults # 0
  <2>1. s \notin sent /\ ver > 0
    BY <1>1 DEF StripesInv, Client
  <2>2. faults = 0 /\ ver > 0 => Undisturbed(s)
    BY DEF StripesInv, Server
  <2> QED
    BY <1>1, <2>1, <2>2 DEF Undisturbed
<1>5. Client'
  BY <1>1 DEF StripesInv, Client, Delivering, client
<1>6. ASSUME NEW t \in Servers PROVE Server(t)'
  <2>1. Server(t)
    BY DEF StripesInv
  <2>2. SameServer(t)
    BY <1>1, <1>4, <2>1 DEF SameServer, Server, Thread, servers
  <2> QED
    BY <1>1, <1>4, <2>1, <2>2, FrameStops DEF client, Delivering
<1>7. Getting' /\ WholeServersRestore'
  BY <1>1, FrameDelivery DEF client
<1> QED
  BY <1>3, <1>5, <1>6, <1>7 DEF StripesInv

LEMMA PutRequestStep ==
  ASSUME StripesInv, NEW s \in Servers, PutRequest(s)
  PROVE  StripesInv'
<1>1. /\ pc = "put" /\ s \in ready /\ s = First(ready) /\ i = 0 /\ thr[s] # "none"
      /\ chan' = [chan EXCEPT ![s] = Append(@, Request)]
      /\ pc' = "reply"
      /\ UNCHANGED <<client, getter, up, thr, file, meta, runs, faults, history>>
  BY FirstReady DEF PutRequest, Dead, StripesInv
<1>2. TypeOK
  BY DEF StripesInv
<1>3. s \notin sent /\ thr[s] = "request" /\ chan[s] = << >>
  <2>1. s \notin sent
    BY <1>1 DEF StripesInv, Client, Delivering
  <2>2. thr[s] # "data" /\ chan[s] = << >>
    BY <1>1, <2>1 DEF StripesInv, Server, Turn, Delivering, Awaited
  <2>3. thr[s] \in {"none", "request", "data"}
    BY <1>2 DEF TypeOK
  <2> QED
    BY <1>1, <2>1, <2>2, <2>3
<1>4. chan'[s] = <<Request>> /\ \A t \in Servers : t # s => chan'[t] = chan[t]
  <2>1. chan \in [Servers -> Seq({Request, End} \cup Nat)]
    BY <1>2 DEF TypeOK
  <2> QED
    BY <1>1, <1>3, <2>1
<1>5. TypeOK'
  <2>1. ClientTypes /\ ServerTypes /\ HistoryTypes /\ GetterTypes
    BY <1>2, TypeParts
  <2>2. HistoryTypes' /\ GetterTypes'
    BY <1>1, <2>1, FrameTypes DEF history, getter
  <2>3. ClientTypes'
    BY <1>1, <2>1 DEF ClientTypes, client
  <2>4. ServerTypes'
    <3>1. Append(chan[s], Request) \in Seq({Request, End} \cup Nat)
      BY <1>3
    <3>2. chan' \in [Servers -> Seq({Request, End} \cup Nat)]
      BY <1>1, <2>1, <3>1 DEF ServerTypes
    <3>3. Len(chan'[s]) = 1
      BY <1>4
    <3>4. ASSUME NEW t \in Servers PROVE Len(chan'[t]) <= Capacity + 1
      <4>1. CASE t = s
        <5>1. 1 <= Capacity + 1
          OBVIOUS
        <5> QED
          BY <3>3, <4>1, <5>1
      <4>2. CASE t # s
        <5>1. Len(chan[t]) <= Capacity + 1 /\ chan'[t] = chan[t]
          BY <1>4, <2>1, <4>2 DEF ServerTypes
        <5> QED
          BY <5>1
      <4> QED
        BY <4>1, <4>2
    <3> QED
      BY <1>1, <2>1, <3>2, <3>4 DEF ServerTypes
  <2> QED
    BY <2>2, <2>3, <2>4, TypeParts
<1>6. Client'
  BY <1>1 DEF StripesInv, Client, Delivering, history, client
<1>7. First(ready)' = First(ready)
  BY <1>1 DEF First, client
<1>8. ASSUME NEW t \in Servers PROVE Server(t)'
  <2>1. Server(t)
    BY DEF StripesInv
  <2>2. CASE t # s
    <3>1. SameServer(t)
      BY <1>1, <1>4, <2>1, <2>2 DEF SameServer, Server, Thread, Runs, history
    <3>2. ~Awaited(t) /\ ~Awaited(t)'
      BY <1>1, <1>7, <2>2 DEF Awaited
    <3>3. Turn(t)'
      BY <1>1, <1>4, <2>1, <2>2, <3>2 DEF Server, Turn, client, Delivering
    <3> QED
      BY <1>1, <2>1, <3>1, <3>3, FrameButTurn DEF Delivering, client
  <2>3. CASE t = s
    <3>1. thr'[t] = "request" /\ chan'[t] = <<Request>>
      BY <1>1, <1>3, <1>4, <2>3
    <3>2. Awaited(t)'
      BY <1>1, <1>7, <2>3 DEF Awaited
    <3>3. Thread(t)' /\ MissedBy(t)'
      BY <1>1, <2>1, <3>1 DEF Server, Thread, MissedBy, Last, history, client, Delivering
    <3>4. Turn(t)'
      BY <1>1, <1>3, <2>3, <3>1, <3>2 DEF Turn, client
    <3>5. Disk(t)'
      BY <1>1, <2>1 DEF Server, Disk, Closed, Last, history, client, Delivering
    <3>6. Undisturbed(t)'
      BY <1>1, <3>1 DEF Undisturbed, Delivering
    <3>7. Runs(t) => Runs(t)'
      BY <1>1, <3>1 DEF Runs
    <3> QED
      BY <1>1, <2>1, <3>1, <3>3, <3>4, <3>5, <3>6, <3>7 DEF Server, history
  <2> QED
    BY <2>2, <2>3
<1>9. Getting' /\ WholeServersRestore'
  BY <1>1, FrameDelivery DEF Delivering, client
<1> QED
  BY <1>5, <1>6, <1>8, <1>9 DEF StripesInv

-----------------------------------------------------------------------------
(* What a block, and the end, do to a file and a connection.               *)

Messages == {Request, End} \cup Nat

(* A message with a block, and maybe the end behind it.                    *)
Sends(msg, b) == msg \in {<<b>>, <<b, End>>}

Appended(f, c, msg, b, d) ==
  /\ d \in Seq(Messages) /\ Len(d) = Len(c) + Len(msg)
  /\ \A m \in 1..Len(c) : d[m] = c[m]
  /\ d[Len(c) + 1] = b
  /\ HasEnd(d) <=> msg = <<b, End>>
  /\ Count(f, c) \in Nat /\ Count(f, d) = Count(f, c) + 1
  /\ \A m \in 1..Count(f, c) : Item(f, d, m) = Item(f, c, m)
  /\ Item(f, d, Count(f, c) + 1) = b
  /\ Items(f, d) = Items(f, c) \cup {b}

LEMMA Appends ==
  ASSUME NEW f \in Seq(Blocks), NEW c \in Seq(Messages), ~HasEnd(c), NEW b \in Nat,
         NEW msg, Sends(msg, b), NEW d, d = c \o msg
  PROVE  Appended(f, c, msg, b, d)
<1> DEFINE p == Len(f)
           q == Len(c)
           n == Count(f, c)
<1>1. p \in Nat /\ q \in Nat /\ n = p + q /\ n \in Nat
  BY DEF Count, Coming
<1>2. b # End /\ <<b>> # <<b, End>> /\ b \in Messages /\ End \in Messages
  BY DEF End, Messages
<1>3. msg \in Seq(Messages) /\ msg[1] = b
      /\ ((msg = <<b>> /\ Len(msg) = 1) \/ (msg = <<b, End>> /\ Len(msg) = 2 /\ msg[2] = End))
  <2>1. CASE msg = <<b>>
    BY <1>2, <2>1
  <2>2. CASE msg = <<b, End>>
    BY <1>2, <2>2
  <2> QED
    BY <2>1, <2>2 DEF Sends
<1>4. /\ d \in Seq(Messages) /\ Len(d) = q + Len(msg)
      /\ \A m \in 1..(q + Len(msg)) : d[m] = IF m <= q THEN c[m] ELSE msg[m - q]
  BY <1>3, ConcatProperties
<1> HIDE DEF p, q, n
<1>5. \A m \in 1..q : d[m] = c[m]
  <2>1. \A m \in 1..q : m \in 1..(q + Len(msg)) /\ m <= q
    BY <1>1, <1>3
  <2> QED
    BY <1>4, <2>1
<1>6. d[q + 1] = b
  <2>1. q + 1 \in 1..(q + Len(msg)) /\ ~(q + 1 <= q) /\ (q + 1) - q = 1
    BY <1>1, <1>3
  <2> QED
    BY <1>3, <1>4, <2>1
<1>7. (HasEnd(d) <=> msg = <<b, End>>) /\ Coming(d) = q + 1
  <2>1. d # << >>
    BY <1>1, <1>3, <1>4
  <2>2. CASE msg = <<b>>
    <3>1. Len(d) = q + 1 /\ d[Len(d)] = b
      BY <1>3, <1>4, <1>6, <2>2
    <3> QED
      BY <1>2, <2>2, <3>1 DEF HasEnd, Coming
  <2>3. CASE msg = <<b, End>>
    <3>1. Len(d) = q + 2 /\ Len(msg) = 2 /\ msg[2] = End
      BY <1>2, <1>3, <1>4, <2>3
    <3>2. q + 2 \in 1..(q + Len(msg)) /\ ~(q + 2 <= q) /\ (q + 2) - q = 2
      BY <1>1, <3>1
    <3>3. d[q + 2] = End
      BY <1>4, <3>1, <3>2
    <3> QED
      BY <1>1, <2>1, <2>3, <3>1, <3>3 DEF HasEnd, Coming
  <2> QED
    BY <1>3, <2>2, <2>3
<1>8. Count(f, d) = n + 1
  BY <1>1, <1>7 DEF Count, p
<1>9. ASSUME NEW m \in 1..n PROVE Item(f, d, m) = Item(f, c, m)
  <2>1. m <= p \/ m - p \in 1..q
    BY <1>1
  <2> QED
    BY <1>5, <2>1 DEF Item, p
<1>10. Item(f, d, n + 1) = b
  <2>1. ~(n + 1 <= p) /\ (n + 1) - p = q + 1
    BY <1>1
  <2> QED
    BY <1>6, <2>1 DEF Item, p
<1>11. Items(f, d) = Items(f, c) \cup {b}
  <2>1. \A m \in 1..(n + 1) : m \in 1..n \/ m = n + 1
    BY <1>1
  <2>2. (\A m \in 1..n : m \in 1..(n + 1)) /\ n + 1 \in 1..(n + 1)
    BY <1>1
  <2>3. Items(f, d) = {Item(f, d, m) : m \in 1..(n + 1)}
    BY <1>8 DEF Items
  <2>4. Items(f, c) = {Item(f, c, m) : m \in 1..n}
    BY DEF Items, n
  <2>5. ASSUME NEW x \in Items(f, d) PROVE x \in Items(f, c) \cup {b}
    <3>1. PICK m \in 1..(n + 1) : x = Item(f, d, m)
      BY <2>3
    <3> QED
      BY <1>9, <1>10, <2>1, <2>4, <3>1
  <2>6. ASSUME NEW x \in Items(f, c) \cup {b} PROVE x \in Items(f, d)
    <3>1. CASE x = b
      BY <1>10, <2>2, <2>3, <3>1
    <3>2. CASE x \in Items(f, c)
      <4>1. PICK m \in 1..n : x = Item(f, c, m)
        BY <2>4, <3>2
      <4> QED
        BY <1>9, <2>2, <2>3, <4>1
    <3> QED
      BY <3>1, <3>2
  <2> QED
    BY <2>5, <2>6
<1> QED
  BY <1>1, <1>4, <1>5, <1>6, <1>7, <1>8, <1>9, <1>10, <1>11 DEF n, q, Appended

(* What is appended is behind what was there.                              *)
LEMMA AppendsInOrder ==
  ASSUME NEW f, NEW c, NEW msg, NEW b \in Nat, NEW d, Appended(f, c, msg, b, d),
         \A m, k \in 1..Count(f, c) : m < k => Item(f, c, m) < Item(f, c, k),
         Items(f, c) \subseteq 0..(b - 1)
  PROVE  \A m, k \in 1..Count(f, d) : m < k => Item(f, d, m) < Item(f, d, k)
<1> DEFINE n == Count(f, c)
<1>1. /\ n \in Nat /\ Count(f, d) = n + 1
      /\ \A m \in 1..n : Item(f, d, m) = Item(f, c, m)
      /\ Item(f, d, n + 1) = b
  BY DEF Appended
<1>2. \A m \in 1..n : Item(f, c, m) \in 0..(b - 1)
  BY DEF Items
<1> HIDE DEF n
<1>3. ASSUME NEW m \in 1..(n + 1), NEW k \in 1..(n + 1), m < k
      PROVE  Item(f, d, m) < Item(f, d, k)
  <2>1. m \in 1..n /\ (k \in 1..n \/ k = n + 1)
    BY <1>1, <1>3
  <2>2. CASE k \in 1..n
    BY <1>1, <1>3, <2>1, <2>2 DEF n
  <2>3. CASE k = n + 1
    BY <1>1, <1>2, <2>1, <2>3
  <2> QED
    BY <2>1, <2>2, <2>3
<1> QED
  BY <1>1, <1>3

(* A block that comes from the connection into the file.                   *)
Moved(f, c, g, d) ==
  /\ Len(d) = Len(c) - 1 /\ \A m \in 1..Len(d) : d[m] = c[m + 1]
  /\ HasEnd(d) <=> HasEnd(c)
  /\ Count(f, c) \in Nat /\ Count(g, d) = Count(f, c)
  /\ \A m \in 1..Count(f, c) : Item(g, d, m) = Item(f, c, m)
  /\ Items(g, d) = Items(f, c)

LEMMA Moves ==
  ASSUME NEW f \in Seq(Blocks), NEW c \in Seq(Messages), c # << >>, Head(c) \in Nat,
         NEW block \in Blocks, block.stripe = Head(c)
  PROVE  Moved(f, c, Append(f, block), Tail(c))
<1> DEFINE g == Append(f, block)
           d == Tail(c)
           p == Len(f)
           q == Len(c)
           n == Count(f, c)
<1>1. /\ p \in Nat /\ q \in Nat \ {0} /\ Len(g) = p + 1 /\ Len(d) = q - 1
      /\ \A m \in 1..p : g[m] = f[m]
      /\ g[p + 1] = block
      /\ \A m \in 1..(q - 1) : d[m] = c[m + 1]
      /\ c[1] \in Nat /\ c[1] = block.stripe
  OBVIOUS
<1>2. c[1] # End
  BY <1>1 DEF End
<1> HIDE DEF g, d, p, q, n
<1>3. HasEnd(d) <=> HasEnd(c)
  <2>1. CASE q = 1
    <3>1. Len(d) = 0 /\ d \in Seq(Messages)
      <4>1. Tail(c) \in Seq(Messages)
        OBVIOUS
      <4> QED
        BY <1>1, <2>1, <4>1 DEF d
    <3>2. d = << >>
      BY <3>1, EmptySeq
    <3>3. c[Len(c)] # End
      BY <1>2, <2>1 DEF q
    <3> QED
      BY <3>2, <3>3 DEF HasEnd
  <2>2. CASE q # 1
    <3>1. q - 1 \in 1..(q - 1) /\ (q - 1) + 1 = q
      BY <1>1, <2>2
    <3>2. d[Len(d)] = c[Len(c)]
      BY <1>1, <3>1 DEF q
    <3>3. d # << >> /\ c # << >>
      BY <1>1, <3>1
    <3> QED
      BY <3>2, <3>3 DEF HasEnd
  <2> QED
    BY <2>1, <2>2
<1>4. Count(g, d) = n /\ n \in Nat /\ n <= p + q
  <2>1. Coming(c) \in Nat /\ Coming(d) = Coming(c) - 1 /\ Coming(c) <= q
    <3>1. HasEnd(c) => q # 1
      BY <1>2 DEF HasEnd, q
    <3> QED
      BY <1>1, <1>3, <3>1 DEF Coming, q
  <2> QED
    BY <1>1, <2>1 DEF Count, n, p
<1>5. ASSUME NEW m \in 1..n PROVE Item(g, d, m) = Item(f, c, m)
  <2>1. CASE m <= p
    <3>1. m \in 1..p /\ m <= p + 1
      BY <1>1, <1>4, <2>1
    <3> QED
      BY <1>1, <2>1, <3>1 DEF Item, p
  <2>2. CASE m = p + 1
    <3>1. ~(m <= p) /\ m - p = 1 /\ m <= p + 1
      BY <1>1, <2>2
    <3> QED
      BY <1>1, <2>2, <3>1 DEF Item, p
  <2>3. CASE m > p + 1
    <3>0. m \in Nat /\ m <= p + q
      BY <1>1, <1>4
    <3>1. ~(m <= p) /\ ~(m <= p + 1) /\ m - (p + 1) \in 1..(q - 1)
          /\ (m - (p + 1)) + 1 = m - p
      BY <1>1, <2>3, <3>0
    <3>2. d[m - (p + 1)] = c[m - p]
      BY <1>1, <3>1
    <3> QED
      BY <1>1, <3>1, <3>2 DEF Item, p
  <2> QED
    BY <1>1, <1>4, <2>1, <2>2, <2>3
<1>6. Items(g, d) = Items(f, c)
  BY <1>4, <1>5 DEF Items, n
<1> QED
  BY <1>1, <1>3, <1>4, <1>5, <1>6 DEF g, d, q, n, Moved

LEMMA MessageIs ==
  ASSUME TypeOK
  PROVE  /\ i \in Nat /\ Last \in Nat /\ (IsLast <=> i = Last)
         /\ Message = (IF i = Last THEN <<i, End>> ELSE <<i>>)
         /\ Message \in {<<i>>, <<i, End>>} /\ Len(Message) \in {1, 2}
         /\ Len(Message) = 2 => i = Last
         /\ Message = <<i, End>> <=> i = Last
<1>1. i \in Nat /\ Last \in Nat /\ (IsLast <=> i = Last)
  BY SizeNat DEF IsLast, Last
<1>2. Message = (IF i = Last THEN <<i, End>> ELSE <<i>>)
  BY <1>1 DEF Message
<1>3. <<i>> # <<i, End>> /\ Len(<<i>>) = 1 /\ Len(<<i, End>>) = 2
  OBVIOUS
<1> QED
  BY <1>1, <1>2, <1>3

(* A server gets its block of the stripe.                                  *)
LEMMA SendBlockStep ==
  ASSUME StripesInv, NEW s \in Servers, SendBlock(s), Delivering, s \in ready, thr[s] = "data",
         i > 0 \/ Awaited(s), \A t \in Servers : t # s => ~Awaited(t)
  PROVE  StripesInv'
<1>1. /\ chan' = [chan EXCEPT ![s] = @ \o Message]
      /\ ready' = ready \ {s} /\ sent' = sent \cup {s} /\ pc' = "put"
      /\ UNCHANGED <<ver, size, i, getter, up, thr, file, meta, runs, faults, history>>
  BY DEF SendBlock
<1>2. TypeOK /\ Client /\ Server(s)
  BY DEF StripesInv
<1>3. /\ i \in Nat /\ Last \in Nat /\ Message \in {<<i>>, <<i, End>>}
      /\ Message = <<i, End>> <=> i = Last
  BY <1>2, MessageIs
<1> DEFINE l == Len(Message)
<1>15. l \in {1, 2} /\ (l = 2 => i = Last)
  BY <1>2, MessageIs
<1>4. s \notin sent /\ Flow(s) /\ missed[s] \subseteq 0..(i - 1)
  BY <1>2 DEF Client, Server, MissedBy
<1>5. ~HasEnd(chan[s]) /\ Items(file[s], chan[s]) = (0..(i - 1)) \ missed[s]
  BY <1>4 DEF Flow, Given
<1>6. file[s] \in Seq(Blocks) /\ chan[s] \in Seq(Messages)
  BY <1>2 DEF TypeOK, Messages
<1>7. /\ chan'[s] = chan[s] \o Message
      /\ \A t \in Servers : t # s => chan'[t] = chan[t]
  <2>1. chan \in [Servers -> Seq({Request, End} \cup Nat)]
    BY <1>2 DEF TypeOK
  <2> QED
    BY <1>1, <2>1
<1> DEFINE f == file[s]
           c == chan[s]
           d == chan'[s]
           n == Count(f, c)
<1>8. /\ Appended(f, c, Message, i, d)
      /\ d \in Seq(Messages) /\ Len(d) = Len(c) + l
      /\ \A m \in 1..Len(c) : d[m] = c[m]
      /\ d[Len(c) + 1] = i
      /\ HasEnd(d) <=> i = Last
      /\ n \in Nat /\ Count(f, d) = n + 1
      /\ \A m \in 1..n : Item(f, d, m) = Item(f, c, m)
      /\ Item(f, d, n + 1) = i
      /\ Items(f, d) = Items(f, c) \cup {i}
  <2> HIDE DEF f, c, d, n
  <2>1. f \in Seq(Blocks) /\ c \in Seq(Messages) /\ ~HasEnd(c) /\ d = c \o Message
    BY <1>5, <1>6, <1>7 DEF f, c, d
  <2>2. /\ Appended(f, c, Message, i, d)
        /\ d \in Seq(Messages) /\ Len(d) = Len(c) + l
        /\ \A m \in 1..Len(c) : d[m] = c[m]
        /\ d[Len(c) + 1] = i
        /\ HasEnd(d) <=> Message = <<i, End>>
        /\ Count(f, c) \in Nat /\ Count(f, d) = Count(f, c) + 1
        /\ \A m \in 1..Count(f, c) : Item(f, d, m) = Item(f, c, m)
        /\ Item(f, d, Count(f, c) + 1) = i
        /\ Items(f, d) = Items(f, c) \cup {i}
    <3>1. Sends(Message, i) /\ i \in Nat
      BY <1>3 DEF Sends
    <3>2. Appended(f, c, Message, i, d)
      BY <2>1, <3>1, Appends
    <3> QED
      BY <3>2 DEF Appended, l
  <2> QED
    BY <1>3, <2>2, Zenon DEF n
<1> HIDE DEF l
<1>9. Len(c) < Capacity \/ Len(c) = 0
  <2>1. i > 0 => Len(c) < Capacity
    BY <1>2 DEF Server, Turn
  <2>2. Awaited(s) => c = << >>
    BY <1>2 DEF Server, Turn
  <2> QED
    BY <2>1, <2>2
<1>10. TypeOK'
  <2>1. ClientTypes /\ ServerTypes /\ HistoryTypes /\ GetterTypes
    BY <1>2, TypeParts
  <2>2. HistoryTypes' /\ GetterTypes'
    BY <1>1, <2>1, FrameTypes DEF history, getter
  <2>3. ClientTypes'
    BY <1>1, <2>1 DEF ClientTypes
  <2>4. ServerTypes'
    <3>1. c \o Message \in Seq({Request, End} \cup Nat)
      BY <1>7, <1>8 DEF Messages
    <3>2. chan' \in [Servers -> Seq({Request, End} \cup Nat)]
      <4>1. chan \in [Servers -> Seq({Request, End} \cup Nat)]
        BY <2>1 DEF ServerTypes
      <4> QED
        BY <1>1, <3>1, <4>1
    <3>3. ASSUME NEW t \in Servers PROVE Len(chan'[t]) <= Capacity + 1
      <4>1. CASE t = s
        <5>1. Len(c) \in Nat
          BY <1>6
        <5>2. Len(c) + l <= Capacity + 1
          BY <1>9, <1>15, <5>1
        <5> QED
          BY <1>8, <4>1, <5>2
      <4>2. CASE t # s
        <5>1. Len(chan[t]) <= Capacity + 1 /\ chan'[t] = chan[t]
          BY <1>7, <2>1, <4>2 DEF ServerTypes
        <5> QED
          BY <5>1
      <4> QED
        BY <4>1, <4>2
    <3> QED
      BY <1>1, <2>1, <3>2, <3>3 DEF ServerTypes
  <2> QED
    BY <2>2, <2>3, <2>4, TypeParts
<1>11. Client'
  BY <1>1, <1>2 DEF Client, Delivering, history
<1>12. ASSUME NEW t \in Servers, t # s PROVE Server(t)'
  <2>1. Server(t)
    BY DEF StripesInv
  <2>2. SameServer(t)
    BY <1>1, <1>7, <1>12, <2>1 DEF SameServer, Server, Thread, Runs, history
  <2>3. ~Awaited(t) /\ ~Awaited(t)'
    BY <1>1, <1>12 DEF Awaited
  <2>4. Turn(t)'
    BY <1>1, <1>7, <1>12, <2>1, <2>3 DEF Server, Turn
  <2> QED
    BY <1>1, <1>12, <2>1, <2>2, <2>4, FrameButTurn DEF Delivering
<1>13. Server(s)'
  <2>1. thr'[s] = "data" /\ file'[s] = f /\ missed'[s] = missed[s] /\ meta'[s] = meta[s]
        /\ s \in sent' /\ s \notin ready' /\ Last' = Last
    BY <1>1 DEF history, Last
  <2>2. Thread(s)'
    <3>1. s \in up
      BY <1>2 DEF Server, Thread
    <3>2. \A m \in 1..Len(c) : c[m] \in Nat
      <4>1. \A m \in 1..Len(c) : c[m] \in Nat \/ (c[m] = End /\ m = Len(c))
        BY <1>2 DEF Server, Thread
      <4>2. Len(c) # 0 => c[Len(c)] # End
        BY <1>5, <1>6 DEF HasEnd
      <4> QED
        BY <1>6, <4>1, <4>2
    <3>3. ASSUME NEW m \in 1..Len(d) PROVE d[m] \in Nat \/ (d[m] = End /\ m = Len(d))
      <4>1. Len(c) \in Nat
        BY <1>6
      <4>2. CASE m \in 1..Len(c)
        BY <1>8, <3>2, <4>2
      <4>3. CASE m = Len(c) + 1
        BY <1>3, <1>8, <4>3
      <4>4. CASE m = Len(c) + 2 /\ Len(d) = Len(c) + 2
        <5>1. l = 2
          BY <1>8, <1>15, <4>1, <4>4
        <5>2. i = Last
          BY <1>15, <5>1
        <5>3. HasEnd(d)
          BY <1>8, <5>2
        <5> HIDE DEF d
        <5> QED
          BY <4>4, <5>3 DEF HasEnd
      <4> QED
        <5>1. Len(d) = Len(c) + l /\ l \in {1, 2}
          BY <1>8, <1>15
        <5>2. m \in 1..Len(c) \/ m = Len(c) + 1 \/ (m = Len(c) + 2 /\ Len(d) = Len(c) + 2)
          BY <4>1, <5>1
        <5> QED
          BY <4>2, <4>3, <4>4, <5>2
    <3> QED
      BY <1>1, <2>1, <3>1, <3>3 DEF Thread
  <2>3. Turn(s)'
    BY <1>1, <2>1 DEF Turn, Awaited
  <2>4. MissedBy(s)'
    BY <1>1, <1>2, <2>1 DEF Server, MissedBy, Last, Delivering
  <2>5. Items(f, d) = Given(s)' /\ (i = Last => Items(f, d) = Kept(s)' /\ Last \notin missed[s])
    <3>1. Items(f, d) = ((0..(i - 1)) \ missed[s]) \cup {i}
      BY <1>5, <1>8
    <3>2. Given(s)' = ((0..(i - 1)) \ missed[s]) \cup {i}
      BY <1>1, <2>1 DEF Given
    <3>3. i \notin missed[s] /\ (0..(i - 1)) \cup {i} = 0..i
      BY <1>3, <1>4
    <3>4. Kept(s)' = (0..Last) \ missed[s]
      BY <2>1 DEF Kept
    <3> QED
      BY <3>1, <3>2, <3>3, <3>4
  <2>6. \A m, k \in 1..Count(f, d) : m < k => Item(f, d, m) < Item(f, d, k)
    <3>1. \A m, k \in 1..Count(f, c) : m < k => Item(f, c, m) < Item(f, c, k)
      BY <1>4 DEF Flow
    <3>2. Items(f, c) \subseteq 0..(i - 1)
      BY <1>5
    <3> HIDE DEF f, c, d
    <3> QED
      BY <1>3, <1>8, <3>1, <3>2, AppendsInOrder
  <2>7. Flow(s)'
    <3>1. \A m \in 1..Len(f) : f[m] = Block(ver, f[m].stripe, s - 1)
      BY <1>4 DEF Flow
    <3> HIDE DEF f, c, d, n
    <3>2. file'[s] = f /\ chan'[s] = d /\ ver' = ver /\ i' = i
      BY <1>1, <2>1 DEF d
    <3> QED
      BY <1>8, <2>1, <2>5, <2>6, <3>1, <3>2 DEF Flow
  <2>8. Disk(s)'
    BY <1>1, <1>2, <2>1 DEF Server, Disk, Closed, Last, Delivering, history
  <2>9. Undisturbed(s)' /\ (Runs(s) => Runs(s)')
    BY <1>1, <2>1 DEF Undisturbed, Runs, Delivering
  <2> QED
    BY <1>1, <1>2, <2>2, <2>3, <2>4, <2>7, <2>8, <2>9 DEF Server, history
<1>14. Getting' /\ WholeServersRestore'
  BY <1>1, FrameDelivery
<1> QED
  BY <1>10, <1>11, <1>12, <1>13, <1>14 DEF StripesInv

LEMMA PutStep ==
  ASSUME StripesInv, NEW s \in Servers, Put(s) \/ PutReply(s)
  PROVE  StripesInv'
<1>1. TypeOK /\ Client /\ Server(s)
  BY DEF StripesInv
<1>2. CASE Put(s)
  <2>1. pc = "put" /\ s \in ready /\ i > 0 /\ thr[s] # "none" /\ SendBlock(s)
    BY <1>1, <1>2, FirstReady DEF Put, Dead
  <2>2. thr[s] = "data"
    <3>1. thr[s] # "request"
      BY <1>1, <2>1 DEF Server, Turn, Delivering
    <3> QED
      BY <1>1, <2>1, <3>1 DEF TypeOK
  <2>3. \A t \in Servers : ~Awaited(t)
    BY <2>1 DEF Awaited
  <2> QED
    BY <2>1, <2>2, <2>3, SendBlockStep DEF Delivering
<1>3. CASE PutReply(s)
  <2>1. pc = "reply" /\ s = First(ready) /\ thr[s] = "data" /\ SendBlock(s)
    BY <1>3 DEF PutReply
  <2>2. s \in ready
    BY <1>1, <2>1, FirstReady DEF Client
  <2>3. Awaited(s) /\ \A t \in Servers : t # s => ~Awaited(t)
    BY <2>1 DEF Awaited
  <2> QED
    BY <2>1, <2>2, <2>3, SendBlockStep DEF Delivering
<1> QED
  BY <1>2, <1>3

(* The loop goes on: at most one server was left out.                      *)
LEMMA EnoughFacts ==
  ASSUME TypeOK, Enough
  PROVE  /\ \A s, t \in Servers : s \notin sent /\ t \notin sent => s = t
         /\ N > 1 => sent # {}
<1>1. sent \in SUBSET Servers /\ Cardinality(sent) >= N - 1
  BY DEF TypeOK, Enough
<1>2. IsFiniteSet(sent) /\ Cardinality(sent) \in Nat
  BY <1>1, ServersFinite, FS_CardinalityType
<1>3. ASSUME NEW s \in Servers, NEW t \in Servers, s \notin sent, t \notin sent, s # t
      PROVE  FALSE
  <2> DEFINE S == sent \cup {s}
             T == S \cup {t}
  <2>1. IsFiniteSet(S) /\ Cardinality(S) = Cardinality(sent) + 1
    BY <1>2, <1>3, FS_AddElement
  <2>2. t \notin S
    BY <1>3
  <2>3. T \in SUBSET Servers
    BY <1>1
  <2> HIDE DEF S
  <2>4. Cardinality(T) = Cardinality(S) + 1
    BY <2>1, <2>2, FS_AddElement
  <2> HIDE DEF T
  <2>5. Cardinality(T) \in 0..N
    BY <2>3, ServersFinite
  <2> QED
    BY <1>1, <1>2, <2>1, <2>4, <2>5
<1>4. ASSUME N > 1, sent = {} PROVE FALSE
  <2>1. Cardinality(sent) = 0
    BY <1>4, FS_EmptySet
  <2> QED
    BY <1>1, <1>4, <2>1
<1> QED
  BY <1>3, <1>4

LEMMA NextStripeStep ==
  ASSUME StripesInv, NextStripe, N > 1
  PROVE  StripesInv'
<1>1. /\ pc = "put" /\ ready = {} /\ Enough
      /\ missed' = [s \in Servers |-> missed[s] \cup (IF s \in sent THEN {} ELSE {i})]
      /\ sent' = {}
      /\ UNCHANGED <<ver, size, ready, getter, servers, runs, faults, torn>>
  BY DEF NextStripe
<1>2. TypeOK /\ Client /\ i \in Nat /\ Last \in Nat /\ i <= Last /\ (IsLast <=> i = Last)
  BY SizeNat DEF StripesInv, IsLast, Last
<1>3. \/ /\ i = Last /\ pc' = "off" /\ ended' = "done" /\ i' = i
         /\ leftOut' = (leftOut \/ sent # Servers)
      \/ i # Last /\ i' = i + 1 /\ UNCHANGED <<pc, ended, leftOut>>
  BY <1>2 DEF NextStripe
<1>4. /\ \A s, t \in Servers : s \notin sent /\ t \notin sent => s = t
      /\ i = 0 => sent = Servers
  <2>1. /\ \A s, t \in Servers : s \notin sent /\ t \notin sent => s = t
        /\ sent # {}
    BY <1>1, <1>2, EnoughFacts
  <2>2. i = 0 => sent \in {{}, Servers}
    BY <1>1, <1>2 DEF Client, Delivering
  <2> QED
    BY <2>1, <2>2
<1>5. Last' = Last
  BY <1>1 DEF Last
<1>6. leftOut' \in BOOLEAN
  <2>1. leftOut \in BOOLEAN
    BY <1>2 DEF TypeOK
  <2> QED
    BY <1>3, <2>1
<1>7. TypeOK'
  <2>1. ClientTypes /\ ServerTypes /\ HistoryTypes /\ GetterTypes
    BY <1>2, TypeParts
  <2>2. ServerTypes' /\ GetterTypes'
    BY <1>1, <2>1, FrameTypes DEF servers, getter
  <2>3. ClientTypes'
    <3>1. i' \in 0..Last
      BY <1>2, <1>3
    <3>2. pc' \in {"off", "put"}
      BY <1>1, <1>3
    <3> QED
      BY <1>1, <2>1, <3>1, <3>2 DEF ClientTypes, Last
  <2>4. HistoryTypes'
    <3>1. missed' \in [Servers -> SUBSET Nat]
      BY <1>1, <1>2, <2>1 DEF HistoryTypes
    <3>2. ended' \in {"none", "done", "exit", "killed"}
      BY <1>3, <2>1 DEF HistoryTypes
    <3> QED
      BY <1>1, <1>6, <2>1, <3>1, <3>2 DEF HistoryTypes
  <2> QED
    BY <2>2, <2>3, <2>4, TypeParts
<1>8. \A s \in Servers : missed[s] \subseteq 0..(i - 1) /\ 0 \notin missed[s]
  BY <1>1 DEF StripesInv, Server, MissedBy, Delivering
<1>9. \A s \in Servers : missed'[s] = missed[s] \cup (IF s \in sent THEN {} ELSE {i})
  BY <1>1
<1>10. Client'
  <2>1. \A s, t \in Servers : s # t => missed'[s] \cap missed'[t] = {}
    <3> SUFFICES ASSUME NEW s \in Servers, NEW t \in Servers, s # t
                 PROVE  missed'[s] \cap missed'[t] = {}
      OBVIOUS
    <3>1. missed[s] \cap missed[t] = {}
      BY <1>2 DEF Client
    <3>2. i \notin missed[s] /\ i \notin missed[t]
      BY <1>2, <1>8
    <3>3. s \in sent \/ t \in sent
      BY <1>4
    <3> QED
      BY <1>9, <3>1, <3>2, <3>3
  <2>2. pc' # "reply" /\ (pc' \in {"put", "reply"} => i' # 0)
    BY <1>1, <1>2, <1>3
  <2>3. ver > 0
    BY <1>1, <1>2 DEF Client, Delivering
  <2> QED
    BY <1>1, <1>2, <2>1, <2>2, <2>3 DEF Client, Delivering
<1>11. ASSUME NEW s \in Servers PROVE Server(s)'
  <2>1. Server(s)
    BY DEF StripesInv
  <2>2. file'[s] = file[s] /\ chan'[s] = chan[s] /\ thr'[s] = thr[s] /\ meta'[s] = meta[s]
        /\ up' = up /\ ver' = ver /\ size' = size /\ faults' = faults /\ torn' = torn
        /\ s \notin sent'
    BY <1>1 DEF servers
  <2>3. /\ s \in sent => missed'[s] = missed[s]
        /\ s \notin sent => missed'[s] = missed[s] \cup {i} /\ i # 0
    BY <1>4, <1>9
  <2>4. Thread(s)'
    BY <2>1, <2>2 DEF Server, Thread
  <2>5. thr[s] # "request"
    <3>1. i > 0 \/ s \in sent => thr[s] # "request"
      BY <1>1, <2>1 DEF Server, Turn, Delivering
    <3> QED
      BY <1>2, <1>4, <3>1
  <2>6. Turn(s)'
    <3>1. s \notin ready' /\ (Delivering' => i' # 0 /\ pc' = "put")
      BY <1>1, <1>2, <1>3 DEF Delivering
    <3> QED
      BY <2>2, <2>5, <3>1 DEF Turn, Awaited
  <2>7. MissedBy(s)'
    <3>1. 0 \notin missed'[s] /\ missed'[s] \subseteq 0..i
      BY <1>2, <1>8, <2>3
    <3>2. Delivering' => i' - 1 = i
      BY <1>2, <1>3 DEF Delivering
    <3>3. missed'[s] \subseteq 0..Last
      BY <1>2, <3>1
    <3> QED
      BY <1>5, <3>1, <3>2, <3>3 DEF MissedBy
  <2>8. i = Last => Given(s) = Kept(s)'
    <3> SUFFICES ASSUME i = Last PROVE Given(s) = (0..Last) \ missed'[s]
      BY <1>5 DEF Kept
    <3>1. 0..Last = (0..(i - 1)) \cup {i} /\ i \notin missed[s]
      BY <1>2, <1>8
    <3>2. CASE s \in sent
      BY <2>3, <3>1, <3>2 DEF Given
    <3>3. CASE s \notin sent
      <4>1. i \notin 0..(i - 1)
        BY <1>2
      <4> QED
        BY <2>3, <3>1, <3>3, <4>1 DEF Given
    <3> QED
      BY <3>2, <3>3
  <2>9. i # Last => Given(s) = Given(s)'
    <3> SUFFICES ASSUME i # Last PROVE Given(s) = (0..(i' - 1)) \ missed'[s]
      BY <2>2 DEF Given
    <3>1. 0..(i' - 1) = (0..(i - 1)) \cup {i} /\ i \notin missed[s]
      BY <1>2, <1>3, <1>8
    <3>2. CASE s \in sent
      BY <2>3, <3>1, <3>2 DEF Given
    <3>3. CASE s \notin sent
      <4>1. i \notin 0..(i - 1)
        BY <1>2
      <4> QED
        BY <2>3, <3>1, <3>3, <4>1 DEF Given
    <3> QED
      BY <3>2, <3>3
  <2>10. ASSUME thr[s] = "data" PROVE Flow(s)'
    <3>1. Flow(s) /\ Items(file[s], chan[s]) = Given(s)
      BY <1>1, <2>1, <2>10 DEF Server, Flow, Delivering
    <3>2. HasEnd(chan[s]) => i = Last /\ s \in sent
      BY <1>1, <3>1 DEF Flow, Delivering
    <3>3. HasEnd(chan[s]) => Items(file[s], chan[s]) = Kept(s)' /\ Last \notin missed'[s]
                             /\ ~Delivering'
      <4> SUFFICES ASSUME HasEnd(chan[s])
                   PROVE  Items(file[s], chan[s]) = Kept(s)' /\ Last \notin missed'[s]
                          /\ ~Delivering'
        OBVIOUS
      <4>1. i = Last /\ s \in sent
        BY <3>2
      <4>2. Last \notin missed[s]
        BY <3>1 DEF Flow
      <4>3. pc' = "off"
        BY <1>3, <4>1
      <4> QED
        BY <2>3, <2>8, <3>1, <4>1, <4>2, <4>3 DEF Delivering
    <3>4. Delivering' => i # Last
      BY <1>3 DEF Delivering
    <3>5. Delivering' => Items(file[s], chan[s]) = Given(s)'
      BY <2>9, <3>1, <3>4
    <3> QED
      BY <1>5, <2>2, <3>1, <3>3, <3>5 DEF Flow
  <2>11. Disk(s)'
    <3>1. Disk(s)
      BY <2>1 DEF Server
    <3>2. meta[s] # None /\ meta[s][1] = ver => i = Last /\ s \in sent
      BY <1>1, <3>1 DEF Disk, Delivering
    <3>3. Closed(s) => Closed(s)'
      BY <1>5, <2>2, <2>3, <3>2 DEF Closed
    <3>4. meta[s] # None /\ meta[s][1] = ver => ~Delivering'
      BY <1>3, <3>2 DEF Delivering
    <3> QED
      BY <2>2, <3>1, <3>3, <3>4 DEF Disk
  <2>12. ASSUME Undisturbed(s) PROVE Undisturbed(s)'
    <3>1. thr[s] = "none" => Stored(s) /\ i = Last /\ s \in sent
      BY <1>1, <2>12 DEF Undisturbed, Delivering
    <3>2. thr[s] = "none" => Stored(s)' /\ ~Delivering'
      <4>1. thr[s] = "none" => Kept(s)' = Kept(s)
        BY <1>5, <2>3, <3>1 DEF Kept
      <4> QED
        BY <1>3, <2>2, <3>1, <4>1 DEF Stored, Delivering
    <3>3. thr[s] = "data" /\ ~Delivering' => Items(file[s], chan[s]) = Kept(s)'
      <4> SUFFICES ASSUME thr[s] = "data", ~Delivering'
                   PROVE  Items(file[s], chan[s]) = Kept(s)'
        OBVIOUS
      <4>1. i = Last
        BY <1>1, <1>3 DEF Delivering
      <4>2. Items(file[s], chan[s]) = Given(s)
        BY <1>1, <2>1 DEF Server, Flow, Delivering
      <4> QED
        BY <2>8, <4>1, <4>2
    <3> QED
      BY <2>2, <2>5, <3>2, <3>3 DEF Undisturbed
  <2>13. ASSUME Runs(s), ~leftOut' PROVE Runs(s)'
    <3>1. thr[s] = "data" /\ ~Delivering' => HasEnd(chan[s])
      <4> SUFFICES ASSUME thr[s] = "data", ~Delivering' PROVE HasEnd(chan[s])
        OBVIOUS
      <4>1. i = Last /\ sent = Servers
        BY <1>1, <1>3, <2>13 DEF Delivering
      <4> QED
        BY <1>1, <2>1, <4>1 DEF Server, Flow, Delivering
    <3> QED
      BY <2>2, <2>13, <3>1 DEF Runs
  <2>14. ~leftOut' => ~leftOut
    BY <1>3
  <2> QED
    BY <2>1, <2>2, <2>4, <2>6, <2>7, <2>10, <2>11, <2>12, <2>13, <2>14 DEF Server
<1>12. Getting' /\ WholeServersRestore'
  <2>1. pc' \notin {"get", "spin"}
    BY <1>1, <1>3
  <2> QED
    BY <1>1, <2>1, FrameDelivery DEF Delivering
<1> QED
  BY <1>7, <1>10, <1>11, <1>12 DEF StripesInv

-----------------------------------------------------------------------------
(* The steps of the servers.                                               *)

LEMMA FrameServers ==
  ASSUME StripesInv, NEW s \in Servers, Server(s)', UNCHANGED <<pc, client, runs, missed>>,
         \A t \in Servers : t # s => SameServer(t)
  PROVE  Client' /\ \A t \in Servers : Server(t)'
<1>1. Stays
  BY DEF Stays, Delivering, client
<1>2. ver \in Int /\ runs \in Int /\ runs' >= runs /\ runs' \in Int
  BY DEF StripesInv, TypeOK
<1>3. Client'
  BY <1>1, <1>2, FrameClient DEF StripesInv
<1>4. ASSUME NEW t \in Servers, t # s PROVE Server(t)'
  BY <1>1, <1>4, Frame DEF StripesInv
<1> QED
  BY <1>3, <1>4

(* What is stored is what was not missed, in order.                        *)
LEMMA StoredFacts ==
  ASSUME TypeOK, NEW s \in Servers, Stored(s), MissedBy(s)
  PROVE  /\ Len(file[s]) = Last + 1 - Cardinality(missed[s])
         /\ Cardinality(Kept(s)) = Len(file[s])
         /\ \A m \in 1..Len(file[s]) : file[s][m] = Block(ver, Sorted(Kept(s))[m], s - 1)
         /\ Last \notin missed[s] =>
              file[s] # << >> /\ file[s][Len(file[s])].stripe = Last
<1> DEFINE f == file[s]
           n == Len(f)
           g == [m \in 1..n |-> f[m].stripe]
<1>1. f \in Seq(Blocks) /\ n \in Nat /\ missed[s] \subseteq 0..Last /\ Last \in Nat
  BY SizeNat DEF TypeOK, MissedBy
<1>2. ASSUME NEW m \in 1..n PROVE f[m].stripe \in Nat
  <2> HIDE DEF f
  <2>1. f[m] \in Blocks
    BY <1>1
  <2> QED
    BY <2>1 DEF Blocks
<1>3. /\ \A m \in 1..n : f[m] = Block(ver, f[m].stripe, s - 1)
      /\ \A a, b \in 1..n : a < b => f[a].stripe < f[b].stripe
      /\ {f[m].stripe : m \in 1..n} = Kept(s)
  BY DEF Stored
<1>4. g \in [1..n -> Nat] /\ \A m \in 1..n : g[m] = f[m].stripe
  BY <1>2
<1> HIDE DEF f, n, g
<1>5. \A a, b \in 1..n : a < b => g[a] < g[b]
  BY <1>3, <1>4
<1>6. {g[m] : m \in 1..n} = Kept(s)
  BY <1>3, <1>4
<1>7. /\ IsFiniteSet(Kept(s)) /\ Cardinality(Kept(s)) = n
      /\ \A m \in 1..n : Sorted(Kept(s))[m] = g[m]
  <2> DEFINE S == {g[m] : m \in 1..n}
  <2>1. /\ IsFiniteSet(S) /\ Cardinality(S) = n
        /\ \A m \in 1..n : Sorted(S)[m] = g[m]
    BY <1>1, <1>4, <1>5, Enumerates
  <2> QED
    BY <1>6, <2>1
<1>8. n = Last + 1 - Cardinality(missed[s])
  <2>1. IsFiniteSet(0..Last) /\ Cardinality(0..Last) = Last + 1
    <3>1. IsFiniteSet(0..Last) /\ Cardinality(0..Last) = IF 0 > Last THEN 0 ELSE Last - 0 + 1
      BY <1>1, FS_Interval
    <3> QED
      BY <1>1, <3>1
  <2>2. IsFiniteSet(missed[s]) /\ Cardinality(missed[s]) \in Nat
    BY <1>1, <2>1, FS_Subset, FS_CardinalityType
  <2>3. Cardinality((0..Last) \ missed[s])
          = Cardinality(0..Last) - Cardinality((0..Last) \cap missed[s])
    BY <2>1, FS_Difference
  <2>4. (0..Last) \cap missed[s] = missed[s]
    BY <1>1
  <2>5. n = Cardinality(0..Last) - Cardinality(missed[s])
    BY <1>7, <2>3, <2>4 DEF Kept
  <2> HIDE DEF Last
  <2> QED
    BY <1>1, <2>1, <2>2, <2>5
<1>9. ASSUME Last \notin missed[s] PROVE n # 0 /\ f[n].stripe = Last
  <2>1. Last \in Kept(s)
    BY <1>1, <1>9 DEF Kept
  <2>2. PICK m \in 1..n : g[m] = Last
    BY <1>6, <2>1
  <2>3. n \in 1..n
    BY <1>1, <2>2
  <2>4. g[n] \in Kept(s)
    BY <1>6, <2>3
  <2>5. g[n] \in Nat /\ g[n] <= Last
    BY <1>4, <2>3, <2>4 DEF Kept
  <2>6. m < n => Last < g[n]
    BY <1>5, <2>2, <2>3
  <2>7. m = n
    BY <1>1, <2>2, <2>5, <2>6
  <2> QED
    BY <1>4, <2>2, <2>3, <2>7
<1>10. \A m \in 1..n : f[m] = Block(ver, Sorted(Kept(s))[m], s - 1)
  BY <1>3, <1>4, <1>7
<1>11. n # 0 => f # << >>
  BY DEF n
<1> QED
  BY <1>7, <1>8, <1>9, <1>10, <1>11 DEF f, n

LEMMA TakeRequestStep ==
  ASSUME StripesInv, NEW s \in Servers, TakeRequest(s)
  PROVE  StripesInv'
<1>1. /\ thr[s] = "request" /\ chan[s] # << >>
      /\ file' = [file EXCEPT ![s] = << >>]
      /\ thr' = [thr EXCEPT ![s] = "data"]
      /\ chan' = [chan EXCEPT ![s] = Tail(@)]
      /\ UNCHANGED <<pc, client, getter, up, meta, runs, faults, history>>
  BY DEF TakeRequest, Received
<1>2. TypeOK /\ Server(s)
  BY DEF StripesInv
<1>3. chan[s] = <<Request>> /\ Tail(chan[s]) = << >>
  <2>1. chan[s] = <<Request>>
    BY <1>1, <1>2 DEF Server, Thread
  <2>2. Tail(<<Request>>) = << >>
    OBVIOUS
  <2> QED
    BY <2>1, <2>2
<1>4. /\ thr'[s] = "data" /\ chan'[s] = << >> /\ file'[s] = << >>
      /\ \A t \in Servers : t # s =>
           thr'[t] = thr[t] /\ chan'[t] = chan[t] /\ file'[t] = file[t]
  BY <1>1, <1>2, <1>3 DEF TypeOK
<1>5. TypeOK'
  <2>1. ClientTypes /\ ServerTypes /\ HistoryTypes /\ GetterTypes
    BY <1>2, TypeParts
  <2>2. HistoryTypes' /\ GetterTypes'
    BY <1>1, <2>1, FrameTypes DEF history, getter
  <2>3. ClientTypes'
    BY <1>1, <2>1 DEF ClientTypes, client
  <2>4. ServerTypes'
    <3>1. thr' \in [Servers -> {"none", "request", "data"}]
      BY <1>1, <2>1 DEF ServerTypes
    <3>2. chan' \in [Servers -> Seq({Request, End} \cup Nat)]
      BY <1>1, <1>3, <2>1 DEF ServerTypes
    <3>3. file' \in [Servers -> Seq(Blocks)]
      BY <1>1, <2>1 DEF ServerTypes
    <3>4. ASSUME NEW t \in Servers PROVE Len(chan'[t]) <= Capacity + 1
      <4>1. CASE t = s
        <5>1. Len(chan'[t]) = 0 /\ 0 <= Capacity + 1
          BY <1>4, <4>1
        <5> QED
          BY <5>1
      <4>2. CASE t # s
        <5>1. Len(chan[t]) <= Capacity + 1 /\ chan'[t] = chan[t]
          BY <1>4, <2>1, <4>2 DEF ServerTypes
        <5> QED
          BY <5>1
      <4> QED
        BY <4>1, <4>2
    <3> QED
      BY <1>1, <2>1, <3>1, <3>2, <3>3, <3>4 DEF ServerTypes
  <2> QED
    BY <2>2, <2>3, <2>4, TypeParts
<1>6. Delivering => i = 0 /\ s \notin sent /\ Awaited(s)
  <2>1. i \in Nat
    BY <1>2, SizeNat
  <2> QED
    BY <1>1, <1>2, <2>1 DEF Server, Turn
<1>7. Awaited(s)' <=> Awaited(s)
  BY <1>1 DEF Awaited, client, First
<1>8. Server(s)'
  <2>1. meta'[s] = meta[s] /\ missed'[s] = missed[s] /\ Last' = Last /\ up' = up
        /\ (Delivering' <=> Delivering)
    BY <1>1 DEF history, client, Last, Delivering
  <2>2. Thread(s)'
    BY <1>1, <1>2, <1>4, <2>1 DEF Server, Thread
  <2>3. Turn(s)'
    BY <1>1, <1>4, <1>6, <1>7, <2>1 DEF Turn, client
  <2>4. MissedBy(s)'
    BY <1>1, <1>2, <2>1 DEF Server, MissedBy, client
  <2>5. ~HasEnd(<< >>) /\ Items(<< >>, << >>) = {} /\ Count(<< >>, << >>) = 0
    <3>1. ~HasEnd(<< >>)
      BY DEF HasEnd
    <3>2. Len(<< >>) = 0
      OBVIOUS
    <3>3. Count(<< >>, << >>) = 0
      BY <3>1, <3>2 DEF Count, Coming
    <3>4. 1..0 = {}
      OBVIOUS
    <3>5. Items(<< >>, << >>) = {}
      BY <3>3, <3>4 DEF Items
    <3> QED
      BY <3>1, <3>3, <3>5
  <2>6. Delivering => Given(s)' = {}
    <3> SUFFICES ASSUME Delivering PROVE Given(s)' = {}
      OBVIOUS
    <3>1. i' = 0 /\ s \notin sent'
      BY <1>1, <1>6 DEF client
    <3>2. 0..(0 - 1) = {}
      OBVIOUS
    <3> QED
      BY <3>1, <3>2 DEF Given
  <2>7. Flow(s)'
    <3>1. 1..0 = {} /\ Len(<< >>) = 0
      OBVIOUS
    <3>2. Delivering' => ~(i' = Last' /\ s \in sent')
      BY <1>1, <1>6, <2>1 DEF client
    <3> QED
      BY <1>4, <2>1, <2>5, <2>6, <3>1, <3>2 DEF Flow
  <2>8. Disk(s)'
    <3>1. Disk(s)
      BY <1>2 DEF Server
    <3>2. Closed(s)'
      BY <1>4 DEF Closed
    <3> QED
      BY <1>1, <1>4, <2>1, <3>1, <3>2 DEF Disk, client
  <2>9. faults = 0 /\ ver > 0 => Delivering
    BY <1>1, <1>2 DEF Server, Undisturbed
  <2>10. ver > 0
    <3>1. ver # 0
      BY <1>1, <1>2 DEF Server, Disk
    <3> QED
      BY <1>2, <3>1 DEF TypeOK
  <2>11. faults' = 0 => Undisturbed(s)'
    BY <1>1, <1>4, <2>1, <2>9, <2>10 DEF Undisturbed
  <2>12. faults' = 0 /\ ~leftOut' => Runs(s)'
    BY <1>1, <1>2, <1>4, <2>1, <2>9, <2>10 DEF Server, Runs, history
  <2> QED
    BY <1>4, <2>2, <2>3, <2>4, <2>7, <2>8, <2>11, <2>12 DEF Server
<1>9. Client' /\ \A t \in Servers : Server(t)'
  <2>1. \A t \in Servers : t # s => SameServer(t)
    BY <1>1, <1>4 DEF StripesInv, SameServer, Server, Thread, Runs, history
  <2>2. UNCHANGED <<pc, client, runs, missed>>
    BY <1>1 DEF history
  <2> QED
    BY <1>8, <2>1, <2>2, FrameServers
<1>10. pc \notin {"get", "spin"}
  BY <1>1 DEF StripesInv, Getting
<1>11. Getting'
  BY <1>1, <1>10 DEF Getting
<1>12. WholeServersRestore'
  BY <1>1, FrameRestored DEF StripesInv, client, getter
<1> QED
  BY <1>5, <1>9, <1>11, <1>12 DEF StripesInv

(* What a step does to one server.                                         *)
Changes(s, th, c, f, x) ==
  /\ thr' = [thr EXCEPT ![s] = th] /\ chan' = [chan EXCEPT ![s] = c]
  /\ file' = [file EXCEPT ![s] = f] /\ meta' = [meta EXCEPT ![s] = x]

Changed(s, th, c, f, x) ==
  /\ thr'[s] = th /\ chan'[s] = c /\ file'[s] = f /\ meta'[s] = x
  /\ \A t \in Servers : t # s =>
       thr'[t] = thr[t] /\ chan'[t] = chan[t] /\ file'[t] = file[t] /\ meta'[t] = meta[t]

LEMMA ServerChanges ==
  ASSUME ServerTypes, NEW s \in Servers, NEW th \in {"none", "request", "data"},
         NEW c \in Seq(Messages), Len(c) <= Len(chan[s]),
         NEW f \in Seq(Blocks), NEW x \in Metas,
         Changes(s, th, c, f, x), up' \subseteq Servers
  PROVE  ServerTypes' /\ Changed(s, th, c, f, x)
<1> USE DEF Changes
<1>1. thr \in [Servers -> {"none", "request", "data"}]
      /\ chan \in [Servers -> Seq(Messages)]
      /\ file \in [Servers -> Seq(Blocks)] /\ meta \in [Servers -> Metas]
  BY DEF ServerTypes, Messages
<1>2. thr' \in [Servers -> {"none", "request", "data"}] /\ thr'[s] = th
      /\ \A t \in Servers : t # s => thr'[t] = thr[t]
  BY <1>1
<1>3. chan' \in [Servers -> Seq(Messages)] /\ chan'[s] = c
      /\ \A t \in Servers : t # s => chan'[t] = chan[t]
  BY <1>1
<1>4. file' \in [Servers -> Seq(Blocks)] /\ file'[s] = f
      /\ \A t \in Servers : t # s => file'[t] = file[t]
  BY <1>1
<1>5. meta' \in [Servers -> Metas] /\ meta'[s] = x
      /\ \A t \in Servers : t # s => meta'[t] = meta[t]
  BY <1>1
<1>6. ASSUME NEW t \in Servers PROVE Len(chan'[t]) <= Capacity + 1
  <2>1. Len(chan[t]) <= Capacity + 1 /\ Len(chan[s]) <= Capacity + 1
    BY DEF ServerTypes
  <2>2. Len(c) \in Nat /\ Len(chan[s]) \in Nat
    BY <1>1
  <2>3. CASE t = s
    BY <1>3, <2>1, <2>2, <2>3
  <2>4. CASE t # s
    BY <1>3, <2>1, <2>4
  <2> QED
    BY <2>3, <2>4
<1> QED
  BY <1>2, <1>3, <1>4, <1>5, <1>6 DEF ServerTypes, Messages, Changed

LEMMA TakeBlockStep ==
  ASSUME StripesInv, NEW s \in Servers, TakeBlock(s)
  PROVE  StripesInv'
<1> DEFINE f == file[s]
           c == chan[s]
           block == Block(ver, Head(c), s - 1)
           g == Append(f, block)
           d == Tail(c)
<1>1. /\ thr[s] = "data" /\ c # << >> /\ Head(c) # End
      /\ file' = [file EXCEPT ![s] = g] /\ chan' = [chan EXCEPT ![s] = d]
      /\ UNCHANGED <<pc, client, getter, up, thr, meta, runs, faults, history>>
  BY DEF TakeBlock, Received
<1>2. TypeOK /\ Client /\ Server(s) /\ Flow(s)
  BY <1>1 DEF StripesInv, Server
<1>3. f \in Seq(Blocks) /\ c \in Seq(Messages) /\ ver \in 0..MaxRuns
  BY <1>2 DEF TypeOK, Messages
<1>4. Head(c) \in Nat
  <2>1. 1 \in 1..Len(c) /\ Head(c) = c[1]
    BY <1>1, <1>3
  <2> QED
    BY <1>1, <1>2, <2>1 DEF Server, Thread
<1>5. block \in Blocks /\ block.stripe = Head(c)
  BY <1>3, <1>4, BlockTypes DEF Block, Blocks, Servers
<1>6. Moved(f, c, g, d) /\ g \in Seq(Blocks) /\ d \in Seq(Messages)
  <2>1. Moved(f, c, g, d)
    BY <1>1, <1>3, <1>4, <1>5, Moves
  <2>2. d \in Seq(Messages)
    BY <1>1, <1>3
  <2> QED
    BY <1>3, <1>5, <2>1, <2>2
<1>7. /\ Len(g) = Len(f) + 1 /\ \A m \in 1..Len(f) : g[m] = f[m]
      /\ g[Len(f) + 1] = block
  BY <1>3, <1>5
<1> HIDE DEF f, c, g, d
<1>8. /\ TypeOK' /\ thr'[s] = "data" /\ chan'[s] = d /\ file'[s] = g /\ meta'[s] = meta[s]
      /\ \A t \in Servers : t # s =>
           thr'[t] = thr[t] /\ chan'[t] = chan[t] /\ file'[t] = file[t]
  <2>1. ClientTypes /\ ServerTypes /\ HistoryTypes /\ GetterTypes
    BY <1>2, TypeParts
  <2>2. HistoryTypes' /\ GetterTypes' /\ ClientTypes'
    BY <1>1, <2>1, FrameTypes DEF history, getter, client
  <2>3. thr = [thr EXCEPT ![s] = thr[s]] /\ meta = [meta EXCEPT ![s] = meta[s]]
        /\ meta[s] \in Metas /\ up' \subseteq Servers
    BY <1>1, <2>1 DEF ServerTypes
  <2>4. Len(d) <= Len(chan[s])
    BY <1>3, <1>6 DEF Moved, c
  <2>5. Changes(s, "data", d, g, meta[s])
    BY <1>1, <2>3 DEF Changes
  <2>6. ServerTypes' /\ Changed(s, "data", d, g, meta[s])
    BY <1>6, <2>1, <2>3, <2>4, <2>5, ServerChanges
  <2>7. ServerTypes' /\ TypeOK'
    BY <2>2, <2>6, TypeParts
  <2> QED
    BY <2>6, <2>7 DEF Changed
<1>9. Delivering => ~Awaited(s) /\ (i > 0 \/ s \in sent)
  <2>1. i \in Nat
    BY <1>2, SizeNat
  <2> QED
    BY <1>1, <1>2, <2>1 DEF Server, Turn, c
<1>10. Server(s)'
  <2>1. missed'[s] = missed[s] /\ Last' = Last /\ up' = up /\ (Delivering' <=> Delivering)
        /\ (Awaited(s)' <=> Awaited(s))
    BY <1>1 DEF history, client, Last, Delivering, Awaited, First
  <2>2. Thread(s)'
    <3>1. s \in up
      BY <1>1, <1>2 DEF Server, Thread
    <3>2. \A m \in 1..Len(c) : c[m] \in Nat \/ (c[m] = End /\ m = Len(c))
      BY <1>1, <1>2 DEF Server, Thread, c
    <3>3. ASSUME NEW m \in 1..Len(d) PROVE d[m] \in Nat \/ (d[m] = End /\ m = Len(d))
      <4>1. Len(d) = Len(c) - 1 /\ d[m] = c[m + 1] /\ Len(c) \in Nat
        BY <1>3, <1>6 DEF Moved
      <4>2. m + 1 \in 1..Len(c) /\ (m + 1 = Len(c) => m = Len(d))
        BY <4>1
      <4> QED
        BY <3>2, <4>1, <4>2
    <3> QED
      BY <1>8, <2>1, <3>1, <3>3 DEF Thread
  <2>3. Turn(s)'
    <3>1. i > 0 /\ s \in ready /\ Delivering => Len(d) < Capacity
      <4>1. Len(c) \in Nat /\ Len(d) = Len(c) - 1
        BY <1>3, <1>6 DEF Moved
      <4>2. i > 0 /\ s \in ready /\ Delivering => Len(c) < Capacity
        BY <1>1, <1>2 DEF Server, Turn, c
      <4> QED
        BY <4>1, <4>2
    <3>2. i' = i /\ ready' = ready /\ sent' = sent
      BY <1>1 DEF client
    <3>3. i \in Nat
      BY <1>2, SizeNat
    <3> QED
      BY <1>8, <1>9, <2>1, <3>1, <3>2, <3>3 DEF Turn
  <2>4. MissedBy(s)'
    BY <1>1, <1>2, <2>1 DEF Server, MissedBy, client
  <2>5. Given(s)' = Given(s) /\ Kept(s)' = Kept(s)
    BY <1>1, <2>1 DEF Given, Kept, client
  <2>6. \A m \in 1..Len(g) : g[m] = Block(ver, g[m].stripe, s - 1)
    <3>1. \A m \in 1..Len(f) : f[m] = Block(ver, f[m].stripe, s - 1)
      BY <1>2 DEF Flow, f
    <3>2. block = Block(ver, block.stripe, s - 1)
      BY <1>5
    <3>3. \A m \in 1..Len(g) : m \in 1..Len(f) \/ m = Len(f) + 1
      BY <1>3, <1>7
    <3> HIDE DEF block
    <3> QED
      BY <1>7, <3>1, <3>2, <3>3
  <2>7. \A m, k \in 1..Count(g, d) : m < k => Item(g, d, m) < Item(g, d, k)
    <3>1. \A m, k \in 1..Count(f, c) : m < k => Item(f, c, m) < Item(f, c, k)
      BY <1>2 DEF Flow, f, c
    <3> QED
      BY <1>6, <3>1 DEF Moved
  <2>8. Flow(s)'
    <3>1. /\ Delivering => /\ Items(f, c) = Given(s)
                           /\ i = Last /\ s \in sent => HasEnd(c)
          /\ HasEnd(c) => /\ Items(f, c) = Kept(s) /\ Last \notin missed[s]
                          /\ Delivering => i = Last /\ s \in sent
      BY <1>2 DEF Flow, f, c
    <3>2. ver' = ver /\ i' = i /\ sent' = sent
      BY <1>1 DEF client
    <3>3. Items(g, d) = Items(f, c) /\ (HasEnd(d) <=> HasEnd(c))
      BY <1>6 DEF Moved
    <3>4. file'[s] = g /\ chan'[s] = d
      BY <1>8
    <3> QED
      BY <2>1, <2>5, <2>6, <2>7, <3>1, <3>2, <3>3, <3>4 DEF Flow
  <2>9. Disk(s)'
    <3>1. Disk(s)
      BY <1>2 DEF Server
    <3>2. g[1].ver = ver
      <4>1. 1 \in 1..Len(g)
        BY <1>3, <1>7
      <4>2. g[1] = Block(ver, g[1].stripe, s - 1)
        BY <2>6, <4>1
      <4> QED
        BY <4>2 DEF Block
    <3>3. meta[s] # None => meta[s][1] < ver /\ meta[s][1] \in 0..ver
      BY <1>1, <3>1 DEF Disk
    <3>4. Closed(s)'
      <4>1. meta[s] # None => meta[s][1] # ver
        BY <1>3, <3>3
      <4> QED
        BY <1>8, <3>2, <4>1 DEF Closed
    <3>5. ver' = ver /\ i' = i /\ sent' = sent /\ ver # 0
      BY <1>1, <3>1 DEF client, Disk
    <3> QED
      BY <1>1, <1>8, <2>1, <3>1, <3>4, <3>5 DEF Disk
  <2>10. Undisturbed(s) => Undisturbed(s)'
    <3>1. Items(g, d) = Items(f, c)
      BY <1>6 DEF Moved
    <3> QED
      BY <1>1, <1>8, <2>1, <2>5, <3>1 DEF Undisturbed, f, c
  <2>11. Runs(s) => Runs(s)'
    <3>1. HasEnd(d) <=> HasEnd(c)
      BY <1>6 DEF Moved
    <3> QED
      BY <1>1, <1>8, <2>1, <3>1 DEF Runs, c
  <2>12. ver' = ver /\ faults' = faults /\ leftOut' = leftOut
    BY <1>1 DEF client, history
  <2> QED
    BY <1>2, <2>2, <2>3, <2>4, <2>8, <2>9, <2>10, <2>11, <2>12 DEF Server
<1>11. Client' /\ \A t \in Servers : Server(t)'
  <2>1. \A t \in Servers : t # s => SameServer(t)
    BY <1>1, <1>8 DEF StripesInv, SameServer, Server, Thread, Runs, history
  <2>2. UNCHANGED <<pc, client, runs, missed>>
    BY <1>1 DEF history
  <2> QED
    BY <1>10, <2>1, <2>2, FrameServers
<1>12. Getting'
  <2>1. pc \notin {"get", "spin"}
    BY <1>1 DEF StripesInv, Getting
  <2> QED
    BY <1>1, <2>1 DEF Getting
<1>13. WholeServersRestore'
  BY <1>1, FrameRestored DEF StripesInv, client, getter
<1> QED
  BY <1>8, <1>11, <1>12, <1>13 DEF StripesInv

(* The file has everything when nothing is left in the connection.         *)
LEMMA AllStored ==
  ASSUME TypeOK, NEW s \in Servers, Flow(s),
         Coming(chan[s]) = 0, Items(file[s], chan[s]) = Kept(s)
  PROVE  Stored(s)
<1> DEFINE f == file[s]
           c == chan[s]
<1>1. Len(f) \in Nat /\ Coming(c) = 0
  BY DEF TypeOK
<1> HIDE DEF f, c
<1>2. Count(f, c) = Len(f)
  BY <1>1 DEF Count
<1>3. \A m \in 1..Len(f) : Item(f, c, m) = f[m].stripe
  BY <1>1 DEF Item
<1>4. Items(f, c) = {f[m].stripe : m \in 1..Len(f)}
  BY <1>2, <1>3 DEF Items
<1>5. \A m, n \in 1..Len(f) : m < n => f[m].stripe < f[n].stripe
  BY <1>2, <1>3 DEF Flow, f, c
<1> QED
  BY <1>4, <1>5 DEF Stored, Flow, f, c

(* The end is the last thing that comes.                                   *)
LEMMA EndFacts ==
  ASSUME StripesInv, NEW s \in Servers,
         thr[s] = "data", chan[s] # << >>, Head(chan[s]) = End
  PROVE  /\ chan[s] = <<End>> /\ HasEnd(chan[s]) /\ Coming(chan[s]) = 0
         /\ Items(file[s], chan[s]) = Kept(s) /\ Last \notin missed[s]
         /\ Delivering => i = Last /\ s \in sent
         /\ ver \in 1..MaxRuns /\ <<ver, size>> \in Metas /\ pc \notin {"get", "spin"}
<1> DEFINE c == chan[s]
<1>1. TypeOK /\ Client /\ Server(s) /\ Flow(s)
  BY DEF StripesInv, Server
<1>2. c = <<End>> /\ HasEnd(c) /\ Coming(c) = 0
  <2>1. c \in Seq(Messages) /\ End \notin Nat
    BY <1>1 DEF TypeOK, Messages, End
  <2>2. 1 \in 1..Len(c) /\ c[1] = End
    BY <2>1
  <2>3. Len(c) = 1
    BY <1>1, <2>1, <2>2 DEF Server, Thread
  <2>4. HasEnd(c) /\ Coming(c) = 0
    BY <2>2, <2>3 DEF HasEnd, Coming
  <2>5. c = <<End>>
    <3> HIDE DEF c
    <3> QED
      BY <2>1, <2>2, <2>3
  <2> QED
    BY <2>4, <2>5
<1>3. /\ Items(file[s], c) = Kept(s) /\ Last \notin missed[s]
      /\ Delivering => i = Last /\ s \in sent
  BY <1>1, <1>2 DEF Flow
<1> HIDE DEF c
<1>4. ver \in 1..MaxRuns /\ <<ver, size>> \in Metas
  <2>1. ver # 0 /\ ver \in 0..MaxRuns
    BY <1>1 DEF Server, Disk, TypeOK
  <2>2. ver \in 1..MaxRuns /\ size \in Sizes
    BY <1>1, <2>1 DEF Client
  <2> QED
    BY <2>2 DEF Metas
<1>5. pc \notin {"get", "spin"}
  BY DEF StripesInv, Getting
<1> QED
  BY <1>2, <1>3, <1>4, <1>5 DEF c

LEMMA TakeEndStep ==
  ASSUME StripesInv, NEW s \in Servers, TakeEnd(s)
  PROVE  StripesInv'
<1> DEFINE c == chan[s]
<1>1. /\ thr[s] = "data" /\ c # << >> /\ Head(c) = End
      /\ meta' = [meta EXCEPT ![s] = <<ver, size>>]
      /\ thr' = [thr EXCEPT ![s] = "none"] /\ chan' = [chan EXCEPT ![s] = Tail(c)]
      /\ UNCHANGED <<pc, client, getter, up, file, runs, faults, history>>
  BY DEF TakeEnd, Received
<1>2. TypeOK /\ Client /\ Server(s) /\ Flow(s)
  BY <1>1 DEF StripesInv, Server
<1>3. /\ c = <<End>> /\ Tail(c) = << >> /\ Coming(c) = 0
      /\ <<ver, size>> \in Metas /\ <<ver, size>> # None /\ ver \in 1..MaxRuns
      /\ pc \notin {"get", "spin"}
  <2>1. Tail(<<End>>) = << >>
    OBVIOUS
  <2> QED
    BY <1>1, <2>1, EndFacts DEF None
<1>4. /\ Items(file[s], c) = Kept(s) /\ Last \notin missed[s]
      /\ Delivering => i = Last /\ s \in sent
  BY <1>1, EndFacts
<1>5. Stored(s)
  BY <1>2, <1>3, <1>4, AllStored
<1> HIDE DEF c
<1>6. TypeOK' /\ Changed(s, "none", << >>, file[s], <<ver, size>>)
  <2>1. ClientTypes /\ ServerTypes /\ HistoryTypes /\ GetterTypes
    BY <1>2, TypeParts
  <2>2. HistoryTypes' /\ GetterTypes' /\ ClientTypes'
    BY <1>1, <2>1, FrameTypes DEF history, getter, client
  <2>3. file = [file EXCEPT ![s] = file[s]] /\ file[s] \in Seq(Blocks)
        /\ up' \subseteq Servers
    BY <1>1, <2>1 DEF ServerTypes
  <2>4. << >> \in Seq(Messages) /\ Len(<< >>) <= Len(chan[s])
    BY <1>3 DEF c
  <2>5. Changes(s, "none", << >>, file[s], <<ver, size>>)
    BY <1>1, <1>3, <2>3 DEF Changes
  <2>6. ServerTypes' /\ Changed(s, "none", << >>, file[s], <<ver, size>>)
    BY <1>3, <2>1, <2>3, <2>4, <2>5, ServerChanges
  <2>7. ServerTypes' /\ TypeOK'
    BY <2>2, <2>6, TypeParts
  <2> QED
    BY <2>6, <2>7
<1>7. /\ thr'[s] = "none" /\ chan'[s] = << >> /\ file'[s] = file[s]
      /\ meta'[s] = <<ver, size>>
      /\ \A t \in Servers : t # s =>
           thr'[t] = thr[t] /\ chan'[t] = chan[t] /\ file'[t] = file[t] /\ meta'[t] = meta[t]
  BY <1>6 DEF Changed
<1>8. Server(s)'
  <2>1. missed'[s] = missed[s] /\ Last' = Last /\ up' = up /\ (Delivering' <=> Delivering)
        /\ ver' = ver /\ size' = size /\ i' = i /\ sent' = sent
    BY <1>1 DEF history, client, Last, Delivering
  <2>2. Thread(s)'
    BY <1>7 DEF Thread
  <2>3. Turn(s)'
    BY <1>4, <1>7, <2>1 DEF Turn
  <2>4. MissedBy(s)'
    BY <1>1, <1>2, <2>1 DEF Server, MissedBy, client
  <2>5. Closed(s)'
    <3>1. /\ Len(file[s]) = Last + 1 - Cardinality(missed[s])
          /\ file[s] # << >> => file[s][Len(file[s])].stripe = Last
      BY <1>2, <1>4, <1>5, StoredFacts DEF Server
    <3>2. meta'[s][1] = ver /\ meta'[s][2] = size
      BY <1>7
    <3> QED
      BY <1>7, <2>1, <3>1, <3>2 DEF Closed, Last
  <2>6. Disk(s)'
    <3>1. meta'[s][1] = ver /\ ver \in 1..ver /\ ver # 0
      BY <1>3, <1>7
    <3> QED
      BY <1>4, <1>7, <2>1, <2>5, <3>1 DEF Disk
  <2>7. Undisturbed(s)'
    <3>1. Stored(s)'
      BY <1>5, <1>7, <2>1 DEF Stored, Kept
    <3> QED
      BY <1>4, <1>7, <2>1, <3>1 DEF Undisturbed
  <2>8. Runs(s)'
    <3>1. s \in up
      BY <1>1, <1>2 DEF Server, Thread
    <3> QED
      BY <1>3, <1>7, <2>1, <3>1 DEF Runs
  <2> QED
    BY <1>7, <2>2, <2>3, <2>4, <2>6, <2>7, <2>8 DEF Server
<1>9. Client' /\ \A t \in Servers : Server(t)'
  <2>1. \A t \in Servers : t # s => SameServer(t)
    BY <1>1, <1>7 DEF StripesInv, SameServer, Server, Thread, Runs, history
  <2>2. UNCHANGED <<pc, client, runs, missed>>
    BY <1>1 DEF history
  <2> QED
    BY <1>8, <2>1, <2>2, FrameServers
<1>10. Getting'
  BY <1>1, <1>3 DEF Getting
<1>11. WholeServersRestore'
  BY <1>1, FrameRestored DEF StripesInv, client, getter
<1> QED
  BY <1>6, <1>9, <1>10, <1>11 DEF StripesInv

LEMMA TakeEofStep ==
  ASSUME StripesInv, NEW s \in Servers, TakeEof(s)
  PROVE  StripesInv'
<1>1. /\ pc = "off" /\ thr[s] # "none" /\ chan[s] = << >>
      /\ thr' = [thr EXCEPT ![s] = "none"]
      /\ up' \subseteq up /\ \A t \in up : t # s => t \in up'
      /\ UNCHANGED <<pc, client, getter, chan, file, meta, runs, faults, ended, missed,
                     torn, leftOut>>
  BY DEF TakeEof
<1>2. TypeOK /\ Client /\ Server(s) /\ ~Delivering
  BY <1>1 DEF StripesInv, Delivering
<1>3. ver # 0 /\ ver \in 0..MaxRuns
  BY <1>1, <1>2 DEF Server, Disk, TypeOK
<1>4. TypeOK' /\ Changed(s, "none", << >>, file[s], meta[s])
  <2>1. ClientTypes /\ ServerTypes /\ HistoryTypes /\ GetterTypes
    BY <1>2, TypeParts
  <2>2. HistoryTypes' /\ GetterTypes' /\ ClientTypes'
    BY <1>1, <2>1, FrameTypes DEF getter, client
  <2>3. file = [file EXCEPT ![s] = file[s]] /\ file[s] \in Seq(Blocks)
        /\ meta = [meta EXCEPT ![s] = meta[s]] /\ meta[s] \in Metas
        /\ up' \subseteq Servers
    BY <1>1, <2>1 DEF ServerTypes
  <2>4. << >> \in Seq(Messages) /\ Len(<< >>) <= Len(chan[s])
    BY <1>1
  <2>5. chan = [chan EXCEPT ![s] = << >>]
    BY <1>1, <2>1 DEF ServerTypes
  <2>6. Changes(s, "none", << >>, file[s], meta[s])
    BY <1>1, <2>3, <2>5 DEF Changes
  <2>7. ServerTypes' /\ Changed(s, "none", << >>, file[s], meta[s])
    BY <2>1, <2>3, <2>4, <2>6, ServerChanges
  <2>8. ServerTypes' /\ TypeOK'
    BY <2>2, <2>7, TypeParts
  <2> QED
    BY <2>7, <2>8
<1>5. /\ thr'[s] = "none" /\ chan'[s] = << >> /\ file'[s] = file[s] /\ meta'[s] = meta[s]
      /\ \A t \in Servers : t # s =>
           thr'[t] = thr[t] /\ chan'[t] = chan[t] /\ file'[t] = file[t] /\ meta'[t] = meta[t]
  BY <1>4 DEF Changed
<1>6. Server(s)'
  <2>1. missed'[s] = missed[s] /\ Last' = Last /\ ~Delivering'
        /\ ver' = ver /\ size' = size
    BY <1>1, <1>2 DEF client, Last, Delivering
  <2>2. Thread(s)' /\ Turn(s)'
    BY <1>5, <2>1 DEF Thread, Turn
  <2>3. MissedBy(s)'
    BY <1>1, <1>2, <2>1 DEF Server, MissedBy, client
  <2>4. Disk(s)'
    <3>1. Disk(s)
      BY <1>2 DEF Server
    <3>2. Closed(s) => Closed(s)'
      BY <1>5, <2>1 DEF Closed
    <3> QED
      BY <1>1, <1>3, <1>5, <2>1, <3>1, <3>2 DEF Disk
  <2>5. faults = 0 => thr[s] = "data" /\ Stored(s)
    <3> SUFFICES ASSUME faults = 0 PROVE thr[s] = "data" /\ Stored(s)
      OBVIOUS
    <3>1. Undisturbed(s)
      BY <1>2, <1>3 DEF Server
    <3>2. thr[s] = "data"
      BY <1>1, <1>2, <3>1 DEF Undisturbed, TypeOK
    <3>3. ~HasEnd(chan[s]) /\ Coming(chan[s]) = 0
      BY <1>1 DEF HasEnd, Coming
    <3>4. Flow(s) /\ Items(file[s], chan[s]) = Kept(s)
      BY <1>2, <3>1, <3>2 DEF Server, Undisturbed
    <3> QED
      BY <1>2, <3>2, <3>3, <3>4, AllStored
  <2>6. faults' = 0 => Undisturbed(s)'
    <3>1. Stored(s) => Stored(s)'
      BY <1>5, <2>1 DEF Stored, Kept
    <3> QED
      BY <1>1, <1>5, <2>1, <2>5, <3>1 DEF Undisturbed
  <2>7. ~(faults' = 0 /\ ~leftOut')
    <3>1. faults = 0 /\ ~leftOut => HasEnd(chan[s])
      BY <1>2, <2>5 DEF Server, Runs
    <3> QED
      BY <1>1, <3>1 DEF HasEnd
  <2> QED
    BY <1>5, <2>2, <2>3, <2>4, <2>6, <2>7 DEF Server
<1>7. Client' /\ \A t \in Servers : Server(t)'
  <2>1. \A t \in Servers : t # s => SameServer(t)
    BY <1>1, <1>5 DEF StripesInv, SameServer, Server, Thread, Runs
  <2>2. UNCHANGED <<pc, client, runs, missed>>
    BY <1>1
  <2> QED
    BY <1>6, <2>1, <2>2, FrameServers
<1>8. Getting'
  BY <1>1 DEF Getting
<1>9. WholeServersRestore'
  BY <1>1, FrameRestored DEF StripesInv, client, getter
<1> QED
  BY <1>4, <1>7, <1>8, <1>9 DEF StripesInv

-----------------------------------------------------------------------------
(* What may happen to the processes.                                       *)

(* A killed server keeps the first blocks of its file, and, if it was      *)
(* about to close it, the metadata.                                        *)
LEMMA KilledStep ==
  ASSUME StripesInv, NEW s \in Servers, NEW m \in 0..Len(file[s]), Killed(s, m),
         thr[s] # "data" => m = Len(file[s]),
         NEW x \in Metas, meta' = [meta EXCEPT ![s] = x],
         \/ x = meta[s]
         \/ /\ x \in {Empty, <<ver, size>>} /\ s \in torn' /\ thr[s] = "data" /\ ver > 0
            /\ Delivering => i = Last /\ s \in sent,
         torn' \subseteq Servers, \A t \in Servers : t # s => (t \in torn' <=> t \in torn),
         s \in torn => s \in torn',
         UNCHANGED <<pc, client, getter, runs, ended, missed, leftOut>>
  PROVE  StripesInv'
<1> DEFINE f == file[s]
           g == SubSeq(f, 1, m)
<1>1. /\ faults' # 0 /\ faults' \in 0..MaxFaults /\ up' = up \ {s}
      /\ thr' = [thr EXCEPT ![s] = "none"] /\ chan' = [chan EXCEPT ![s] = << >>]
      /\ file' = [file EXCEPT ![s] = g]
  BY FaultFacts DEF Killed, StripesInv
<1>2. TypeOK /\ Client /\ Server(s)
  BY DEF StripesInv
<1>3. f \in Seq(Blocks) /\ Len(f) \in Nat /\ m \in 0..Len(f) /\ ver \in 0..MaxRuns
  BY <1>2 DEF TypeOK
<1>4. /\ g \in Seq(Blocks) /\ Len(g) = m
      /\ \A k \in 1..m : g[k] = f[k]
      /\ m = Len(f) => g = f
  <2> HIDE DEF f
  <2>1. \A k \in 1..m : f[k] \in Blocks
    BY <1>3
  <2>2. /\ g \in Seq(Blocks) /\ Len(g) = IF 1 <= m THEN m - 1 + 1 ELSE 0
        /\ \A k \in 1..(m - 1 + 1) : g[k] = f[1 + k - 1]
    BY <1>3, <2>1, SubSeqProperties
  <2>3. Len(g) = m
    BY <1>3, <2>2
  <2>4. \A k \in 1..m : g[k] = f[k]
    <3> HIDE DEF g
    <3>1. m - 1 + 1 = m /\ \A k \in 1..m : 1 + k - 1 = k
      BY <1>3
    <3> QED
      BY <2>2, <3>1
  <2>5. m = Len(f) => g = f
    BY <1>3, SubSeqFull
  <2> QED
    BY <2>2, <2>3, <2>4, <2>5
<1> HIDE DEF f, g
<1>5. TypeOK' /\ Changed(s, "none", << >>, g, x)
  <2>1. ClientTypes /\ ServerTypes /\ HistoryTypes /\ GetterTypes
    BY <1>2, TypeParts
  <2>2. GetterTypes' /\ ClientTypes'
    BY <2>1, FrameTypes DEF getter, client
  <2>3. HistoryTypes'
    BY <1>1, <2>1 DEF HistoryTypes
  <2>4. << >> \in Seq(Messages) /\ Len(<< >>) <= Len(chan[s])
    <3>1. Len(chan[s]) \in Nat
      BY <1>2 DEF TypeOK
    <3> QED
      BY <3>1
  <2>5. up' \subseteq Servers
    BY <1>1, <2>1 DEF ServerTypes
  <2>6. Changes(s, "none", << >>, g, x)
    BY <1>1 DEF Changes
  <2>7. ServerTypes' /\ Changed(s, "none", << >>, g, x)
    BY <1>4, <2>1, <2>4, <2>5, <2>6, ServerChanges
  <2>8. ServerTypes' /\ TypeOK'
    BY <2>2, <2>3, <2>7, TypeParts
  <2> QED
    BY <2>7, <2>8
<1>6. /\ thr'[s] = "none" /\ chan'[s] = << >> /\ file'[s] = g /\ meta'[s] = x
      /\ \A t \in Servers : t # s =>
           thr'[t] = thr[t] /\ chan'[t] = chan[t] /\ file'[t] = file[t] /\ meta'[t] = meta[t]
  BY <1>5 DEF Changed
<1>7. Server(s)'
  <2>1. missed'[s] = missed[s] /\ Last' = Last /\ (Delivering' <=> Delivering)
        /\ ver' = ver /\ size' = size /\ i' = i /\ sent' = sent
    BY DEF client, Last, Delivering
  <2>2. Thread(s)' /\ Turn(s)'
    <3>1. Awaited(s)' => Delivering' /\ (Awaited(s)' <=> Awaited(s))
      BY DEF Awaited, client, First, Delivering
    <3>2. Thread(s)'
      BY <1>6 DEF Thread
    <3> QED
      BY <1>6, <3>2 DEF Turn
  <2>3. MissedBy(s)'
    BY <1>2, <2>1 DEF Server, MissedBy, client
  <2>4. Disk(s)
    BY <1>2 DEF Server
  <2>5. ASSUME x = meta[s], thr[s] # "data" PROVE Disk(s)'
    <3>1. file'[s] = f /\ meta'[s] = meta[s]
      BY <1>4, <1>6, <2>5 DEF f
    <3>2. Closed(s) => Closed(s)'
      BY <2>1, <3>1 DEF Closed, f
    <3>3. s \notin torn' => s \notin torn
      OBVIOUS
    <3>4. thr'[s] = "none"
      BY <1>6
    <3> QED
      BY <2>1, <2>4, <3>1, <3>2, <3>3, <3>4 DEF Disk, f
  <2>6. ASSUME x = meta[s], thr[s] = "data" PROVE Disk(s)'
    <3>1. ver # 0
      BY <2>4, <2>6 DEF Disk
    <3>2. meta[s] # None => meta[s][1] # ver
      BY <1>3, <2>4, <2>6 DEF Disk
    <3>3. m # 0 => g[1].ver = ver
      <4> SUFFICES ASSUME m # 0 PROVE g[1].ver = ver
        OBVIOUS
      <4>1. 1 \in 1..m /\ 1 \in 1..Len(f)
        BY <1>3
      <4>2. g[1] = Block(ver, f[1].stripe, s - 1)
        BY <1>2, <1>4, <2>6, <4>1 DEF Server, Flow, f
      <4> QED
        BY <4>2 DEF Block
    <3>4. g # << >> => m # 0
      BY <1>3, <1>4, EmptySeq
    <3>5. Closed(s)'
      BY <1>6, <2>1, <2>6, <3>2, <3>3, <3>4 DEF Closed
    <3>6. thr'[s] = "none" /\ meta'[s] = meta[s]
      BY <1>6, <2>6
    <3> QED
      BY <2>1, <2>4, <3>1, <3>5, <3>6 DEF Disk
  <2>7. ASSUME x \in {Empty, <<ver, size>>}, s \in torn', ver > 0,
               Delivering => i = Last /\ s \in sent
        PROVE  Disk(s)'
    <3>1. meta'[s][1] \in 0..ver /\ ver # 0 /\ thr'[s] = "none"
      BY <1>3, <1>6, <2>7 DEF Empty
    <3> QED
      BY <2>1, <2>7, <3>1 DEF Disk
  <2>8. Disk(s)'
    BY <2>5, <2>6, <2>7
  <2> QED
    BY <1>1, <1>6, <2>2, <2>3, <2>8 DEF Server
<1>8. Client' /\ \A t \in Servers : Server(t)'
  <2>1. \A t \in Servers : t # s => SameServer(t)
    BY <1>1, <1>6 DEF StripesInv, SameServer, Server, Thread
  <2> QED
    BY <1>7, <2>1, FrameServers
<1>9. Getting'
  <2> SUFFICES ASSUME pc' \in {"get", "spin"} PROVE Getting'
    BY DEF Getting
  <2>1. pc' = pc /\ \A t \in Servers : thr[t] = "none"
    BY DEF StripesInv, Getting
  <2>2. x = meta[s] /\ g = f
    BY <1>4, <2>1 DEF f
  <2>3. \A t \in Servers : thr'[t] = "none" /\ file'[t] = file[t] /\ meta'[t] = meta[t]
    BY <1>6, <2>1, <2>2 DEF f
  <2>4. got \subseteq Servers
    BY <1>2 DEF TypeOK
  <2>5. \A t \in Servers : Whole(t)' <=> Whole(t)
    BY <2>3 DEF Whole, client
  <2> QED
    BY <2>1, <2>3, <2>4, <2>5 DEF StripesInv, Getting, client, getter
<1>10. WholeServersRestore'
  BY FrameRestored DEF StripesInv, client, getter
<1> QED
  BY <1>5, <1>8, <1>9, <1>10 DEF StripesInv

LEMMA KillServerStep ==
  ASSUME StripesInv, NEW s \in Servers, KillServer(s) \/ KillAtEnd(s)
  PROVE  StripesInv'
<1>1. TypeOK
  BY DEF StripesInv
<1>2. /\ meta \in [Servers -> Metas] /\ meta[s] \in Metas /\ torn \subseteq Servers
      /\ Len(file[s]) \in Nat
  BY <1>1 DEF TypeOK
<1>3. CASE KillServer(s)
  <2>1. PICK m \in 0..Len(file[s]) : (thr[s] # "data" => m = Len(file[s])) /\ Killed(s, m)
    BY <1>3 DEF KillServer
  <2>2. UNCHANGED <<pc, client, getter, meta, runs, history>>
    BY <1>3 DEF KillServer
  <2>3. meta' = [meta EXCEPT ![s] = meta[s]]
    BY <1>2, <2>2
  <2>4. UNCHANGED <<pc, client, getter, runs, ended, missed, leftOut, torn>>
    BY <2>2 DEF history
  <2> QED
    BY <1>2, <2>1, <2>3, <2>4, KilledStep
<1>4. CASE KillAtEnd(s)
  <2>1. PICK m \in 0..Len(file[s]), x \in {Empty, <<ver, size>>} :
          Killed(s, m) /\ meta' = [meta EXCEPT ![s] = x]
    BY <1>4 DEF KillAtEnd
  <2>2. /\ thr[s] = "data" /\ chan[s] # << >> /\ Head(chan[s]) = End
        /\ torn' = torn \cup {s}
        /\ UNCHANGED <<pc, client, getter, runs, ended, missed, leftOut>>
    BY <1>4 DEF KillAtEnd
  <2>3. /\ <<ver, size>> \in Metas /\ ver > 0 /\ (Delivering => i = Last /\ s \in sent)
    BY <2>2, EndFacts
  <2>4. x \in Metas
    <3>1. CASE x = Empty
      BY <3>1 DEF Metas
    <3>2. CASE x = <<ver, size>>
      BY <2>3, <3>2
    <3> QED
      BY <2>1, <3>1, <3>2
  <2>5. /\ torn' \subseteq Servers /\ s \in torn'
        /\ \A t \in Servers : t # s => (t \in torn' <=> t \in torn)
    BY <1>2, <2>2
  <2> QED
    BY <2>1, <2>2, <2>3, <2>4, <2>5, KilledStep
<1> QED
  BY <1>3, <1>4

LEMMA LoseDiskStep ==
  ASSUME StripesInv, NEW s \in Servers, LoseDisk(s)
  PROVE  StripesInv'
<1>1. /\ pc = "off" /\ s \notin up
      /\ file' = [file EXCEPT ![s] = NoFile] /\ meta' = [meta EXCEPT ![s] = None]
      /\ UNCHANGED <<pc, client, getter, up, thr, chan, runs, history>>
      /\ faults' # 0 /\ faults' \in 0..MaxFaults
  BY FaultFacts DEF LoseDisk, StripesInv
<1>2. TypeOK /\ Client /\ Server(s)
  BY DEF StripesInv
<1>3. thr[s] = "none" /\ chan[s] = << >>
  BY <1>1, <1>2 DEF Server, Thread
<1>4. TypeOK' /\ Changed(s, "none", << >>, NoFile, None)
  <2>1. ClientTypes /\ ServerTypes /\ HistoryTypes /\ GetterTypes
    BY <1>2, TypeParts
  <2>2. GetterTypes' /\ ClientTypes'
    BY <1>1, <2>1, FrameTypes DEF getter, client
  <2>3. HistoryTypes'
    BY <1>1, <2>1 DEF HistoryTypes, history
  <2>4. NoFile \in Seq(Blocks) /\ None \in Metas /\ << >> \in Seq(Messages)
        /\ Len(<< >>) <= Len(chan[s])
    BY <1>3, BlockTypes DEF NoFile, Metas
  <2>5. Changes(s, "none", << >>, NoFile, None)
    BY <1>1, <1>3, <2>1 DEF Changes, ServerTypes
  <2>6. up' \subseteq Servers
    BY <1>1, <2>1 DEF ServerTypes
  <2>7. ServerTypes' /\ Changed(s, "none", << >>, NoFile, None)
    BY <2>1, <2>4, <2>5, <2>6, ServerChanges
  <2>8. ServerTypes' /\ TypeOK'
    BY <2>2, <2>3, <2>7, TypeParts
  <2> QED
    BY <2>7, <2>8
<1>5. /\ thr'[s] = "none" /\ chan'[s] = << >> /\ file'[s] = NoFile /\ meta'[s] = None
      /\ \A t \in Servers : t # s =>
           thr'[t] = thr[t] /\ chan'[t] = chan[t] /\ file'[t] = file[t] /\ meta'[t] = meta[t]
  BY <1>4 DEF Changed
<1>6. Server(s)'
  <2>1. ~Delivering' /\ missed'[s] = missed[s] /\ Last' = Last
    BY <1>1 DEF Delivering, client, Last, history
  <2>2. Thread(s)' /\ Turn(s)'
    BY <1>5, <2>1 DEF Thread, Turn
  <2>3. MissedBy(s)'
    BY <1>2, <2>1 DEF Server, MissedBy
  <2>4. Disk(s)'
    BY <1>5 DEF Disk, Closed
  <2> QED
    BY <1>1, <1>5, <2>2, <2>3, <2>4 DEF Server
<1>7. Client' /\ \A t \in Servers : Server(t)'
  <2>1. \A t \in Servers : t # s => SameServer(t)
    BY <1>1, <1>5 DEF StripesInv, SameServer, Server, Thread, history
  <2>2. UNCHANGED <<pc, client, runs, missed>>
    BY <1>1 DEF history
  <2> QED
    BY <1>6, <2>1, <2>2, FrameServers
<1>8. Getting' /\ WholeServersRestore'
  BY <1>1, FrameRestored DEF Getting, StripesInv, client, getter
<1> QED
  BY <1>4, <1>7, <1>8 DEF StripesInv

(* A killed client cuts the message it sends, and leaves of the last one   *)
(* the block without the end.                                              *)
LEMMA CutStep ==
  ASSUME StripesInv, KillClient, NEW s \in Servers, s = First(ready), ready # {},
         Delivering, IsLast, thr[s] = "data", chan' = [chan EXCEPT ![s] = Append(@, i)]
  PROVE  /\ chan' \in [Servers -> Seq(Messages)]
         /\ \A t \in Servers : Len(chan'[t]) <= Capacity + 1
         /\ \A t \in Servers : t # s => chan'[t] = chan[t]
         /\ Server(s)'
<1> DEFINE f == file[s]
           c == chan[s]
           d == Append(c, i)
<1>1. /\ UNCHANGED <<client, thr, file, meta, missed, torn>>
      /\ ~Delivering' /\ faults' # 0 /\ pc # "get" /\ (s \in up => s \in up')
  BY FaultFacts DEF KillClient, Delivering, StripesInv
<1>2. TypeOK /\ Client /\ Server(s) /\ Flow(s) /\ s \in ready
  BY FirstReady DEF StripesInv, Server
<1>3. i \in Nat /\ Last \in Nat /\ s \notin sent
  BY <1>2, MessageIs DEF Client
<1>4. f \in Seq(Blocks) /\ c \in Seq(Messages)
  BY <1>2 DEF TypeOK, Messages
<1>5. ~HasEnd(c) /\ Items(f, c) \subseteq 0..(i - 1)
  BY <1>2, <1>3 DEF Flow, Given
<1>6. d = c \o <<i>> /\ i \in Messages
  BY <1>3, <1>4 DEF Messages
<1>7. Appended(f, c, <<i>>, i, d)
  BY <1>3, <1>4, <1>5, <1>6, Appends DEF Sends
<1>8. chan' \in [Servers -> Seq(Messages)] /\ chan'[s] = d
      /\ \A t \in Servers : t # s => chan'[t] = chan[t]
  <2>1. chan \in [Servers -> Seq(Messages)] /\ d \in Seq(Messages)
    BY <1>2, <1>3, <1>4 DEF TypeOK, Messages
  <2> QED
    BY <2>1
<1> HIDE DEF f, c, d
<1>9. Len(d) = Len(c) + 1 /\ Len(c) \in Nat /\ d[Len(c) + 1] = i
      /\ (\A m \in 1..Len(c) : d[m] = c[m]) /\ ~HasEnd(d)
  <2>1. Len(<<i>>) = 1 /\ <<i>> # <<i, End>>
    OBVIOUS
  <2> QED
    BY <1>4, <1>7, <2>1 DEF Appended
<1>10. Len(d) <= Capacity + 1
  <2>1. i > 0 => Len(c) < Capacity
    BY <1>2 DEF Server, Turn, c
  <2>2. i = 0 => c = << >>
    BY <1>2, <1>3 DEF Server, Turn, c
  <2>3. c = << >> => Len(c) = 0
    OBVIOUS
  <2> QED
    BY <1>3, <1>9, <2>1, <2>2, <2>3
<1>11. ASSUME NEW t \in Servers PROVE Len(chan'[t]) <= Capacity + 1
  <2>1. t # s => Len(chan[t]) <= Capacity + 1
    BY <1>2 DEF TypeOK
  <2> QED
    BY <1>8, <1>10, <2>1
<1>12. Thread(s)'
  <2>1. s \in up
    BY <1>2 DEF Server, Thread
  <2>2. \A m \in 1..Len(c) : c[m] \in Nat
    <3>1. \A m \in 1..Len(c) : c[m] \in Nat \/ (c[m] = End /\ m = Len(c))
      BY <1>2 DEF Server, Thread, c
    <3>2. Len(c) # 0 => c[Len(c)] # End
      BY <1>4, <1>5 DEF HasEnd
    <3> QED
      BY <1>9, <3>1, <3>2
  <2>3. \A m \in 1..Len(d) : d[m] \in Nat
    <3>1. \A m \in 1..Len(d) : m \in 1..Len(c) \/ m = Len(c) + 1
      BY <1>9
    <3> QED
      BY <1>3, <1>9, <2>2, <3>1
  <2> QED
    BY <1>1, <1>8, <2>1, <2>3 DEF Thread
<1>13. Turn(s)' /\ MissedBy(s)'
  BY <1>1, <1>2 DEF Server, Turn, MissedBy, Last, client
<1>14. Flow(s)'
  <2>1. \A m, k \in 1..Count(f, d) : m < k => Item(f, d, m) < Item(f, d, k)
    <3>1. \A m, k \in 1..Count(f, c) : m < k => Item(f, c, m) < Item(f, c, k)
      BY <1>2 DEF Flow, f, c
    <3> QED
      BY <1>3, <1>5, <1>7, <3>1, AppendsInOrder
  <2>2. \A m \in 1..Len(f) : f[m] = Block(ver, f[m].stripe, s - 1)
    BY <1>2 DEF Flow, f
  <2>3. file'[s] = f /\ chan'[s] = d /\ ver' = ver
    BY <1>1, <1>8 DEF client, f
  <2> QED
    BY <1>1, <1>9, <2>1, <2>2, <2>3 DEF Flow
<1>15. Disk(s)'
  BY <1>1, <1>2 DEF Server, Disk, Closed, Last, client
<1> QED
  BY <1>1, <1>8, <1>11, <1>12, <1>13, <1>14, <1>15 DEF Server

LEMMA KillClientStep ==
  ASSUME StripesInv, KillClient
  PROVE  StripesInv'
<1>1. /\ pc # "off" /\ pc' = "off" /\ ~Delivering' /\ ended' = "killed" /\ answer' = None
      /\ faults' # 0 /\ faults' \in 0..MaxFaults
      /\ UNCHANGED <<client, ava, got, fsize, dc, unset, thr, file, meta, runs, missed,
                     torn, leftOut>>
  BY FaultFacts DEF KillClient, StripesInv, Delivering
<1>2. TypeOK /\ Client
  BY DEF StripesInv
<1>3. up' \subseteq up /\ (pc \notin {"get", "spin"} => up' = up)
  BY DEF KillClient, Drops
<1>4. \A t \in Servers : t \notin up' => thr[t] = "none"
  BY <1>3 DEF StripesInv, Server, Thread, Getting
<1>5. ClientTypes' /\ GetterTypes' /\ HistoryTypes'
  <2>1. ClientTypes /\ GetterTypes /\ HistoryTypes
    BY <1>2, TypeParts
  <2>2. ClientTypes'
    BY <1>1, <2>1 DEF ClientTypes, client
  <2>3. GetterTypes'
    BY <1>1, <2>1, Zenon DEF GetterTypes, Answers
  <2>4. HistoryTypes'
    BY <1>1, <2>1 DEF HistoryTypes
  <2> QED
    BY <2>2, <2>3, <2>4
<1>6. Client'
  BY <1>1, <1>2 DEF Client, client
<1>7. ASSUME NEW t \in Servers, chan'[t] = chan[t] PROVE Server(t)'
  <2>1. SameServer(t)
    BY <1>1, <1>4, <1>7 DEF SameServer
  <2> QED
    BY <1>1, <2>1, FrameStops DEF StripesInv, client
<1>8. /\ \A t \in Servers : Server(t)'
      /\ chan' \in [Servers -> Seq(Messages)]
      /\ \A t \in Servers : Len(chan'[t]) <= Capacity + 1
  <2>1. CASE UNCHANGED chan
    BY <1>2, <1>7, <2>1 DEF TypeOK, Messages
  <2>2. CASE /\ pc \in {"put", "reply"} /\ ready # {} /\ IsLast
             /\ thr[First(ready)] = "data"
             /\ chan' = [chan EXCEPT ![First(ready)] = Append(@, i)]
    <3>1. PICK s \in Servers : s = First(ready)
      BY <1>2, <2>2, FirstReady DEF TypeOK
    <3>2. /\ chan' \in [Servers -> Seq(Messages)]
          /\ \A t \in Servers : Len(chan'[t]) <= Capacity + 1
          /\ \A t \in Servers : t # s => chan'[t] = chan[t]
          /\ Server(s)'
      BY <2>2, <3>1, CutStep DEF Delivering
    <3> QED
      BY <1>7, <3>2
  <2> QED
    BY <2>1, <2>2 DEF KillClient
<1>9. TypeOK'
  <2>1. ServerTypes'
    BY <1>1, <1>2, <1>3, <1>8 DEF TypeOK, ServerTypes, Messages
  <2> QED
    BY <1>5, <2>1, TypeParts
<1>10. Getting' /\ WholeServersRestore'
  BY <1>1, NoAnswer DEF Getting
<1> QED
  BY <1>6, <1>8, <1>9, <1>10 DEF StripesInv

-----------------------------------------------------------------------------
(* The invariant is inductive.  With one server the delivery loop would    *)
(* end before its select(): count < server_num - 1 is false at once.       *)

LEMMA InitInv ==
  ASSUME Init
  PROVE  StripesInv
<1> USE DEF Init
<1>1. TypeOK
  <2>1. LastStripe(0) \in Nat /\ 0 \in 0..LastStripe(0)
    <3>1. 0 \in Nat
      OBVIOUS
    <3>2. LastStripe(0) \in Nat
      BY <3>1, StripeSizes, DivFacts DEF LastStripe
    <3> QED
      BY <3>2
  <2>2. NoFile \in Seq(Blocks) /\ None \in Metas
    BY BlockTypes DEF NoFile, Metas
  <2>3. chan \in [Servers -> Seq({Request, End} \cup Nat)]
        /\ \A s \in Servers : Len(chan[s]) <= Capacity + 1
    <3>1. Len(<< >>) = 0 /\ << >> \in Seq({Request, End} \cup Nat)
      OBVIOUS
    <3> QED
      BY <3>1
  <2>4. thr \in [Servers -> {"none", "request", "data"}]
        /\ file \in [Servers -> Seq(Blocks)] /\ meta \in [Servers -> Metas]
        /\ missed \in [Servers -> SUBSET Nat]
    BY <2>2
  <2>5. /\ pc \in {"off", "put", "reply", "get", "spin"} /\ ver \in 0..MaxRuns
        /\ size \in Sizes \cup {0} /\ i \in 0..LastStripe(size)
        /\ ready \subseteq Servers /\ sent \subseteq Servers
        /\ ava \subseteq Servers /\ got \subseteq ava /\ fsize \in Int
        /\ up \subseteq Servers
        /\ runs \in 0..MaxRuns /\ faults \in 0..MaxFaults
        /\ ended \in {"none", "done", "exit", "killed"} /\ torn \subseteq Servers
    BY <2>1
  <2>6. dc \in BOOLEAN /\ unset \in BOOLEAN /\ leftOut \in BOOLEAN
    BY Zenon
  <2> QED
    BY <2>3, <2>4, <2>5, <2>6 DEF TypeOK
<1>2. ~Delivering
  BY DEF Delivering
<1>3. Client
  BY <1>2 DEF Client
<1>4. ASSUME NEW s \in Servers PROVE Server(s)
  <2>1. thr[s] = "none" /\ chan[s] = << >> /\ file[s] = NoFile /\ meta[s] = None
        /\ missed[s] = {} /\ s \in up /\ ver = 0
    OBVIOUS
  <2>2. Thread(s) /\ Turn(s)
    BY <1>2, <2>1 DEF Thread, Turn
  <2>3. MissedBy(s)
    BY <1>2, <2>1 DEF MissedBy
  <2>4. Disk(s)
    BY <2>1 DEF Disk, Closed
  <2>5. Runs(s)
    BY <2>1 DEF Runs
  <2> QED
    BY <2>1, <2>2, <2>3, <2>4, <2>5 DEF Server
<1>5. Getting
  BY DEF Getting
<1>6. WholeServersRestore
  BY DEF WholeServersRestore
<1> QED
  BY <1>1, <1>3, <1>4, <1>5, <1>6 DEF StripesInv

LEMMA StutterStep ==
  ASSUME StripesInv, UNCHANGED vars
  PROVE  StripesInv'
<1> USE DEF vars, client, getter, servers, history
<1>1. TypeOK'
  <2>1. ClientTypes /\ GetterTypes /\ ServerTypes /\ HistoryTypes
    BY TypeParts DEF StripesInv
  <2> QED
    BY <2>1, FrameTypes, TypeParts
<1>2. Stays
  BY DEF Stays, Delivering
<1>3. \A s \in Servers : SameServer(s)
  BY DEF SameServer, StripesInv, Server, Thread, Runs
<1>4. Client' /\ \A s \in Servers : Server(s)'
  BY <1>2, <1>3, FrameAll
<1>5. Getting' /\ WholeServersRestore'
  BY FrameGetting, FrameRestored DEF StripesInv
<1> QED
  BY <1>1, <1>4, <1>5 DEF StripesInv

LEMMA NextInv ==
  ASSUME N > 1, StripesInv, Next
  PROVE  StripesInv'
<1>1. CASE StartPut \/ StartGet \/ PutRefused \/ GetRefused
  BY <1>1, StartPutStep, StartGetStep, RefusedStep
<1>2. CASE Select \/ NextStripe
  BY <1>2, SelectStep, NextStripeStep
<1>3. ASSUME NEW s \in Servers,
             Put(s) \/ PutRequest(s) \/ PutReply(s) \/ PutLost(s) \/ PutFails(s)
      PROVE  StripesInv'
  BY <1>3, PutStep, PutRequestStep, PutLostStep, PutFailsStep
<1>4. CASE Fetch \/ FetchNothing \/ FetchCrashes \/ FetchFails \/ Decode
  BY <1>4, FetchStep, FetchNothingStep, FetchEndsStep, DecodeStep
<1>5. ASSUME NEW s \in Servers, Serve(s)
      PROVE  StripesInv'
  BY <1>5, TakeRequestStep, TakeBlockStep, TakeEndStep, TakeEofStep DEF Serve
<1>6. ASSUME NEW s \in Servers, KillServer(s) \/ KillAtEnd(s) \/ Restart(s) \/ LoseDisk(s)
      PROVE  StripesInv'
  BY <1>6, KillServerStep, RestartStep, LoseDiskStep
<1>7. CASE FetchCut \/ KillClient
  BY <1>7, FetchCutStep, KillClientStep
<1> QED
  BY <1>1, <1>2, <1>3, <1>4, <1>5, <1>6, <1>7 DEF Next, ClientStep

LEMMA Inductive ==
  ASSUME N > 1
  PROVE  Spec => []StripesInv
<1>1. Init => StripesInv
  BY InitInv
<1>2. StripesInv /\ [Next]_vars => StripesInv'
  BY NextInv, StutterStep
<1> QED
  BY <1>1, <1>2, PTL DEF Spec

-----------------------------------------------------------------------------

(* Every state is one of the typed ones: the stripe that put() delivers is *)
(* one of the file, a connection never holds more than fits in it and the  *)
(* end, and a reply is one that main_task() can give.                      *)
THEOREM Types ==
  ASSUME N > 1
  PROVE  Spec => []TypeOK
<1>1. StripesInv => TypeOK
  BY DEF StripesInv
<1> QED
  BY <1>1, Inductive, PTL

(* The loop around select() in put(): no stripe is left out at two servers *)
(* and the first at none, and where nobody was killed each server has, in  *)
(* order, all that it was sent, however the servers lag behind.            *)
THEOREM LoopStoresAtOthers ==
  ASSUME N > 1
  PROVE  Spec => []OthersStored
<1>1. ASSUME StripesInv, NEW s \in Servers,
             ended = "done" /\ pc = "off" /\ faults = 0 /\ ver > 0 /\ thr[s] = "none"
      PROVE  LET kept == (0..LastStripe(size)) \ missed[s] IN
             file[s] = [m \in 1..Cardinality(kept) |-> Block(ver, Sorted(kept)[m], s - 1)]
  <2>1. TypeOK /\ Server(s)
    BY <1>1 DEF StripesInv
  <2>2. Stored(s) /\ MissedBy(s)
    BY <1>1, <2>1 DEF Server, Undisturbed
  <2>3. /\ Cardinality(Kept(s)) = Len(file[s])
        /\ \A m \in 1..Len(file[s]) : file[s][m] = Block(ver, Sorted(Kept(s))[m], s - 1)
    BY <2>1, <2>2, StoredFacts
  <2>4. file[s] \in Seq(Blocks)
    BY <2>1 DEF TypeOK
  <2>5. file[s] = [m \in 1..Len(file[s]) |-> file[s][m]]
    BY <2>4
  <2>6. file[s] = [m \in 1..Cardinality(Kept(s)) |-> Block(ver, Sorted(Kept(s))[m], s - 1)]
    BY <2>3, <2>5
  <2> QED
    BY <2>6 DEF Kept, Last
<1>2. StripesInv => OthersStored
  <2> SUFFICES ASSUME StripesInv PROVE OthersStored
    OBVIOUS
  <2>1. \A s \in Servers : 0 \notin missed[s]
    BY DEF StripesInv, Server, MissedBy
  <2>2. \A s, t \in Servers : s # t => missed[s] \cap missed[t] = {}
    BY DEF StripesInv, Client
  <2> QED
    BY <1>1, <2>1, <2>2 DEF OthersStored
<1> QED
  BY <1>2, Inductive, PTL

(* put() of the server closes the metadata after the last block: a size    *)
(* and blocks of the same put mean that the last stripe is there and only  *)
(* what was not sent is missing, whatever was killed in between.           *)
THEOREM MetaMeansStored ==
  ASSUME N > 1
  PROVE  Spec => []MetaAfterBlocks
<1>1. StripesInv => MetaAfterBlocks
  BY DEF StripesInv, Server, Disk, Closed, Last, MetaAfterBlocks
<1> QED
  BY <1>1, Inductive, PTL

(* decode_file(): from any K servers that stored everything, and whose     *)
(* rows of the matrix can be inverted or are those of the file, the file   *)
(* comes back, for every K, N, size of block and size of file, but for     *)
(* what the size of the last block makes of it.                            *)
THEOREM DecodesWhatWasStored ==
  ASSUME N > 1
  PROVE  Spec => []WholeServersRestore
<1>1. StripesInv => WholeServersRestore
  BY DEF StripesInv
<1> QED
  BY <1>1, Inductive, PTL

(* A server that nobody kills ends only when a put left it without the     *)
(* last stripe.                                                            *)
THEOREM ServersRunOn ==
  ASSUME N > 1
  PROVE  Spec => []EndsOnlyWhenLeftOut
<1>1. StripesInv => EndsOnlyWhenLeftOut
  <2> SUFFICES ASSUME StripesInv, faults = 0 /\ ~leftOut PROVE up = Servers
    BY DEF EndsOnlyWhenLeftOut
  <2>1. \A s \in Servers : s \in up
    BY DEF StripesInv, Server, Runs
  <2>2. up \subseteq Servers
    BY DEF StripesInv, TypeOK
  <2> QED
    BY <2>1, <2>2
<1> QED
  BY <1>1, Inductive, PTL
=============================================================================

-------------------------- MODULE TokenBucketProofs --------------------------
(***************************************************************************)
(* Theorems about TokenBucket, for every bucket size, fill time and set of *)
(* packets.                                                                *)
(***************************************************************************)
EXTENDS TokenBucket, TLAPS, FiniteSetTheorems

USE SizeAssumption, FillTimeAssumption, BoundAssumption

(* Integer division by the fill time, as lazy_refill uses it: the quotient *)
(* is the number of whole fill times.                                      *)
LEMMA DivBound ==
  ASSUME NEW x \in Nat, NEW d \in Nat \ {0}
  PROVE  /\ x \div d \in Nat
         /\ d * (x \div d) <= x
         /\ x < d * (x \div d) + d
  OBVIOUS

(* What lazy_refill computes when the fill base is not in the future.      *)
LEMMA FillTokensBound ==
  ASSUME now \in Nat, fillBase \in Nat, fillBase <= now
  PROVE  /\ FillTokens \in Nat
         /\ fillBase + FillTime * FillTokens <= now
         /\ now < fillBase + FillTime * FillTokens + FillTime
<1>1. now - fillBase \in Nat
  OBVIOUS
<1>2. FillTokens = (now - fillBase) \div FillTime
  BY DEF FillTokens
<1> QED
  BY <1>1, <1>2, DivBound

(* What a number of tokens is worth in ticks.                              *)
LEMMA WorthOf ==
  ASSUME NEW n \in Int
  PROVE  /\ Worth(n) \in Nat
         /\ n >= 0 => Worth(n) = n * FillTime
         /\ n <= 0 => Worth(n) = 0
         /\ n > 0 => Worth(n) >= FillTime
  BY DEF Worth

-----------------------------------------------------------------------------

(* The initial state satisfies the type invariant and the bucket invariant.*)
LEMMA InitInv == Init => TypeOK /\ BucketInv
<1> SUFFICES ASSUME Init PROVE TypeOK /\ BucketInv
  OBVIOUS
<1> USE DEF Init
<1>1. TypeOK
  BY DEF TypeOK
<1>2. BucketInv
  BY DEF BucketInv, TokenRange, BaseInPast, FullOnlyAtStart, StartsFull,
         GrantsKnown, Envelope, Saturated
<1> QED
  BY <1>1, <1>2

(* A call that takes a token at once never does so with the fill base in   *)
(* the future: lazy_refill never sees a negative time difference.          *)
LEMMA TakeAfterBase ==
  ASSUME TypeOK, BucketInv, NEW p \in Packets, TakeToken(p)
  PROVE  fillBase <= now
<1>1. tokens > 0 \/ fillBase + FillTime <= now
  BY DEF TakeToken, FirstTake, RefillTake, TypeOK
<1> QED
  BY <1>1 DEF BucketInv, BaseInPast, TypeOK

(* Every step keeps the variables in their types.                          *)
LEMMA TypeStep == TypeOK /\ BucketInv /\ [Next]_vars => TypeOK'
<1> SUFFICES ASSUME TypeOK, BucketInv, [Next]_vars PROVE TypeOK'
  OBVIOUS
<1> USE DEF TypeOK
<1>1. ASSUME NEW p \in Packets, TakeToken(p) PROVE TypeOK'
  <2>0. fillBase <= now
    BY <1>1, TakeAfterBase
  <2>1. FillTokens \in Nat
    BY <2>0, FillTokensBound
  <2>2. CASE FirstTake
    BY <1>1, <2>2 DEF TakeToken, FirstTake
  <2>3. CASE RefillTake
    <3> DEFINE fill == FillTokens
               refilled == FillTime * fill
    <3>1. fill \in Nat /\ refilled \in Nat
      BY <2>1
    <3>2. \/ now' \in Nat /\ fillBase' = now' /\ tokens' = Size - 1
          \/ now' = now /\ fillBase' = fillBase + refilled /\ tokens' = tokens + fill - 1
      BY <2>3 DEF RefillTake, LazyRefillAndTake
    <3> HIDE DEF fill, refilled
    <3>3. now' \in Nat /\ fillBase' \in Nat /\ tokens' \in Int
      BY <3>1, <3>2
    <3> QED
      BY <1>1, <3>3 DEF TakeToken
  <2> QED
    BY <1>1, <2>2, <2>3 DEF TakeToken
<1>2. ASSUME NEW p \in Packets, ReserveToken(p) PROVE TypeOK'
  BY <1>2 DEF ReserveToken
<1>3. ASSUME NEW p \in Packets, WakeUp(p) PROVE TypeOK'
  BY <1>3 DEF WakeUp
<1>4. CASE Tick
  BY <1>4 DEF Tick
<1>5. CASE UNCHANGED vars
  BY <1>5 DEF vars
<1> QED
  BY <1>1, <1>2, <1>3, <1>4, <1>5 DEF Next

-----------------------------------------------------------------------------

(* What a step that hands out the token of time g does to the books, where *)
(* later, base, left and credit are the clock, the fill base, the tokens   *)
(* and the credit after it.                                                *)
Granted(g, later, base, left, credit) ==
  /\ g \in Nat /\ later \in Nat /\ base \in Nat /\ left \in Int
  /\ Credit \in Int /\ credit \in Int
  /\ now <= later /\ now <= g /\ fillBase <= g /\ fillBase <= base
  /\ g <= later \/ g <= base
  /\ left <= Size /\ left >= -1
  /\ Size > 0 => left >= 0 /\ left < Size
  /\ left > 0 => base <= later
  /\ Credit + g >= FillTime
  /\ credit <= Credit - FillTime
  /\ credit + FillTime + g <= Burst * FillTime
  /\ \/ credit + FillTime + g = Size * FillTime
     \/ grants # << >> /\ credit = Credit - FillTime
     \/ Size = 0

GrantStep(g) ==
  /\ grants' = Append(grants, g)
  /\ Granted(g, now', fillBase', tokens', Credit')

(* A reservation hands out the token of time fillBase + FillTime.          *)
LEMMA ReserveIsGrant ==
  ASSUME TypeOK, BucketInv, NEW p \in Packets, ReserveToken(p)
  PROVE  GrantStep(fillBase + FillTime)
<1> DEFINE g == fillBase + FillTime
           later == now'
           base == fillBase'
           left == tokens'
           credit == Credit'
<1>1. now \in Nat /\ fillBase \in Nat /\ tokens \in Int /\ g \in Nat
      /\ Size \in Nat /\ FillTime \in Nat /\ FillTime > 0
  BY DEF TypeOK
<1>2. TokenRange /\ BaseInPast /\ StartsFull /\ FullOnlyAtStart
  BY DEF BucketInv
<1>3. /\ tokens <= 0 /\ g > now
      /\ later = now /\ base = g /\ left = tokens
      /\ grants' = Append(grants, g)
  BY DEF ReserveToken
<1>4. Credit = -fillBase
  BY <1>1, <1>3, WorthOf DEF Credit
<1>5. credit = Worth(left) - base
  BY DEF Credit
<1> HIDE DEF later, base, left, credit
<1>6. Size > 0 => grants # << >>
  BY <1>1, <1>2, <1>3 DEF StartsFull
<1>7. FillTime <= Burst * FillTime /\ Burst * FillTime \in Int
  BY <1>1 DEF Burst
<1>8. credit = -g
  BY <1>1, <1>3, <1>5, WorthOf
<1>9. Granted(g, later, base, left, credit)
  BY <1>1, <1>2, <1>3, <1>4, <1>6, <1>7, <1>8
     DEF Granted, TokenRange, BaseInPast
<1> QED
  BY <1>3, <1>9 DEF GrantStep, later, base, left, credit

(* A token taken at once is the one of the time the call last read.  The   *)
(* products of the fill time with the size, the tokens and the refilled    *)
(* tokens are named, so that each step is linear in them.                  *)
LEMMA TakeIsGrant ==
  ASSUME TypeOK, BucketInv, NEW p \in Packets, TakeToken(p)
  PROVE  GrantStep(now')
<1>1. fillBase <= now
  BY TakeAfterBase
<1>2. TokenRange /\ BaseInPast /\ StartsFull /\ FullOnlyAtStart
  BY DEF BucketInv
<1>3. grants' = Append(grants, now') /\ now \in Nat /\ fillBase \in Nat
      /\ tokens \in Int /\ Size \in Nat /\ FillTime \in Nat /\ FillTime > 0
  BY DEF TakeToken, TypeOK
<1> DEFINE later  == now'
           base   == fillBase'
           left   == tokens'
           credit == Credit'
           worth  == Worth(tokens)
           full   == Size * FillTime
<1>4. /\ worth \in Nat /\ full \in Nat
      /\ Credit = worth - fillBase
      /\ tokens >= 0 => worth = tokens * FillTime
      /\ tokens <= 0 => worth = 0
      /\ tokens > 0 => worth >= FillTime
      /\ Size > 0 => full >= FillTime /\ Burst = Size
      /\ Size = 0 => full = 0 /\ Burst = 1
      /\ (Size - 1) * FillTime = full - FillTime
  <2>1. Credit = worth - fillBase
    BY DEF Credit
  <2>2. /\ worth \in Nat
        /\ tokens >= 0 => worth = tokens * FillTime
        /\ tokens <= 0 => worth = 0
        /\ tokens > 0 => worth >= FillTime
    BY <1>3, WorthOf
  <2>3. /\ full \in Nat
        /\ Size > 0 => full >= FillTime
        /\ Size = 0 => full = 0
        /\ (Size - 1) * FillTime = full - FillTime
    BY <1>3
  <2>4. /\ Size > 0 => Burst = Size
        /\ Size = 0 => Burst = 1
    BY <1>3 DEF Burst
  <2> QED
    BY <2>1, <2>2, <2>3, <2>4
<1>5. /\ Size > 0 => Burst * FillTime = full
      /\ Size = 0 => Burst * FillTime = FillTime
  BY <1>3, <1>4
<1>6. /\ credit = Worth(left) - base
      /\ Size > 0 => Worth(Size - 1) = full - FillTime
      /\ Size = 0 => Worth(Size - 1) = 0
  <2>1. credit = Worth(left) - base
    BY DEF Credit
  <2>2. /\ Size > 0 => Worth(Size - 1) = (Size - 1) * FillTime
        /\ Size = 0 => Worth(Size - 1) = 0
    <3> DEFINE m == Size - 1
    <3>1. m \in Int /\ (Size > 0 => m >= 0) /\ (Size = 0 => m <= 0)
      BY <1>3
    <3> HIDE DEF m
    <3>2. /\ Size > 0 => Worth(m) = m * FillTime
          /\ Size = 0 => Worth(m) = 0
      BY <3>1, WorthOf
    <3> QED
      BY <3>2 DEF m
  <2>3. Size > 0 => Worth(Size - 1) = full - FillTime
    BY <1>4, <2>2
  <2> QED
    BY <2>1, <2>2, <2>3
<1>7. tokens = Size => worth = full
  BY <1>3, <1>4
<1> HIDE DEF worth, full
<1>8. ASSUME FirstTake PROVE Granted(later, later, base, left, credit)
  <2>1. tokens = Size /\ Size > 0 /\ later = now
        /\ base = now /\ left = Size - 1
    BY <1>2, <1>3, <1>8 DEF FirstTake, TokenRange
  <2> HIDE DEF later, base, left, credit
  <2>2. worth = full /\ credit = full - FillTime - now
    BY <1>3, <1>4, <1>6, <1>7, <2>1
  <2> QED
    BY <1>1, <1>3, <1>4, <1>5, <2>1, <2>2 DEF Granted, full
<1>9. ASSUME RefillTake PROVE Granted(later, later, base, left, credit)
  <2> DEFINE fill == FillTokens
             refilled == FillTime * fill
  <2>1. /\ fill \in Nat /\ refilled \in Nat
        /\ fillBase + refilled <= now
        /\ now < fillBase + refilled + FillTime
    BY <1>1, <1>3, FillTokensBound
  <2>2. fill = 0 => refilled = 0
    BY <1>3
  <2>3. \/ tokens > 0 /\ tokens < Size
        \/ tokens <= 0 /\ fillBase + FillTime <= now
    BY <1>3, <1>9 DEF RefillTake
  <2>due. tokens + fill >= 0
    <3>1. tokens <= 0 => fill >= 1
      BY <1>3, <2>1, <2>2, <2>3
    <3> HIDE DEF fill
    <3> QED
      BY <1>2, <1>3, <2>1, <3>1 DEF TokenRange
  <2>4. \/ /\ tokens + fill >= Size
           /\ later \in Nat /\ later >= now
           /\ left = Size - 1 /\ base = later
        \/ /\ tokens + fill < Size
           /\ later = now
           /\ left = tokens + fill - 1 /\ base = fillBase + refilled
    BY <1>3, <1>9, <2>1, <2>due DEF RefillTake, LazyRefillAndTake, LooksFull
  <2>5. tokens >= 0 /\ tokens + fill >= Size => full <= worth + refilled
    BY <1>3, <1>4, <2>1 DEF full
  <2>6. tokens >= 0 /\ tokens + fill < Size => worth + refilled <= full - FillTime
    <3>1. SUFFICES ASSUME tokens >= 0, tokens + fill <= Size - 1
                   PROVE  worth + refilled <= full - FillTime
      BY <1>3, <2>1
    <3>2. (tokens + fill) * FillTime <= (Size - 1) * FillTime
      BY <1>3, <2>1, <3>1
    <3>3. (tokens + fill) * FillTime = tokens * FillTime + refilled
      BY <1>3, <2>1
    <3> QED
      BY <1>3, <1>4, <2>1, <3>1, <3>2, <3>3
  <2>7. tokens >= 0 /\ tokens + fill >= 1 =>
          (tokens + fill - 1) * FillTime = worth + refilled - FillTime
    BY <1>3, <1>4, <2>1
  <2> HIDE DEF fill, refilled
  <2>8. worth + now - fillBase >= FillTime
    BY <1>1, <1>3, <1>4, <2>3
  <2>9. tokens <= 0 => fill >= 1
    BY <1>3, <2>1, <2>2, <2>3
  <2>10. tokens + fill - 1 >= 0 =>
           Worth(tokens + fill - 1) = (tokens + fill - 1) * FillTime
    BY <1>3, <2>1, WorthOf
  <2> HIDE DEF later, base, left, credit
  <2>11. CASE tokens + fill >= Size
    <3>1. /\ later \in Nat /\ later >= now
          /\ left = Size - 1 /\ base = later
      BY <1>3, <2>1, <2>4, <2>11
    <3>2. CASE Size = 0
      <4>1. credit = -later /\ worth = 0
        BY <1>2, <1>3, <1>4, <1>6, <3>1, <3>2 DEF TokenRange
      <4> QED
        BY <1>1, <1>3, <1>4, <1>5, <2>8, <3>1, <3>2, <4>1 DEF Granted
    <3>3. CASE Size > 0
      <4>1. full <= worth + refilled
        BY <1>2, <1>3, <2>1, <2>5, <2>11, <3>3 DEF TokenRange
      <4>2. credit = full - FillTime - later
        BY <1>3, <1>6, <3>1, <3>3
      <4> QED
        BY <1>1, <1>3, <1>4, <1>5, <2>1, <2>8, <3>1, <3>3, <4>1, <4>2
           DEF Granted, full
    <3> QED
      BY <1>3, <3>2, <3>3
  <2>12. CASE tokens + fill < Size
    <3>1. /\ left = tokens + fill - 1 /\ later = now
          /\ base = fillBase + refilled
      BY <1>3, <2>1, <2>4, <2>12
    <3>2. Size > 0 /\ tokens >= 0 /\ tokens + fill >= 1
      BY <1>2, <1>3, <2>1, <2>9, <2>12 DEF TokenRange
    <3>3. credit = (tokens + fill - 1) * FillTime - base
      BY <1>3, <1>6, <2>1, <2>10, <3>1, <3>2
    <3>4. credit = Credit - FillTime
      BY <1>3, <1>4, <2>1, <2>7, <3>1, <3>2, <3>3
    <3>5. credit + FillTime + now <= full
      BY <1>1, <1>3, <1>4, <2>1, <2>6, <2>12, <3>2, <3>4
    <3>6. grants # << >>
      BY <1>2, <1>3, <2>1, <2>12 DEF StartsFull
    <3> QED
      BY <1>1, <1>3, <1>4, <1>5, <2>1, <2>8, <2>12, <3>1, <3>2, <3>4, <3>5, <3>6
         DEF Granted, full
  <2> QED
    BY <1>3, <2>1, <2>11, <2>12
<1>10. Granted(later, later, base, left, credit)
  BY <1>8, <1>9 DEF TakeToken
<1> QED
  BY <1>3, <1>10 DEF GrantStep

-----------------------------------------------------------------------------

(* The part of a grant that keeps the bucket invariant.                    *)
LEMMA GrantKeepsInv ==
  ASSUME TypeOK, BucketInv, NEW g, GrantStep(g)
  PROVE  BucketInv'
<1> DEFINE n == Len(grants)
           later  == now'
           base   == fillBase'
           left   == tokens'
           credit == Credit'
<1>1. /\ now \in Nat /\ fillBase \in Nat /\ n \in Nat /\ grants \in Seq(Nat)
      /\ Size \in Nat /\ FillTime \in Nat /\ FillTime > 0
      /\ \A i \in 1..n : grants[i] \in Nat
  BY DEF TypeOK
<1>2. Granted(g, later, base, left, credit)
  BY DEF GrantStep
<1>3. /\ g \in Nat /\ grants' = Append(grants, g)
  BY <1>2 DEF GrantStep, Granted
<1>4. /\ Len(grants') = n + 1 /\ grants' # << >>
      /\ \A i \in 1..n : grants'[i] = grants[i]
      /\ grants'[n + 1] = g
  BY <1>1, <1>3
<1> DEFINE old(i) == (n - i + 1) * FillTime
           new(i) == ((n + 1) - i + 1) * FillTime
<1>5. \A i \in 1..n : old(i) \in Int /\ new(i) = old(i) + FillTime
  BY <1>1
<1>6. new(n + 1) = FillTime
  BY <1>1
<1>7. Burst * FillTime \in Int /\ Size * FillTime \in Int
  BY <1>1 DEF Burst
<1>8. GrantsKnown /\ Envelope /\ Saturated /\ TokenRange
  BY DEF BucketInv
<1>9. \A i \in 1..n : Credit + old(i) + grants[i] <= Burst * FillTime
  BY <1>8 DEF Envelope
<1> HIDE DEF later, base, left, credit, old, new, n
<1>10. \A i \in 1..n : grants[i] <= later \/ grants[i] <= base
  BY <1>1, <1>2, <1>8 DEF GrantsKnown, Granted, n
<1>11. g <= later \/ g <= base
  BY <1>2 DEF Granted
<1>12. GrantsKnown'
  <2>1. SUFFICES ASSUME NEW i \in 1..(n + 1)
                 PROVE  grants'[i] <= later \/ grants'[i] <= base
    BY <1>4 DEF GrantsKnown, later, base
  <2>2. CASE i \in 1..n
    BY <1>4, <1>10, <2>2
  <2>3. CASE i = n + 1
    BY <1>4, <1>11, <2>3
  <2> QED
    BY <1>1, <2>2, <2>3
<1>13. \A i \in 1..n : credit + new(i) + grants[i] <= Burst * FillTime
  <2> DEFINE cap == Burst * FillTime
  <2>1. /\ Credit \in Int /\ credit \in Int /\ cap \in Int
        /\ FillTime \in Nat /\ credit <= Credit - FillTime
    BY <1>1, <1>2, <1>7 DEF Granted
  <2> HIDE DEF cap
  <2>2. SUFFICES ASSUME NEW i \in 1..n
                 PROVE  credit + new(i) + grants[i] <= cap
    BY DEF cap
  <2>3. /\ grants[i] \in Nat /\ old(i) \in Int /\ new(i) = old(i) + FillTime
        /\ Credit + old(i) + grants[i] <= cap
    BY <1>1, <1>5, <1>9 DEF cap
  <2> QED
    BY <2>1, <2>3
<1>14. credit + new(n + 1) + g <= Burst * FillTime
  BY <1>1, <1>2, <1>6 DEF Granted
<1>15. Envelope'
  <2>1. SUFFICES ASSUME NEW i \in 1..(n + 1)
                 PROVE  credit + new(i) + grants'[i] <= Burst * FillTime
    BY <1>4 DEF Envelope, credit, new
  <2>2. CASE i \in 1..n
    BY <1>4, <1>13, <2>2
  <2>3. CASE i = n + 1
    BY <1>4, <1>14, <2>3
  <2> QED
    BY <1>1, <2>2, <2>3
<1>16. Size > 0 =>
         \E i \in 1..(n + 1) : credit + new(i) + grants'[i] = Size * FillTime
  <2>1. SUFFICES ASSUME Size > 0
                 PROVE  \E i \in 1..(n + 1) :
                          credit + new(i) + grants'[i] = Size * FillTime
    OBVIOUS
  <2>2. CASE credit + FillTime + g = Size * FillTime
    <3>1. credit + new(n + 1) + grants'[n + 1] = Size * FillTime
      BY <1>4, <1>6, <2>2
    <3>2. n + 1 \in 1..(n + 1)
      BY <1>1
    <3> QED
      BY <3>1, <3>2
  <2>3. CASE grants # << >> /\ credit = Credit - FillTime
    <3>1. PICK i \in 1..n : Credit + old(i) + grants[i] = Size * FillTime
      BY <1>8, <2>1, <2>3 DEF Saturated, n, old
    <3>2. credit + new(i) + grants[i] = Size * FillTime
      BY <1>1, <1>2, <1>5, <1>7, <2>3, <3>1 DEF Granted
    <3>3. i \in 1..(n + 1) /\ grants'[i] = grants[i]
      BY <1>1, <1>4
    <3> QED
      BY <3>2, <3>3
  <2> QED
    BY <1>1, <1>2, <2>1, <2>2, <2>3 DEF Granted
<1>17. Saturated'
  BY <1>4, <1>16 DEF Saturated, credit, new
<1>18. left <= Size /\ left >= -1 /\ (Size > 0 => left >= 0 /\ left # Size)
       /\ (left > 0 => base <= later)
  BY <1>1, <1>2 DEF Granted
<1>19. TokenRange' /\ BaseInPast' /\ FullOnlyAtStart' /\ StartsFull'
  BY <1>4, <1>18
     DEF TokenRange, BaseInPast, FullOnlyAtStart, StartsFull, later, base, left
<1> QED
  BY <1>12, <1>15, <1>17, <1>19 DEF BucketInv

(* Every step keeps the bucket invariant.                                  *)
LEMMA InvStep == TypeOK /\ BucketInv /\ [Next]_vars => BucketInv'
<1> SUFFICES ASSUME TypeOK, BucketInv, [Next]_vars PROVE BucketInv'
  OBVIOUS
<1>1. ASSUME NEW p \in Packets, TakeToken(p) PROVE BucketInv'
  BY <1>1, TakeIsGrant, GrantKeepsInv
<1>2. ASSUME NEW p \in Packets, ReserveToken(p) PROVE BucketInv'
  BY <1>2, ReserveIsGrant, GrantKeepsInv
<1>3. ASSUME UNCHANGED <<tokens, fillBase, grants>>, now' \in Nat, now <= now'
      PROVE  BucketInv'
  <2> DEFINE later == now'
  <2>1. later \in Nat /\ now <= later /\ now \in Nat /\ fillBase \in Nat
        /\ \A i \in 1..Len(grants) : grants[i] \in Nat
    BY <1>3 DEF TypeOK
  <2> HIDE DEF later
  <2>2. TokenRange' /\ FullOnlyAtStart' /\ Envelope' /\ Saturated'
    BY <1>3 DEF BucketInv, TokenRange, FullOnlyAtStart, Envelope, Saturated, Credit
  <2>3. /\ tokens > 0 => fillBase <= later
        /\ grants = << >> => tokens = Size /\ fillBase <= later
        /\ \A i \in 1..Len(grants) : grants[i] <= later \/ grants[i] <= fillBase
    BY <2>1 DEF BucketInv, BaseInPast, StartsFull, GrantsKnown
  <2>4. BaseInPast' /\ StartsFull' /\ GrantsKnown'
    BY <1>3, <2>3 DEF BaseInPast, StartsFull, GrantsKnown, later
  <2> QED
    BY <2>2, <2>4 DEF BucketInv
<1>4. ASSUME NEW p \in Packets, WakeUp(p) PROVE BucketInv'
  BY <1>3, <1>4 DEF WakeUp, TypeOK
<1>5. CASE Tick
  BY <1>3, <1>5 DEF Tick, TypeOK
<1>6. CASE UNCHANGED vars
  BY <1>3, <1>6 DEF vars, TypeOK
<1> QED
  BY <1>1, <1>2, <1>4, <1>5, <1>6 DEF Next

-----------------------------------------------------------------------------

(* Type correctness and the bucket invariant hold in every reachable state *)
(* of get_token(), for every size, fill time and set of packets.           *)
THEOREM BucketInvariant == Spec => [](TypeOK /\ BucketInv)
<1>1. Init => TypeOK /\ BucketInv
  BY InitInv
<1>2. TypeOK /\ BucketInv /\ [Next]_vars => (TypeOK /\ BucketInv)'
  BY TypeStep, InvStep
<1> QED
  BY <1>1, <1>2, PTL DEF Spec

(* The comment of get_token(): the branch for a full bucket is only reached*)
(* by the first packet.                                                    *)
THEOREM FullOnlyAtFirstPacket == Spec => []FullOnlyAtStart
<1>1. TypeOK /\ BucketInv => FullOnlyAtStart
  BY DEF BucketInv
<1> QED
  BY <1>1, BucketInvariant, PTL

(* Tokens and reservations exclude each other.                             *)
THEOREM ReservationsAndTokens == Spec => []NoOvertaking
<1>1. TypeOK /\ BucketInv => NoOvertaking
  BY DEF BucketInv, TokenRange, BaseInPast, NoOvertaking
<1> QED
  BY <1>1, BucketInvariant, PTL

(* get_token() implements the contract of a rate limiter: whatever the     *)
(* threads do, no window of time holds more packets than the bucket plus   *)
(* what was refilled in it.                                                *)
THEOREM KeepsContract == Spec => ContractSpec
<1>1. Init => Contract!Init
  BY DEF Init, Contract!Init
<1>2. ASSUME TypeOK, BucketInv, NEW g, GrantStep(g) PROVE Contract!Grant
  <2> DEFINE n == Len(grants)
  <2>1. /\ now \in Nat /\ fillBase \in Nat /\ n \in Nat /\ grants \in Seq(Nat)
        /\ FillTime \in Nat
        /\ \A i \in 1..n : grants[i] \in Nat
    BY <1>2 DEF TypeOK
  <2>2. /\ g \in Nat /\ grants' = Append(grants, g)
        /\ now <= g /\ fillBase <= g /\ Credit \in Int /\ Credit + g >= FillTime
    BY <1>2 DEF GrantStep, Granted
  <2>3. Len(grants') = n + 1 /\ grants'[n + 1] = g
    BY <2>1, <2>2
  <2>4. Burst * FillTime \in Int
    BY <2>1 DEF Burst
  <2>5. \A i \in 1..n : grants[i] <= g
    BY <1>2, <2>1, <2>2 DEF BucketInv, GrantsKnown
  <2>6. \A i \in 1..n : Credit + (n - i + 1) * FillTime + grants[i] <= Burst * FillTime
    BY <1>2 DEF BucketInv, Envelope
  <2>7. \A i \in 1..n : (n - i + 2) * FillTime = (n - i + 1) * FillTime + FillTime
                        /\ (n - i + 1) * FillTime \in Int
    BY <2>1
  <2>8. \A i \in 1..n : (n - i + 2) * FillTime <= Burst * FillTime + (g - grants[i])
    <3> DEFINE cap == Burst * FillTime
               old(i) == (n - i + 1) * FillTime
               new(i) == (n - i + 2) * FillTime
    <3>1. /\ cap \in Int /\ Credit \in Int /\ g \in Nat /\ FillTime \in Nat
          /\ Credit + g >= FillTime
      BY <2>1, <2>2, <2>4
    <3>2. SUFFICES ASSUME NEW i \in 1..n PROVE new(i) <= cap + (g - grants[i])
      OBVIOUS
    <3>3. /\ grants[i] \in Nat /\ old(i) \in Int /\ new(i) = old(i) + FillTime
          /\ Credit + old(i) + grants[i] <= cap
      BY <2>1, <2>6, <2>7
    <3> HIDE DEF cap, old, new
    <3> QED
      BY <3>1, <3>3
  <2>9. Contract!Conforms(grants, g)
    BY <2>5, <2>8 DEF Contract!Conforms
  <2> QED
    BY <2>2, <2>3, <2>9 DEF Contract!Grant
<1>3. TypeOK /\ BucketInv /\ [Next]_vars => [Contract!Grant]_grants
  <2> SUFFICES ASSUME TypeOK, BucketInv, [Next]_vars
               PROVE  Contract!Grant \/ UNCHANGED grants
    OBVIOUS
  <2>1. ASSUME NEW p \in Packets, TakeToken(p) PROVE Contract!Grant
    BY <1>2, <2>1, TakeIsGrant
  <2>2. ASSUME NEW p \in Packets, ReserveToken(p) PROVE Contract!Grant
    BY <1>2, <2>2, ReserveIsGrant
  <2> QED
    BY <2>1, <2>2 DEF Next, WakeUp, Tick, vars
<1> QED
  BY <1>1, <1>3, BucketInvariant, PTL DEF Spec, ContractSpec, Contract!Spec

(* get_token() delays nobody needlessly: the token a thread is put to      *)
(* sleep for is the first one the contract allows.                         *)
THEOREM NoNeedlessDelay == Spec => DelayedOnlyWhenDue
<1> DEFINE Due(p) ==
      pc[p] = "called" /\ pc'[p] = "asleep" /\ Size > 0 =>
        \E i \in 1..Len(grants) :
          (Len(grants) - i + 2) * FillTime
            = Size * FillTime + (wake'[p] - grants[i])
<1>1. ASSUME TypeOK, BucketInv, [Next]_vars, NEW p \in Packets PROVE Due(p)
  <2> DEFINE n == Len(grants)
             g == fillBase + FillTime
  <2>1. SUFFICES ASSUME pc[p] = "called", pc'[p] = "asleep", Size > 0
                 PROVE  \E i \in 1..n : (n - i + 2) * FillTime
                                          = Size * FillTime + (wake'[p] - grants[i])
    OBVIOUS
  <2>2. ReserveToken(p)
    <3>1. pc'[p] # pc[p]
      BY <2>1
    <3>2. ASSUME NEW q \in Packets, TakeToken(q) PROVE FALSE
      BY <1>1, <2>1, <3>2 DEF TakeToken, TypeOK
    <3>3. ASSUME NEW q \in Packets, WakeUp(q) PROVE FALSE
      BY <1>1, <2>1, <3>3 DEF WakeUp, TypeOK
    <3>4. ASSUME NEW q \in Packets, ReserveToken(q) PROVE q = p
      BY <1>1, <3>1, <3>4 DEF ReserveToken, TypeOK
    <3> QED
      BY <1>1, <3>1, <3>2, <3>3, <3>4 DEF Next, Tick, vars
  <2>3. /\ fillBase \in Nat /\ tokens \in Int /\ tokens <= 0 /\ n \in Nat
        /\ Size \in Nat /\ FillTime \in Nat /\ FillTime > 0
        /\ \A i \in 1..n : grants[i] \in Nat
    BY <1>1, <2>2 DEF ReserveToken, TypeOK
  <2>4. wake'[p] = g
    BY <1>1, <2>2 DEF ReserveToken, TypeOK
  <2>5. grants # << >>
    BY <1>1, <2>1, <2>3 DEF BucketInv, StartsFull
  <2>6. Credit = -fillBase
    BY <2>3, WorthOf DEF Credit
  <2>7. PICK i \in 1..n : Credit + (n - i + 1) * FillTime + grants[i] = Size * FillTime
    BY <1>1, <2>1, <2>5 DEF BucketInv, Saturated
  <2>8. (n - i + 2) * FillTime = (n - i + 1) * FillTime + FillTime
        /\ (n - i + 1) * FillTime \in Int /\ Size * FillTime \in Int
    BY <2>3
  <2>9. (n - i + 2) * FillTime = Size * FillTime + (g - grants[i])
    BY <2>3, <2>6, <2>7, <2>8
  <2> QED
    BY <2>4, <2>9
<1>2. TypeOK /\ BucketInv /\ [Next]_vars => [\A p \in Packets : Due(p)]_vars
  BY <1>1
<1> QED
  BY <1>2, BucketInvariant, PTL DEF Spec, DelayedOnlyWhenDue

-----------------------------------------------------------------------------

(* The sleepers that wait past a time x are finitely many.                 *)
LEMMA PendingFinite ==
  ASSUME NEW x \in Nat
  PROVE  /\ IsFiniteSet(Asleep) /\ IsFiniteSet(Pending(x))
         /\ Cardinality(Pending(x)) \in Nat
         /\ Cardinality(Pending(x)) <= Cardinality(Asleep)
         /\ Cardinality(Asleep) \in Nat
<1>1. IsFiniteSet(Asleep)
  BY PacketsAssumption, FS_Subset DEF Asleep
<1>2. Pending(x) \subseteq Asleep
  BY DEF Pending
<1> QED
  BY <1>1, <1>2, FS_Subset, FS_CardinalityType

(* A token taken at once leaves the fill base in the past.                 *)
LEMMA TakeBase ==
  ASSUME TypeOK, BucketInv, NEW p \in Packets, TakeToken(p)
  PROVE  now <= now' /\ fillBase' <= now' /\ now' \in Nat /\ fillBase' \in Nat
<1>1. now \in Nat /\ fillBase \in Nat /\ fillBase <= now
  BY TakeAfterBase DEF TypeOK
<1>2. CASE FirstTake
  BY <1>1, <1>2 DEF FirstTake
<1>3. CASE RefillTake
  <2> DEFINE refilled == FillTime * FillTokens
  <2>1. refilled \in Nat /\ fillBase + refilled <= now /\ FillTokens \in Nat
    BY <1>1, FillTokensBound
  <2>2. \/ now' \in Nat /\ now <= now' /\ fillBase' = now'
        \/ now' = now /\ fillBase' = fillBase + refilled
    BY <1>1, <1>3 DEF RefillTake, LazyRefillAndTake, LooksFull
  <2> HIDE DEF refilled
  <2>3. CASE now' \in Nat /\ now <= now' /\ fillBase' = now'
    BY <2>3
  <2>4. CASE now' = now /\ fillBase' = fillBase + refilled
    BY <1>1, <2>1, <2>4
  <2> QED
    BY <2>2, <2>3, <2>4
<1>4. FirstTake \/ RefillTake
  BY DEF TakeToken
<1> QED
  BY <1>2, <1>3, <1>4

(* Every step keeps the queue of reservations without gaps: the fill base  *)
(* is at most one FillTime past x for each sleeper that waits past x.      *)
LEMMA QueueStep ==
  TypeOK /\ BucketInv /\ Queued /\ [Next]_vars => Queued'
<1> SUFFICES ASSUME TypeOK, BucketInv, Queued, [Next]_vars,
                    NEW x \in Nat, now' <= x
             PROVE  fillBase' <= x + FillTime * Cardinality(Pending(x)')
  BY DEF Queued, Pending, Asleep, TypeOK
<1> DEFINE card == Cardinality(Pending(x))
<1>1. /\ now \in Nat /\ fillBase \in Nat /\ FillTime \in Nat /\ card \in Nat
      /\ FillTime * card \in Nat
  <2>1. card \in Nat
    BY PendingFinite
  <2> HIDE DEF card
  <2>2. now \in Nat /\ fillBase \in Nat /\ FillTime \in Nat
    BY DEF TypeOK
  <2>3. FillTime * card \in Nat
    BY <2>1, <2>2
  <2> QED
    BY <2>1, <2>2, <2>3
<1>2. now <= x => fillBase <= x + FillTime * card
  BY DEF Queued
<1>3. ASSUME NEW p \in Packets, TakeToken(p)
      PROVE  fillBase' <= x + FillTime * Cardinality(Pending(x)')
  <2>1. Pending(x)' = Pending(x)
    BY <1>3 DEF Pending, Asleep, TakeToken, TypeOK
  <2>2. fillBase' <= x /\ fillBase' \in Nat
    BY <1>1, <1>3, TakeBase
  <2> DEFINE base == fillBase'
  <2>3. base <= x /\ base \in Nat
    BY <2>2
  <2> HIDE DEF base, card
  <2>4. base <= x + FillTime * card
    BY <1>1, <2>3
  <2> QED
    BY <2>1, <2>4 DEF base, card
<1>4. ASSUME NEW p \in Packets, ReserveToken(p)
      PROVE  fillBase' <= x + FillTime * Cardinality(Pending(x)')
  <2>1. now <= x /\ fillBase' = fillBase + FillTime /\ p \notin Pending(x)
    BY <1>4 DEF ReserveToken, Pending, Asleep
  <2>2. CASE fillBase + FillTime > x
    <3>1. Pending(x)' = Pending(x) \cup {p}
      BY <1>1, <1>4, <2>2 DEF Pending, Asleep, ReserveToken, TypeOK
    <3>2. Cardinality(Pending(x)') = card + 1
      BY <2>1, <3>1, PendingFinite, FS_AddElement
    <3>3. FillTime * (card + 1) = FillTime * card + FillTime
      BY <1>1
    <3>4. fillBase + FillTime <= x + FillTime * (card + 1)
      BY <1>1, <1>2, <2>1, <3>3
    <3> QED
      BY <2>1, <3>2, <3>4
  <2>3. CASE fillBase + FillTime <= x
    <3>1. Pending(x)' = Pending(x)
      BY <1>1, <1>4, <2>3 DEF Pending, Asleep, ReserveToken, TypeOK
    <3>2. fillBase + FillTime <= x + FillTime * card
      BY <1>1, <2>3
    <3> QED
      BY <2>1, <3>1, <3>2
  <2> QED
    BY <1>1, <2>2, <2>3
<1>5. ASSUME NEW p \in Packets, WakeUp(p)
      PROVE  fillBase' <= x + FillTime * Cardinality(Pending(x)')
  <2>1. now <= x /\ fillBase' = fillBase /\ wake[p] <= x
    BY <1>1, <1>5 DEF WakeUp, TypeOK
  <2>2. Pending(x)' = Pending(x)
    BY <1>1, <1>5, <2>1 DEF Pending, Asleep, WakeUp, TypeOK
  <2> QED
    BY <1>2, <2>1, <2>2
<1>6. ASSUME UNCHANGED <<fillBase, pc, wake>>, now <= x
      PROVE  fillBase' <= x + FillTime * Cardinality(Pending(x)')
  <2>1. Pending(x)' = Pending(x)
    BY <1>6 DEF Pending, Asleep
  <2> QED
    BY <1>2, <1>6, <2>1
<1>7. CASE Tick
  <2>1. now <= x
    BY <1>1, <1>7 DEF Tick
  <2> QED
    BY <1>6, <1>7, <2>1 DEF Tick
<1>8. CASE UNCHANGED vars
  BY <1>6, <1>8 DEF vars
<1> QED
  BY <1>3, <1>4, <1>5, <1>7, <1>8 DEF Next

(* The wait get_token() asks for is bounded by the queue of sleepers before*)
(* the caller.                                                             *)
THEOREM WaitIsBounded == Spec => []BoundedWait
<1>1. Init => Queued
  <2> SUFFICES ASSUME Init, NEW x \in Nat
               PROVE  fillBase <= x + FillTime * Cardinality(Pending(x))
    BY DEF Queued
  <2>1. Cardinality(Pending(x)) \in Nat
    BY PendingFinite
  <2>2. FillTime * Cardinality(Pending(x)) \in Nat
    BY <2>1
  <2> QED
    BY <2>2 DEF Init
<1>2. TypeOK /\ BucketInv /\ Queued => BoundedWait
  <2> SUFFICES ASSUME TypeOK, Queued
               PROVE  fillBase <= now + FillTime * Cardinality(Asleep)
    BY DEF BoundedWait
  <2> DEFINE a == Cardinality(Pending(now))
             b == Cardinality(Asleep)
  <2>1. now \in Nat /\ fillBase \in Nat /\ fillBase <= now + FillTime * a
    BY DEF TypeOK, Queued
  <2>2. a \in Nat /\ b \in Nat /\ a <= b
    BY <2>1, PendingFinite
  <2> HIDE DEF a, b
  <2>3. FillTime * a <= FillTime * b /\ FillTime * a \in Nat /\ FillTime * b \in Nat
    BY <2>2
  <2>4. fillBase <= now + FillTime * b
    BY <2>1, <2>3
  <2> QED
    BY <2>4 DEF b
<1> QED
  BY <1>1, <1>2, QueueStep, BucketInvariant, PTL DEF Spec
=============================================================================

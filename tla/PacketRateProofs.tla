--------------------------- MODULE PacketRateProofs ---------------------------
(***************************************************************************)
(* Theorems about PacketRate: what the packet buffer and the token bucket  *)
(* promise together, for every size of both.                               *)
(***************************************************************************)
EXTENDS PacketRate, TokenBucketProofs

USE SizeAssumption, FillTimeAssumption, BoundAssumption

(* The sleepers' tokens are due one fill time after the other, and the     *)
(* last of them at the fill base: for any time, the first one due after it *)
(* is no more than a fill time away for each token between it and the base.*)
Spread ==
  \A x \in Nat :
    x >= now /\ Pending(x) # {} =>
      x + FillTime * (Cardinality(Pending(x)) - 1) < fillBase

Buffered == {p \in Packets : place[p] = "buffer"}

(* pkt_in_buf counts the packets in the buffer, sleepers included.         *)
Counted ==
  /\ pktInBuf \in 0..MAX_PKT_IN_BUF
  /\ place \in [Packets -> {"outside", "buffer", "gone"}]
  /\ pktInBuf = Cardinality(Buffered)
  /\ Asleep \subseteq Buffered

-----------------------------------------------------------------------------

(* Seen without the buffer, a step is a step of the bucket, or none.       *)
LEMMA RateStepIsBucketStep == [RateNext]_rateVars => [Next]_vars
  BY DEF RateNext, rateVars, Next, Enter, DropFull, RmPktBuf, DropUnknown, Accept,
         GetToken

(* The bucket behind the buffer is a bucket: the contract, the order and   *)
(* the bound of the wait hold for the packets that the buffer lets through.*)
THEOREM RateImplementsBucket == RateSpec => Spec
<1>1. RateInit => Init
  BY DEF RateInit
<1> QED
  BY <1>1, RateStepIsBucketStep, PTL DEF RateSpec, Spec

-----------------------------------------------------------------------------

LEMMA SpreadStep ==
  TypeOK /\ BucketInv /\ Spread /\ [Next]_vars => Spread'
<1> SUFFICES ASSUME TypeOK, BucketInv, Spread, [Next]_vars,
                    NEW x \in Nat, now' <= x, Pending(x)' # {}
             PROVE  x + FillTime * (Cardinality(Pending(x)') - 1) < fillBase'
  BY DEF Spread, Pending, Asleep, TypeOK
<1> DEFINE card == Cardinality(Pending(x))
<1>1. /\ now \in Nat /\ fillBase \in Nat /\ FillTime \in Nat /\ FillTime > 0
      /\ card \in Nat
  <2>1. card \in Nat
    BY PendingFinite
  <2> HIDE DEF card
  <2> QED
    BY <2>1 DEF TypeOK
<1>2. now <= x /\ Pending(x) # {} => x + FillTime * (card - 1) < fillBase
  BY DEF Spread
<1>3. Pending(x) # {} => card > 0
  BY <1>1, PendingFinite, FS_EmptySet
<1> HIDE DEF card
<1>4. now <= x /\ Pending(x) # {} => x < fillBase
  <2>1. card > 0 => FillTime * (card - 1) \in Nat
    BY <1>1
  <2> QED
    BY <1>1, <1>2, <1>3, <2>1
<1>5. ASSUME NEW p \in Packets, TakeToken(p) PROVE FALSE
  <2>1. Pending(x)' = Pending(x)
    BY <1>5 DEF Pending, Asleep, TakeToken, TypeOK
  <2>2. fillBase <= now /\ now <= now' /\ now' \in Nat
    BY <1>5, TakeAfterBase, TakeBase
  <2> QED
    BY <1>1, <1>4, <2>1, <2>2
<1>6. ASSUME NEW p \in Packets, ReserveToken(p)
      PROVE  x + FillTime * (Cardinality(Pending(x)') - 1) < fillBase'
  <2>1. now <= x /\ fillBase' = fillBase + FillTime /\ p \notin Pending(x)
    BY <1>6 DEF ReserveToken, Pending, Asleep
  <2>2. CASE fillBase + FillTime > x
    <3>1. Pending(x)' = Pending(x) \cup {p}
      BY <1>1, <1>6, <2>2 DEF Pending, Asleep, ReserveToken, TypeOK
    <3>2. Cardinality(Pending(x)') = card + 1
      BY <2>1, <3>1, PendingFinite, FS_AddElement DEF card
    <3>3. CASE Pending(x) = {}
      <4>1. card = 0
        BY <3>3, FS_EmptySet DEF card
      <4>2. FillTime * ((card + 1) - 1) = 0
        BY <1>1, <4>1
      <4> QED
        BY <1>1, <2>1, <2>2, <3>2, <4>2
    <3>4. CASE Pending(x) # {}
      <4>1. FillTime * ((card + 1) - 1) = FillTime * (card - 1) + FillTime
        BY <1>1
      <4>2. FillTime * (card - 1) \in Int
        BY <1>1
      <4> QED
        BY <1>1, <1>2, <2>1, <3>2, <3>4, <4>1, <4>2
    <3> QED
      BY <3>3, <3>4
  <2>3. CASE fillBase + FillTime <= x
    <3>1. Pending(x)' = Pending(x)
      BY <1>1, <1>6, <2>3 DEF Pending, Asleep, ReserveToken, TypeOK
    <3> QED
      BY <1>1, <1>4, <2>1, <2>3, <3>1
  <2> QED
    BY <1>1, <2>2, <2>3
<1>7. ASSUME NEW p \in Packets, WakeUp(p)
      PROVE  x + FillTime * (Cardinality(Pending(x)') - 1) < fillBase'
  <2>1. now <= x /\ fillBase' = fillBase /\ wake[p] <= x
    BY <1>1, <1>7 DEF WakeUp, TypeOK
  <2>2. Pending(x)' = Pending(x)
    BY <1>1, <1>7, <2>1 DEF Pending, Asleep, WakeUp, TypeOK
  <2> QED
    BY <1>2, <2>1, <2>2 DEF card
<1>8. ASSUME UNCHANGED <<fillBase, pc, wake>>, now <= x
      PROVE  x + FillTime * (Cardinality(Pending(x)') - 1) < fillBase'
  <2>1. Pending(x)' = Pending(x)
    BY <1>8 DEF Pending, Asleep
  <2> QED
    BY <1>2, <1>8, <2>1 DEF card
<1>9. CASE Tick
  <2>1. now <= x
    BY <1>1, <1>9 DEF Tick
  <2> QED
    BY <1>8, <1>9, <2>1 DEF Tick
<1>10. CASE UNCHANGED vars
  BY <1>8, <1>10 DEF vars
<1> QED
  BY <1>5, <1>6, <1>7, <1>9, <1>10 DEF Next

THEOREM SpreadInvariant == Spec => []Spread
<1>1. Init => Spread
  BY DEF Init, Spread, Pending, Asleep
<1> QED
  BY <1>1, SpreadStep, BucketInvariant, PTL DEF Spec

-----------------------------------------------------------------------------

LEMMA BufferedFinite ==
  /\ IsFiniteSet(Buffered) /\ Cardinality(Buffered) \in Nat
  /\ IsFiniteSet(Buffered')
  BY PacketsAssumption, FS_Subset, FS_CardinalityType DEF Buffered

(* A packet that enters, and one that leaves.                              *)
LEMMA EnterCounted ==
  ASSUME Counted, NEW p \in Packets, Enter(p)
  PROVE  Counted'
<1>1. p \notin Buffered /\ Buffered' = Buffered \cup {p} /\ Asleep' = Asleep
  BY DEF Counted, Enter, Buffered, Asleep, vars
<1>2. Cardinality(Buffered') = Cardinality(Buffered) + 1
  BY <1>1, BufferedFinite, FS_AddElement
<1>3. pktInBuf' = pktInBuf + 1 /\ pktInBuf < MAX_PKT_IN_BUF
  BY DEF Enter
<1>4. place' \in [Packets -> {"outside", "buffer", "gone"}]
  BY DEF Counted, Enter
<1> QED
  BY <1>1, <1>2, <1>3, <1>4, BufferAssumption DEF Counted

LEMMA LeaveCounted ==
  ASSUME Counted, NEW p \in Packets, RmPktBuf(p), pc[p] # "asleep"
  PROVE  Counted'
<1>1. p \in Buffered /\ Buffered' = Buffered \ {p} /\ Asleep' = Asleep /\ p \notin Asleep
  BY DEF Counted, RmPktBuf, Buffered, Asleep, vars
<1>2. Cardinality(Buffered') = Cardinality(Buffered) - 1
  BY <1>1, BufferedFinite, FS_RemoveElement
<1>3. pktInBuf' = pktInBuf - 1 /\ pktInBuf' \in Nat
  <2>1. Cardinality(Buffered') \in Nat
    BY BufferedFinite, FS_CardinalityType
  <2> QED
    BY <1>2, <2>1 DEF RmPktBuf, Counted
<1>4. place' \in [Packets -> {"outside", "buffer", "gone"}]
  BY DEF Counted, RmPktBuf
<1> QED
  BY <1>1, <1>2, <1>3, <1>4, BufferAssumption DEF Counted

LEMMA CountedStep == TypeOK /\ Counted /\ [RateNext]_rateVars => Counted'
<1> SUFFICES ASSUME TypeOK, Counted, [RateNext]_rateVars PROVE Counted'
  OBVIOUS
<1>1. ASSUME NEW p \in Packets, Enter(p) PROVE Counted'
  BY <1>1, EnterCounted
<1>2. ASSUME NEW p \in Packets, DropFull(p) PROVE Counted'
  <2>1. Buffered' = Buffered /\ Asleep' = Asleep /\ pktInBuf' = pktInBuf
    BY <1>2 DEF Counted, DropFull, Buffered, Asleep, vars
  <2>2. place' \in [Packets -> {"outside", "buffer", "gone"}]
    BY <1>2 DEF Counted, DropFull
  <2> QED
    BY <2>1, <2>2 DEF Counted
<1>3. ASSUME NEW p \in Packets, DropUnknown(p) \/ Accept(p) PROVE Counted'
  BY <1>3, LeaveCounted DEF DropUnknown, Accept
<1>4. ASSUME NEW p \in Packets, GetToken(p) PROVE Counted'
  <2>1. p \in Buffered /\ UNCHANGED <<pktInBuf, place>>
    BY <1>4 DEF GetToken, Buffered
  <2>2. Asleep' \subseteq Asleep \cup {p}
    BY <1>4 DEF GetToken, TakeToken, ReserveToken, WakeUp, Asleep, TypeOK
  <2> QED
    BY <2>1, <2>2 DEF Counted, Buffered
<1>5. ASSUME UNCHANGED <<pc, pktInBuf, place>> PROVE Counted'
  BY <1>5 DEF Counted, Buffered, Asleep
<1>6. CASE Tick /\ UNCHANGED <<pktInBuf, place>>
  BY <1>5, <1>6 DEF Tick
<1>7. CASE UNCHANGED rateVars
  BY <1>5, <1>7 DEF rateVars, vars
<1> QED
  BY <1>1, <1>2, <1>3, <1>4, <1>6, <1>7 DEF RateNext

LEMMA CountedInvariant == RateSpec => []Counted
<1>1. RateInit => Counted
  <2> SUFFICES ASSUME RateInit PROVE Counted
    OBVIOUS
  <2>1. Buffered = {} /\ Asleep = {}
    BY DEF RateInit, Init, Buffered, Asleep
  <2>2. Cardinality(Buffered) = 0
    BY <2>1, FS_EmptySet
  <2> QED
    BY <2>1, <2>2, BufferAssumption DEF RateInit, Counted
<1> QED
  BY <1>1, CountedStep, RateImplementsBucket, BucketInvariant, PTL DEF RateSpec

(* pkt_in_buf is never negative and never exceeds MAX_PKT_IN_BUF.          *)
THEOREM RateTypes == RateSpec => []RateTypeOK
<1>1. TypeOK /\ Counted => RateTypeOK
  BY DEF Counted, RateTypeOK
<1> QED
  BY <1>1, CountedInvariant, RateImplementsBucket, BucketInvariant, PTL

-----------------------------------------------------------------------------

(* Sleepers are in the buffer, and so no more than it holds.               *)
LEMMA SleepersCounted ==
  ASSUME Counted
  PROVE  /\ Cardinality(Asleep) \in Nat
         /\ Cardinality(Asleep) <= pktInBuf
         /\ pktInBuf \in Nat /\ pktInBuf <= MAX_PKT_IN_BUF
<1>1. Asleep \subseteq Buffered
  BY DEF Counted
<1> QED
  BY <1>1, BufferedFinite, FS_Subset, FS_CardinalityType, BufferAssumption DEF Counted

LEMMA BaseBounded ==
  ASSUME TypeOK, Counted, BoundedWait
  PROVE  fillBase <= now + pktInBuf * FillTime
<1> DEFINE b == Cardinality(Asleep)
<1>1. b \in Nat /\ b <= pktInBuf /\ pktInBuf \in Nat
  BY SleepersCounted
<1>2. now \in Nat /\ fillBase \in Nat /\ fillBase <= now + FillTime * b
  BY DEF TypeOK, BoundedWait
<1> HIDE DEF b
<1>3. FillTime * b <= pktInBuf * FillTime /\ FillTime * b \in Nat
      /\ pktInBuf * FillTime \in Nat
  BY <1>1
<1> QED
  BY <1>1, <1>2, <1>3

(* A sleeper whose token is not due yet waits for one before the base.     *)
LEMMA WakeBeforeBase ==
  ASSUME TypeOK, Spread, NEW p \in Asleep, wake[p] > now
  PROVE  wake[p] <= fillBase
<1> DEFINE x == wake[p] - 1
           card == Cardinality(Pending(x))
<1>1. now \in Nat /\ fillBase \in Nat /\ wake[p] \in Nat /\ x \in Nat /\ x >= now
  BY DEF TypeOK, Asleep
<1>2. p \in Pending(x)
  BY <1>1 DEF Pending
<1>3. card \in Nat /\ card > 0
  BY <1>1, <1>2, PendingFinite, FS_EmptySet
<1>4. x + FillTime * (card - 1) < fillBase
  BY <1>1, <1>2 DEF Spread
<1> HIDE DEF card
<1>5. FillTime * (card - 1) \in Nat
  BY <1>3
<1> QED
  BY <1>1, <1>4, <1>5

(* No packet is put to sleep for longer than the tokens of a full buffer   *)
(* take: the limit of the buffer is a limit of the delay.                  *)
THEOREM DelayIsBounded == RateSpec => []DelayBounded
<1>1. ASSUME TypeOK, Counted, BoundedWait, Spread, NEW p \in Asleep
      PROVE  wake[p] <= now + MAX_PKT_IN_BUF * FillTime
  <2>1. now \in Nat /\ fillBase \in Nat /\ wake[p] \in Nat
    BY <1>1 DEF TypeOK, Asleep
  <2>2. pktInBuf \in Nat /\ pktInBuf <= MAX_PKT_IN_BUF
    BY <1>1, SleepersCounted
  <2>3. pktInBuf * FillTime <= MAX_PKT_IN_BUF * FillTime /\ pktInBuf * FillTime \in Nat
        /\ MAX_PKT_IN_BUF * FillTime \in Nat
    BY <2>2, BufferAssumption
  <2>4. fillBase <= now + pktInBuf * FillTime
    BY <1>1, BaseBounded
  <2>5. wake[p] <= now \/ wake[p] <= fillBase
    BY <1>1, <2>1, WakeBeforeBase
  <2> QED
    BY <2>1, <2>2, <2>3, <2>4, <2>5, BufferAssumption
<1>2. TypeOK /\ Counted /\ BoundedWait /\ Spread => DelayBounded
  BY <1>1 DEF DelayBounded
<1> QED
  BY <1>2, CountedInvariant, RateImplementsBucket, BucketInvariant, WaitIsBounded,
     SpreadInvariant, PTL

(* A full buffer is not stuck: were all the packets in it asleep until     *)
(* after the next token is due, as many tokens would be reserved behind    *)
(* that one as the buffer has places, which is one more than the fill base *)
(* allows.                                                                 *)
THEOREM RoomIsSoon == RateSpec => []RoomSoon
<1>1. ASSUME TypeOK, Counted, BoundedWait, Spread,
             pktInBuf = MAX_PKT_IN_BUF, MAX_PKT_IN_BUF > 0,
             \A p \in Packets : place[p] = "buffer" =>
               pc[p] = "asleep" /\ ~(wake[p] <= now + FillTime)
      PROVE  FALSE
  <2> DEFINE x == now + FillTime
  <2>1. now \in Nat /\ fillBase \in Nat /\ x \in Nat /\ x >= now
    BY <1>1 DEF TypeOK
  <2>2. \A p \in Buffered : pc[p] = "asleep" /\ wake[p] > x
    <3> SUFFICES ASSUME NEW p \in Buffered PROVE pc[p] = "asleep" /\ wake[p] > x
      OBVIOUS
    <3>1. pc[p] = "asleep" /\ ~(wake[p] <= x) /\ wake[p] \in Nat
      BY <1>1 DEF Buffered, TypeOK
    <3> QED
      BY <2>1, <3>1
  <2>3. Pending(x) = Buffered
    BY <1>1, <2>2 DEF Pending, Asleep, Buffered, Counted
  <2>4. Cardinality(Pending(x)) = pktInBuf
    BY <1>1, <2>3 DEF Counted
  <2>5. Pending(x) # {}
    BY <1>1, <2>4, FS_EmptySet
  <2>6. x + FillTime * (pktInBuf - 1) < fillBase
    BY <1>1, <2>1, <2>4, <2>5 DEF Spread
  <2>7. fillBase <= now + pktInBuf * FillTime
    BY <1>1, BaseBounded
  <2>8. FillTime * (pktInBuf - 1) = pktInBuf * FillTime - FillTime
        /\ pktInBuf * FillTime \in Nat
    BY <1>1, BufferAssumption
  <2> QED
    BY <2>1, <2>6, <2>7, <2>8
<1>2. TypeOK /\ Counted /\ BoundedWait /\ Spread => RoomSoon
  BY <1>1 DEF RoomSoon
<1> QED
  BY <1>2, CountedInvariant, RateImplementsBucket, BucketInvariant, WaitIsBounded,
     SpreadInvariant, PTL
=============================================================================

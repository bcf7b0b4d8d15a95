----------------------------- MODULE TokenBucket -----------------------------
(***************************************************************************)
(* The token bucket of src/asgn3/nat.c: get_token() and lazy_refill().     *)
(*                                                                         *)
(* Every packet that passed the translation runs get_token() once, in its  *)
(* own thread.  The bucket is refilled lazily: nobody adds tokens in the   *)
(* background, a caller works out how many were due since fill_base_tv.  A *)
(* caller that finds no token reserves the next one by moving the fill     *)
(* base forward, leaves the mutex and sleeps until that token is due.      *)
(*                                                                         *)
(* A critical section of bucket_mutex is one step.  Time may pass inside   *)
(* it: when lazy_refill finds the bucket full it reads the clock a second  *)
(* time.                                                                   *)
(*                                                                         *)
(* Time is counted in ticks of a clock that never goes back, and FillTime  *)
(* is 1 / bucket.rate in ticks.  The code computes with doubles and cuts   *)
(* microseconds off; here the arithmetic of times is exact.                *)
(***************************************************************************)
EXTENDS Integers, Sequences, FiniteSets

CONSTANTS
  Packets,    \* the packets that reach get_token()
  Size,       \* bucket.size
  FillTime,   \* 1 / bucket.rate
  MaxLag,     \* bound: ticks that pass between the two clock reads
  MaxTime     \* bound: the clock stops here

ASSUME SizeAssumption == Size \in Nat
ASSUME FillTimeAssumption == FillTime \in Nat \ {0}
ASSUME BoundAssumption == MaxLag \in Nat /\ MaxTime \in Nat
ASSUME PacketsAssumption == IsFiniteSet(Packets)

VARIABLES
  now,        \* gettimeofday()
  tokens,     \* bucket.tokens
  fillBase,   \* bucket.fill_base_tv
  pc,         \* where the thread of each packet is
  wake,       \* when the nanosleep() of a sleeping packet is over
  grants      \* history: the time of the token each get_token() call obtained

vars == <<now, tokens, fillBase, pc, wake, grants>>

TypeOK ==
  /\ now \in Nat
  /\ tokens \in Int
  /\ fillBase \in Nat
  /\ pc \in [Packets -> {"called", "asleep", "returned"}]
  /\ wake \in [Packets -> Nat]
  /\ grants \in Seq(Nat)

Init ==
  /\ now = 0
  /\ tokens = Size
  /\ fillBase = 0
  /\ pc = [p \in Packets |-> "called"]
  /\ wake = [p \in Packets |-> 0]
  /\ grants = << >>

-----------------------------------------------------------------------------

(* (int)(time_from_base / fill_time): C truncates towards zero.            *)
FillTokens ==
  IF now >= fillBase THEN (now - fillBase) \div FillTime
                     ELSE -((fillBase - now) \div FillTime)

(* Mutants of lazy_refill(): the bucket is not capped at its size; a full  *)
(* bucket is not taken from; the fill base moves the wrong way; the        *)
(* fraction of a token already refilled is forgotten.                      *)
LazyRefillUncapped ==
  /\ tokens' = tokens + FillTokens - 1
  /\ fillBase' = fillBase + FillTime * FillTokens
  /\ now' = now

LazyRefillTakesNone ==
  /\ tokens' = IF tokens + FillTokens >= Size THEN Size ELSE tokens + FillTokens - 1
  /\ fillBase' = IF tokens + FillTokens >= Size
                   THEN now ELSE fillBase + FillTime * FillTokens
  /\ now' = now

LazyRefillBackwards ==
  /\ tokens' = IF tokens + FillTokens >= Size THEN Size - 1 ELSE tokens + FillTokens - 1
  /\ fillBase' = IF tokens + FillTokens >= Size
                   THEN now ELSE fillBase - FillTime * FillTokens
  /\ now' = now

LazyRefillForgetsFraction ==
  /\ tokens' = IF tokens + FillTokens >= Size THEN Size - 1 ELSE tokens + FillTokens - 1
  /\ fillBase' = now
  /\ now' = now

(* bucket.tokens + fill_tokens is compared with an unsigned size, so that  *)
(* a negative sum would count as full.                                     *)
LooksFull ==
  \/ tokens + FillTokens >= Size
  \/ tokens + FillTokens < 0

(* lazy_refill() and the "bucket.tokens -= 1" that follows each call of it.*)
LazyRefillAndTake ==
  \/ /\ LooksFull
     /\ \E lag \in 0..MaxLag :
          /\ now' = now + lag
          /\ now' <= MaxTime
     /\ tokens' = Size - 1
     /\ fillBase' = now'
  \/ /\ ~LooksFull
     /\ tokens' = tokens + FillTokens - 1
     /\ fillBase' = fillBase + FillTime * FillTokens
     /\ now' = now

(* The branch "bucket start filling, only reached by the 1st pkt".         *)
FirstTake ==
  /\ tokens > 0
  /\ tokens >= Size
  /\ fillBase' = now
  /\ tokens' = tokens - 1
  /\ now' = now

RefillTake ==
  /\ IF tokens > 0 THEN tokens < Size ELSE fillBase + FillTime <= now
  /\ LazyRefillAndTake

(* get_token() that obtains a token at once.                               *)
TakeToken(p) ==
  /\ pc[p] = "called"
  /\ FirstTake \/ RefillTake
  /\ pc' = [pc EXCEPT ![p] = "returned"]
  /\ grants' = Append(grants, now')
  /\ UNCHANGED wake

(* Mutants: a token is reserved although some are left; the reservation    *)
(* does not move the fill base.                                            *)
ReserveTokenAlways(p) ==
  /\ pc[p] = "called"
  /\ fillBase + FillTime > now
  /\ fillBase + FillTime <= MaxTime
  /\ fillBase' = fillBase + FillTime
  /\ wake' = [wake EXCEPT ![p] = fillBase + FillTime]
  /\ pc' = [pc EXCEPT ![p] = "asleep"]
  /\ grants' = Append(grants, fillBase + FillTime)
  /\ UNCHANGED <<now, tokens>>

ReserveTokenUnrecorded(p) ==
  /\ pc[p] = "called"
  /\ tokens <= 0
  /\ fillBase + FillTime > now
  /\ fillBase + FillTime <= MaxTime
  /\ wake' = [wake EXCEPT ![p] = fillBase + FillTime]
  /\ pc' = [pc EXCEPT ![p] = "asleep"]
  /\ grants' = Append(grants, fillBase + FillTime)
  /\ UNCHANGED <<now, tokens, fillBase>>

(* get_token() that reserves the next token and goes to sleep.             *)
ReserveToken(p) ==
  /\ pc[p] = "called"
  /\ tokens <= 0
  /\ fillBase + FillTime > now
  /\ fillBase + FillTime <= MaxTime
  /\ fillBase' = fillBase + FillTime
  /\ wake' = [wake EXCEPT ![p] = fillBase + FillTime]
  /\ pc' = [pc EXCEPT ![p] = "asleep"]
  /\ grants' = Append(grants, fillBase + FillTime)
  /\ UNCHANGED <<now, tokens>>

(* Mutant: the sleep is cut short and nobody notices.                      *)
WakeUpEarly(p) ==
  /\ pc[p] = "asleep"
  /\ pc' = [pc EXCEPT ![p] = "returned"]
  /\ UNCHANGED <<now, tokens, fillBase, wake, grants>>

(* nanosleep() returns, possibly late, and get_token() with it.            *)
WakeUp(p) ==
  /\ pc[p] = "asleep"
  /\ wake[p] <= now
  /\ pc' = [pc EXCEPT ![p] = "returned"]
  /\ UNCHANGED <<now, tokens, fillBase, wake, grants>>

Tick ==
  /\ now < MaxTime
  /\ now' = now + 1
  /\ UNCHANGED <<tokens, fillBase, pc, wake, grants>>

Next ==
  \/ \E p \in Packets : TakeToken(p) \/ ReserveToken(p) \/ WakeUp(p)
  \/ Tick

Spec == Init /\ [][Next]_vars

-----------------------------------------------------------------------------

Asleep == {p \in Packets : pc[p] = "asleep"}

(* The comment in get_token() says that the branch for a full bucket is    *)
(* only reached by the first packet: once a token was taken, the bucket is *)
(* never seen full again between two calls.                                *)
FullOnlyAtStart == tokens = Size /\ Size > 0 => grants = << >>

(* Reservations and tokens exclude each other: while the fill base lies in *)
(* the future, the bucket is empty, so that a caller can never overtake    *)
(* the sleepers; and no call ever drives a bucket of positive size below 0.*)
NoOvertaking ==
  /\ tokens > 0 => fillBase <= now
  /\ Size > 0 => tokens >= 0
  /\ tokens >= -1

(* The wait a caller can be asked for is bounded by the queue before it:   *)
(* the reserved tokens are never further away than one FillTime for each   *)
(* thread that still sleeps.                                               *)
BoundedWait == fillBase <= now + FillTime * Cardinality(Asleep)

(* The limiter keeps the contract of a token bucket: in no window of time  *)
(* are more packets let through than the bucket holds plus what the window *)
(* refills.  A bucket of size 0 acts as one of size 1.                     *)
Burst == IF Size = 0 THEN 1 ELSE Size

Contract == INSTANCE RateContract

ContractSpec == Contract!Spec

(* No packet is delayed needlessly: get_token() only puts a thread to      *)
(* sleep until g when some window ending at g is filled to the last token, *)
(* so that any earlier time would have broken the contract.                *)
DelayedOnlyWhenDue ==
  [][\A p \in Packets :
       pc[p] = "called" /\ pc'[p] = "asleep" /\ Size > 0 =>
         \E i \in 1..Len(grants) :
           (Len(grants) - i + 2) * FillTime
             = Size * FillTime + (wake'[p] - grants[i])]_vars

-----------------------------------------------------------------------------

(* The inductive strengthening.  Credit is what the bucket is worth at     *)
(* time 0 of the clock, in ticks: it only falls, by FillTime for each      *)
(* token handed out, and a refill does not change it.                      *)
Worth(n) == (IF n < 0 THEN 0 ELSE n) * FillTime

Credit == Worth(tokens) - fillBase

TokenRange ==
  /\ tokens <= Size
  /\ tokens >= -1
  /\ Size > 0 => tokens >= 0

BaseInPast == tokens > 0 => fillBase <= now

StartsFull == grants = << >> => tokens = Size /\ fillBase <= now

GrantsKnown == \A i \in 1..Len(grants) : grants[i] <= now \/ grants[i] <= fillBase

Envelope ==
  \A i \in 1..Len(grants) :
    Credit + (Len(grants) - i + 1) * FillTime + grants[i] <= Burst * FillTime

Saturated ==
  grants # << >> /\ Size > 0 =>
    \E i \in 1..Len(grants) :
      Credit + (Len(grants) - i + 1) * FillTime + grants[i] = Size * FillTime

(* The sleepers whose token is due after time x.                           *)
Pending(x) == {p \in Asleep : wake[p] > x}

Queued ==
  \A x \in Nat : x >= now => fillBase <= x + FillTime * Cardinality(Pending(x))

BucketInv ==
  /\ TokenRange
  /\ BaseInPast
  /\ FullOnlyAtStart
  /\ StartsFull
  /\ GrantsKnown
  /\ Envelope
  /\ Saturated
=============================================================================

---------------------------- MODULE RateContract ----------------------------
(***************************************************************************)
(* What a rate limiter with a bucket of Burst tokens, refilled by one      *)
(* token every FillTime ticks, promises to the network behind it: the      *)
(* times at which packets are let through are in order, and no stretch of  *)
(* them holds more packets than the bucket plus what was refilled          *)
(* meanwhile.  How the limiter keeps its books is not visible here.        *)
(***************************************************************************)
EXTENDS Integers, Sequences

CONSTANTS
  Burst,      \* how many packets may leave at the same instant
  FillTime    \* ticks between two refilled tokens

VARIABLE grants   \* the times at which packets were let through, in order

Init == grants = << >>

(* One more packet, let through at time g, keeps every window that ends    *)
(* with it within Burst packets plus one for each full FillTime.           *)
Conforms(history, g) ==
  \A i \in 1..Len(history) :
    /\ history[i] <= g
    /\ (Len(history) - i + 2) * FillTime <= Burst * FillTime + (g - history[i])

Grant ==
  /\ Len(grants') = Len(grants) + 1
  /\ grants' = Append(grants, grants'[Len(grants')])
  /\ grants'[Len(grants')] \in Nat
  /\ Conforms(grants, grants'[Len(grants')])

Spec == Init /\ [][Grant]_grants
=============================================================================

----------------------------- MODULE PacketRate -----------------------------
(***************************************************************************)
(* The token bucket behind the packet buffer of src/asgn3/nat.c: the ends  *)
(* of Callback(), with get_token() of TokenBucket between them.            *)
(*                                                                         *)
(* A packet takes a place in the buffer, or is dropped because there is    *)
(* none.  It keeps the place while it waits for its token, and gives it    *)
(* back when it is sent on, or when its port is not in the table and it    *)
(* needs no token.  What happens to the table in between is in Nat.        *)
(***************************************************************************)
EXTENDS TokenBucket

CONSTANT MAX_PKT_IN_BUF

ASSUME BufferAssumption == MAX_PKT_IN_BUF \in Nat

VARIABLES
  pktInBuf,   \* pkt_in_buf
  place       \* packets: "outside", "buffer" or "gone"

rateVars == <<vars, pktInBuf, place>>

RateTypeOK ==
  /\ TypeOK
  /\ pktInBuf \in 0..MAX_PKT_IN_BUF
  /\ place \in [Packets -> {"outside", "buffer", "gone"}]

RateInit ==
  /\ Init
  /\ pktInBuf = 0
  /\ place = [p \in Packets |-> "outside"]

(* Mutant: one packet more than the limit.                                 *)
EnterOneMore(p) ==
  /\ place[p] = "outside"
  /\ pktInBuf <= MAX_PKT_IN_BUF
  /\ pktInBuf' = pktInBuf + 1
  /\ place' = [place EXCEPT ![p] = "buffer"]
  /\ UNCHANGED vars

(* add_pkt_buf()                                                           *)
Enter(p) ==
  /\ place[p] = "outside"
  /\ pktInBuf < MAX_PKT_IN_BUF
  /\ pktInBuf' = pktInBuf + 1
  /\ place' = [place EXCEPT ![p] = "buffer"]
  /\ UNCHANGED vars

DropFull(p) ==
  /\ place[p] = "outside"
  /\ pktInBuf >= MAX_PKT_IN_BUF
  /\ place' = [place EXCEPT ![p] = "gone"]
  /\ UNCHANGED <<vars, pktInBuf>>

(* Mutant: the place is not given back.                                    *)
RmPktBufNot(p) ==
  /\ place[p] = "buffer"
  /\ place' = [place EXCEPT ![p] = "gone"]
  /\ UNCHANGED <<vars, pktInBuf>>

(* rm_pkt_buf()                                                            *)
RmPktBuf(p) ==
  /\ place[p] = "buffer"
  /\ pktInBuf' = pktInBuf - 1
  /\ place' = [place EXCEPT ![p] = "gone"]
  /\ UNCHANGED vars

DropUnknown(p) == pc[p] = "called" /\ RmPktBuf(p)

Accept(p) == pc[p] = "returned" /\ RmPktBuf(p)

GetToken(p) ==
  /\ place[p] = "buffer"
  /\ TakeToken(p) \/ ReserveToken(p) \/ WakeUp(p)
  /\ UNCHANGED <<pktInBuf, place>>

RateNext ==
  \/ \E p \in Packets :
       Enter(p) \/ DropFull(p) \/ DropUnknown(p) \/ Accept(p) \/ GetToken(p)
  \/ Tick /\ UNCHANGED <<pktInBuf, place>>

RateSpec == RateInit /\ [][RateNext]_rateVars

-----------------------------------------------------------------------------

(* The buffer and the bucket: threads that sleep keep their places, so     *)
(* that the limit of the buffer is a limit of the delay.  No packet is put *)
(* to sleep for longer than the tokens of a full buffer take.              *)
DelayBounded == \A p \in Asleep : wake[p] <= now + MAX_PKT_IN_BUF * FillTime

(* Packets are dropped only while the buffer is full, and a full buffer is *)
(* never stuck: one of the packets in it does not sleep, or will not when  *)
(* the next token is due.                                                  *)
RoomSoon ==
  pktInBuf = MAX_PKT_IN_BUF /\ MAX_PKT_IN_BUF > 0 =>
    \E p \in Packets :
      place[p] = "buffer" /\ (pc[p] = "asleep" => wake[p] <= now + FillTime)
=============================================================================

--------------------------------- MODULE Ids ---------------------------------
(***************************************************************************)
(* The intrusion detector of src/easg2/myids.c, which reads the IPv4       *)
(* packets of a pcap file and prints heavy hitters, heavy changers and     *)
(* superspreaders.                                                         *)
(*                                                                         *)
(* Time is cut into epochs.  Two hash tables hold what each source sent in *)
(* an epoch: the table of epoch e is tables[e % 2], and it is cleared when *)
(* a packet of a later epoch arrives.  An epoch is closed by the first     *)
(* packet of a later one, which need not be of the next one.               *)
(*                                                                         *)
(* A packet is one step: the body of the loop of main().                   *)
(***************************************************************************)
EXTENDS Integers, Sequences, FiniteSets

CONSTANTS
  Hosts,      \* source addresses
  Zero,       \* 0.0.0.0, the address in the anchor of the list sser
  Dests,      \* destination addresses
  Slot,       \* the slot of the hash table a source belongs to
  Sizes,      \* payload sizes
  HHThresh, HCThresh, SSThresh,
  MaxEpoch,   \* bound: the last epoch of the capture
  MaxPackets  \* bound: packets in the capture

Slots == {Slot[h] : h \in Hosts}

ASSUME SlotAssumption == Slot = [h \in Hosts |-> Slot[h]]
ASSUME SizeAssumption == Sizes \subseteq Nat
ASSUME ThresholdAssumption == HHThresh \in Nat /\ HCThresh \in Nat /\ SSThresh \in Nat
ASSUME EpochAssumption == MaxEpoch \in Nat /\ MaxPackets \in Nat

VARIABLES
  packets,    \* no_ipv4_pkts
  epoch,      \* current_epoch
  tables,     \* tables[0] and tables[1]: a list of elements for each slot
  sser,       \* the addresses in the list sser, but for its anchor
  crashed,    \* freeintrtb() followed a null pointer
  traffic,    \* history: what each source sent in each epoch
  reports     \* history: the lines printed, as <<kind, source, epoch>>

vars == <<packets, epoch, tables, sser, crashed, traffic, reports>>

Element ==
  [ip_addr : Hosts, bytes : Nat, hh : BOOLEAN, des_ip : SUBSET Dests]

Sent == [bytes : Nat, des_ip : SUBSET Dests, packets : Nat]

TypeOK ==
  /\ packets \in 0..MaxPackets
  /\ epoch \in 0..MaxEpoch
  /\ tables \in [0..1 -> [Slots -> Seq(Element)]]
  /\ sser \subseteq Hosts
  /\ crashed \in BOOLEAN
  /\ traffic \in [0..MaxEpoch -> [Hosts -> Sent]]
  /\ reports \subseteq {"HH", "HC", "SS"} \X Hosts \X (0..MaxEpoch)

Empty == [s \in Slots |-> << >>]

Init ==
  /\ packets = 0
  /\ epoch = 0
  /\ tables = [k \in 0..1 |-> Empty]
  /\ sser = {}
  /\ crashed = FALSE
  /\ traffic = [e \in 0..MaxEpoch |->
                  [h \in Hosts |-> [bytes |-> 0, des_ip |-> {}, packets |-> 0]]]
  /\ reports = {}

-----------------------------------------------------------------------------

(* The elements of a table, and query(): those of one source.              *)
Elements(table) == UNION {{table[s][i] : i \in 1..Len(table[s])} : s \in Slots}

Query(table, host) == {e \in Elements(table) : e.ip_addr = host}

Apart(x, y) == IF x < y THEN y - x ELSE x - y

(* Mutant: a source that was silent before counts as one that sent nothing.*)
HeavyChangersFromNothing(old, new) ==
  {t.ip_addr : t \in {u \in Elements(new) :
     \A p \in Query(old, u.ip_addr) : Apart(u.bytes, p.bytes) >= HCThresh}}

(* check_HC(): the sources in both tables that changed by the threshold.   *)
HeavyChangers(old, new) ==
  {t.ip_addr : t \in {u \in Elements(new) :
     \E p \in Query(old, u.ip_addr) : Apart(u.bytes, p.bytes) >= HCThresh}}

(* A packet of a later epoch closes the current one.                       *)
Closes(e) == e > epoch

Changed ==
  IF epoch > 0
    THEN HeavyChangers(tables[(epoch - 1) % 2], tables[epoch % 2])
    ELSE {}

(* Mutant: a table is only cleared for the next epoch, not after a gap.    *)
OpenedNoGap(e) ==
  IF e = epoch + 1 THEN [tables EXCEPT ![e % 2] = Empty] ELSE tables

(* The tables and the epoch the packet is counted in; a late packet counts *)
(* for the current epoch.                                                  *)
Opened(e) ==
  IF Closes(e) THEN [tables EXCEPT ![e % 2] = Empty] ELSE tables

EpochOf(e) == IF Closes(e) THEN e ELSE epoch

(* Mutant: the size of the packet is subtracted.                           *)
CountedDown(t, dest, size) ==
  [t EXCEPT !.bytes = t.bytes - size, !.des_ip = t.des_ip \cup {dest}]

Counted(t, dest, size) ==
  [t EXCEPT !.bytes = t.bytes + size, !.des_ip = t.des_ip \cup {dest}]

Fresh(host) == [ip_addr |-> host, bytes |-> 0, hh |-> FALSE, des_ip |-> {}]

(* Mutant: the threshold itself makes a heavy hitter.                      *)
FlaggedAtThreshold(t) == [t EXCEPT !.hh = t.bytes >= HHThresh]

(* report_status[0], set when the heavy hitter is printed.                 *)
Flagged(t) == [t EXCEPT !.hh = t.hh \/ t.bytes > HHThresh]

(* update(): the element of the source, at the end of its slot if new.     *)
Update(bucket, host, dest, size) ==
  IF \E i \in 1..Len(bucket) : bucket[i].ip_addr = host
    THEN [i \in 1..Len(bucket) |->
            IF bucket[i].ip_addr = host THEN Flagged(Counted(bucket[i], dest, size))
                                        ELSE bucket[i]]
    ELSE Append(bucket, Flagged(Counted(Fresh(host), dest, size)))

(* count_dstip(): 0 for a source it saw before in this epoch, or else the  *)
(* number of destinations of the first element of the slot.                *)
CountDstip(seen, bucket, host) ==
  IF host \in seen \cup {Zero} THEN 0 ELSE Cardinality(bucket[1].des_ip)

Lines(kind, hosts, e) == {<<kind, h, e>> : h \in hosts}

Closing(e) == IF Closes(e) THEN Lines("HC", Changed, epoch) ELSE {}

(* One IPv4 packet from host to dest, stamped in epoch e.                  *)
Packet(host, dest, size, e) ==
  /\ ~crashed
  /\ packets < MaxPackets
  /\ packets' = packets + 1
  /\ Closes(e) => sser # {}
  /\ LET now == EpochOf(e)
         old == Opened(e)
         bucket == Update(old[now % 2][Slot[host]], host, dest, size)
         known == Query(old[now % 2], host)
         mine == CHOOSE t \in {bucket[i] : i \in 1..Len(bucket)} : t.ip_addr = host
         seen == IF Closes(e) THEN {} ELSE sser
         hitter == mine.hh /\ \A t \in known : ~t.hh
         spreader == CountDstip(seen, bucket, host) > SSThresh
     IN  /\ epoch' = now
         /\ tables' = [old EXCEPT ![now % 2][Slot[host]] = bucket]
         /\ sser' = (seen \cup {host}) \ {Zero}
         /\ reports' = reports \cup Closing(e)
              \cup (IF hitter THEN Lines("HH", {host}, now) ELSE {})
              \cup (IF spreader THEN Lines("SS", {host}, now) ELSE {})
         /\ traffic' = [traffic EXCEPT ![now][host] =
              [bytes |-> @.bytes + size, des_ip |-> @.des_ip \cup {dest},
               packets |-> @.packets + 1]]
  /\ UNCHANGED crashed

(* freeintrtb() of an empty list: only 0.0.0.0 sent in the epoch.          *)
Crash(e) ==
  /\ ~crashed
  /\ packets < MaxPackets
  /\ packets' = packets + 1
  /\ Closes(e)
  /\ sser = {}
  /\ crashed' = TRUE
  /\ reports' = reports \cup Closing(e)
  /\ UNCHANGED <<epoch, tables, sser, traffic>>

Next ==
  \E e \in 0..MaxEpoch :
    \/ \E host \in Hosts, dest \in Dests, size \in Sizes : Packet(host, dest, size, e)
    \/ Crash(e)

Spec == Init /\ [][Next]_vars

-----------------------------------------------------------------------------

(* The table of the current epoch, reused from two epochs ago, holds what  *)
(* was sent in this epoch and nothing else: clear_table() and the parity   *)
(* of the epochs leave no trace of an earlier epoch, even after a gap.     *)
CurrentTable ==
  LET table == tables[epoch % 2] IN
  /\ \A h \in Hosts :
       {[bytes |-> t.bytes, des_ip |-> t.des_ip] : t \in Query(table, h)}
         = IF traffic[epoch][h].packets = 0 THEN {}
           ELSE {[bytes |-> traffic[epoch][h].bytes, des_ip |-> traffic[epoch][h].des_ip]}
  /\ \A s \in Slots : \A i, j \in 1..Len(table[s]) :
       table[s][i].ip_addr = table[s][j].ip_addr => i = j

(* The heavy hitters printed are those that sent more than the threshold   *)
(* in one epoch, no matter in which epoch before they did.                 *)
HeavyHittersExact ==
  {r \in reports : r[1] = "HH"}
    = {<<"HH", p[1], p[2]>> :
         p \in {q \in Hosts \X (0..epoch) : traffic[q[2]][q[1]].bytes > HHThresh}}

Active(e) == \E h \in Hosts : traffic[e][h].packets > 0

(* "host exist in t and t_prev, check | t - t_prev | > threshold": for two *)
(* epochs in a row with traffic, the heavy changers printed at the end of  *)
(* the second are exact.                                                   *)
HeavyChangersExact ==
  \A e \in 1..(epoch - 1), h \in Hosts :
    Active(e - 1) /\ Active(e) =>
      (<<"HC", h, e>> \in reports <=>
         /\ traffic[e - 1][h].packets > 0
         /\ traffic[e][h].packets > 0
         /\ Apart(traffic[e - 1][h].bytes, traffic[e][h].bytes) >= HCThresh)

(* "check if detected as intrusion": once a source reached more than the   *)
(* threshold of destinations in an epoch, it was printed as superspreader. *)
SpreadersFound ==
  \A e \in 0..epoch, h \in Hosts \ {Zero} :
    Cardinality(traffic[e][h].des_ip) > SSThresh => <<"SS", h, e>> \in reports
=============================================================================

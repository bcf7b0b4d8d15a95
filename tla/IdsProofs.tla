------------------------------ MODULE IdsProofs ------------------------------
(***************************************************************************)
(* Theorems about Ids, for any hosts, slots, thresholds and captures.      *)
(***************************************************************************)
EXTENDS Ids, TLAPS, SequenceTheorems

USE SizeAssumption, ThresholdAssumption, EpochAssumption

-----------------------------------------------------------------------------
(* What a hash table holds.                                                *)

(* The element of a source that sent what `sent` says, in slot s.          *)
Entry(t, s, sent) ==
  /\ Slot[t.ip_addr] = s
  /\ sent[t.ip_addr].packets > 0
  /\ t.bytes = sent[t.ip_addr].bytes
  /\ t.des_ip = sent[t.ip_addr].des_ip
  /\ t.hh <=> t.bytes > HHThresh

Bucket(b, s, sent) ==
  /\ \A j \in 1..Len(b) : Entry(b[j], s, sent)
  /\ \A j, k \in 1..Len(b) : b[j].ip_addr = b[k].ip_addr => j = k
  /\ \A h \in Hosts : Slot[h] = s /\ sent[h].packets > 0 =>
       \E j \in 1..Len(b) : b[j].ip_addr = h

(* The table is the account of what was sent, each source once.            *)
Book(table, sent) == \A s \in Slots : Bucket(table[s], s, sent)

Tables == [Slots -> Seq(Element)]
Silent == [h \in Hosts |-> [bytes |-> 0, des_ip |-> {}, packets |-> 0]]

(* A source without packets sent nothing.                                  *)
Honest(sent) ==
  \A h \in Hosts : sent[h].packets = 0 => sent[h].bytes = 0 /\ sent[h].des_ip = {}

(* The account after one more packet.                                      *)
More(sent, host, dest, size) ==
  [sent EXCEPT ![host] = [bytes |-> @.bytes + size, des_ip |-> @.des_ip \cup {dest},
                          packets |-> @.packets + 1]]

LEMMA FlaggedCounted ==
  ASSUME NEW t \in Element, NEW dest \in Dests, NEW size \in Sizes
  PROVE  LET u == Flagged(Counted(t, dest, size)) IN
         /\ u \in Element
         /\ u.ip_addr = t.ip_addr
         /\ u.bytes = t.bytes + size
         /\ u.des_ip = t.des_ip \cup {dest}
         /\ u.hh <=> t.hh \/ t.bytes + size > HHThresh
<1> DEFINE v == Counted(t, dest, size)
<1>1. /\ v \in Element /\ v.ip_addr = t.ip_addr /\ v.bytes = t.bytes + size
      /\ v.des_ip = t.des_ip \cup {dest} /\ v.hh = t.hh
  <2>1. t.bytes + size \in Nat /\ t.des_ip \cup {dest} \in SUBSET Dests
    BY DEF Element
  <2>2. v \in Element
    BY <2>1 DEF Counted, Element
  <2>3. v.ip_addr = t.ip_addr /\ v.bytes = t.bytes + size /\ v.des_ip = t.des_ip \cup {dest}
    BY DEF Counted, Element
  <2>4. v.hh = t.hh
    BY Zenon DEF Counted, Element
  <2> QED
    BY <2>2, <2>3, <2>4
<1> HIDE DEF v
<1> DEFINE u == Flagged(v)
<1>2. /\ u.ip_addr = v.ip_addr /\ u.bytes = v.bytes /\ u.des_ip = v.des_ip
      /\ u.hh = (v.hh \/ v.bytes > HHThresh) /\ u \in Element
  BY <1>1 DEF Flagged, Element
<1> HIDE DEF u
<1>3. u = Flagged(Counted(t, dest, size))
  BY DEF u, v
<1>4. /\ u \in Element /\ u.ip_addr = t.ip_addr /\ u.bytes = t.bytes + size
      /\ u.des_ip = t.des_ip \cup {dest}
  BY <1>1, <1>2
<1>5. u.hh <=> t.hh \/ t.bytes + size > HHThresh
  BY <1>1, <1>2
<1> QED
  BY <1>3, <1>4, <1>5

LEMMA MoreTypes ==
  ASSUME NEW sent \in [Hosts -> Sent], NEW host \in Hosts, NEW dest \in Dests,
         NEW size \in Sizes, Honest(sent)
  PROVE  /\ More(sent, host, dest, size) \in [Hosts -> Sent]
         /\ Honest(More(sent, host, dest, size))
         /\ More(sent, host, dest, size)[host].packets > 0
         /\ More(sent, host, dest, size)[host].bytes = sent[host].bytes + size
         /\ More(sent, host, dest, size)[host].des_ip = sent[host].des_ip \cup {dest}
         /\ \A h \in Hosts : h # host => More(sent, host, dest, size)[h] = sent[h]
  BY DEF More, Sent, Honest

(* update() keeps the account.                                             *)
LEMMA UpdateKnown ==
  ASSUME NEW b \in Seq(Element), NEW sent \in [Hosts -> Sent], NEW host \in Hosts,
         NEW dest \in Dests, NEW size \in Sizes, Honest(sent),
         Bucket(b, Slot[host], sent),
         NEW k \in 1..Len(b), b[k].ip_addr = host
  PROVE  LET c == Update(b, host, dest, size) IN
         /\ c \in Seq(Element)
         /\ Bucket(c, Slot[host], More(sent, host, dest, size))
         /\ Len(c) = Len(b) /\ c[k].ip_addr = host
<1> DEFINE next == More(sent, host, dest, size)
           u == Flagged(Counted(b[k], dest, size))
           c == [b EXCEPT ![k] = u]
<1>1. Len(b) \in Nat /\ b \in [1..Len(b) -> Element] /\ b[k] \in Element
  BY LenProperties
<1>2. /\ u \in Element /\ u.ip_addr = host /\ u.bytes = b[k].bytes + size
      /\ u.des_ip = b[k].des_ip \cup {dest}
      /\ u.hh <=> b[k].hh \/ b[k].bytes + size > HHThresh
  BY <1>1, FlaggedCounted
<1>3. Update(b, host, dest, size) = c
  <2>1. \A i \in 1..Len(b) : b[i].ip_addr = host => i = k
    BY DEF Bucket
  <2> HIDE DEF u
  <2>2. c = [i \in 1..Len(b) |-> IF b[i].ip_addr = host THEN u ELSE b[i]]
    BY <1>1, <2>1
  <2>3. [i \in 1..Len(b) |-> IF b[i].ip_addr = host THEN u ELSE b[i]]
          = [i \in 1..Len(b) |->
              IF b[i].ip_addr = host THEN Flagged(Counted(b[i], dest, size)) ELSE b[i]]
    BY <2>1 DEF u
  <2> HIDE DEF c
  <2> QED
    BY <2>2, <2>3 DEF Update
<1> HIDE DEF u
<1>4. /\ c \in Seq(Element) /\ Len(c) = Len(b)
      /\ \A j \in 1..Len(b) : c[j] = IF j = k THEN u ELSE b[j]
  BY <1>2, ExceptSeq
<1> HIDE DEF c
<1>5. /\ next[host].packets > 0
      /\ next[host].bytes = sent[host].bytes + size
      /\ next[host].des_ip = sent[host].des_ip \cup {dest}
      /\ \A h \in Hosts : h # host => next[h] = sent[h]
  BY MoreTypes
<1> HIDE DEF next
<1>6. Bucket(c, Slot[host], next)
  <2>1. ASSUME NEW j \in 1..Len(c) PROVE Entry(c[j], Slot[host], next)
    <3>1. CASE j = k
      <4>1. Entry(b[k], Slot[host], sent)
        BY DEF Bucket
      <4>2. size \in Nat /\ b[k].bytes \in Nat /\ c[j] = u
        BY <1>1, <1>4, <3>1 DEF Element
      <4>3. /\ b[k].bytes = sent[host].bytes /\ b[k].des_ip = sent[host].des_ip
            /\ b[k].hh <=> b[k].bytes > HHThresh
        BY <4>1, Zenon DEF Entry
      <4>4. u.hh <=> u.bytes > HHThresh
        BY <1>2, <4>2, <4>3
      <4> QED
        BY <1>2, <1>5, <4>2, <4>3, <4>4 DEF Entry
    <3>2. CASE j # k
      <4>1. c[j] = b[j] /\ Entry(b[j], Slot[host], sent) /\ b[j] \in Element
        BY <1>1, <1>4, <3>2 DEF Bucket
      <4>2. b[j].ip_addr # host /\ b[j].ip_addr \in Hosts
        BY <1>4, <3>2, <4>1 DEF Bucket, Element
      <4> QED
        BY <1>5, <4>1, <4>2 DEF Entry
    <3> QED
      BY <3>1, <3>2
  <2>2. \A j \in 1..Len(b) : c[j].ip_addr = b[j].ip_addr
    BY <1>2, <1>4
  <2>3. \A h \in Hosts : Slot[h] = Slot[host] /\ next[h].packets > 0 =>
          \E j \in 1..Len(c) : c[j].ip_addr = h
    BY <1>4, <1>5, <2>2 DEF Bucket
  <2> QED
    BY <1>4, <2>1, <2>2, <2>3 DEF Bucket
<1> QED
  BY <1>2, <1>3, <1>4, <1>6 DEF next

LEMMA UpdateNew ==
  ASSUME NEW b \in Seq(Element), NEW sent \in [Hosts -> Sent], NEW host \in Hosts,
         NEW dest \in Dests, NEW size \in Sizes, Honest(sent),
         Bucket(b, Slot[host], sent),
         \A j \in 1..Len(b) : b[j].ip_addr # host
  PROVE  LET c == Update(b, host, dest, size) IN
         /\ c \in Seq(Element)
         /\ Bucket(c, Slot[host], More(sent, host, dest, size))
         /\ Len(c) = Len(b) + 1 /\ c[Len(b) + 1].ip_addr = host
<1> DEFINE next == More(sent, host, dest, size)
           u == Flagged(Counted(Fresh(host), dest, size))
           c == Append(b, u)
<1>1. Len(b) \in Nat /\ \A j \in 1..Len(b) : b[j] \in Element
  BY LenProperties
<1>2. Fresh(host) \in Element /\ Fresh(host).ip_addr = host /\ Fresh(host).bytes = 0
      /\ Fresh(host).des_ip = {} /\ ~Fresh(host).hh
  BY DEF Fresh, Element
<1>3. /\ u \in Element /\ u.ip_addr = host /\ u.bytes = 0 + size /\ u.des_ip = {dest}
      /\ u.hh <=> 0 + size > HHThresh
  BY <1>2, FlaggedCounted
<1>4. Update(b, host, dest, size) = c
  BY DEF Update
<1> HIDE DEF u
<1>5. /\ c \in Seq(Element) /\ Len(c) = Len(b) + 1
      /\ \A j \in 1..Len(b) : c[j] = b[j]
      /\ c[Len(b) + 1] = u
  BY <1>1, <1>3, AppendProperties
<1> HIDE DEF c
<1>6. /\ next[host].packets > 0
      /\ next[host].bytes = sent[host].bytes + size
      /\ next[host].des_ip = sent[host].des_ip \cup {dest}
      /\ \A h \in Hosts : h # host => next[h] = sent[h]
  <2>1. next[host].packets > 0
    BY MoreTypes
  <2>2. next[host].bytes = sent[host].bytes + size
    BY MoreTypes
  <2>3. next[host].des_ip = sent[host].des_ip \cup {dest}
    BY MoreTypes
  <2>4. \A h \in Hosts : h # host => next[h] = sent[h]
    BY MoreTypes
  <2> QED
    BY <2>1, <2>2, <2>3, <2>4
<1> HIDE DEF next
<1>7. sent[host].bytes = 0 /\ sent[host].des_ip = {}
  <2>1. ~(sent[host].packets > 0)
    BY DEF Bucket
  <2>2. sent[host].packets \in Nat
    BY DEF Sent
  <2> QED
    BY <2>1, <2>2 DEF Honest
<1>8. Bucket(c, Slot[host], next)
  <2>1. ASSUME NEW j \in 1..Len(c) PROVE Entry(c[j], Slot[host], next)
    <3>1. CASE j = Len(b) + 1
      <4>1. c[j] = u /\ next[host].bytes = u.bytes /\ next[host].des_ip = u.des_ip
        BY <1>3, <1>5, <1>6, <1>7, <3>1
      <4> QED
        BY <1>3, <1>6, <4>1 DEF Entry
    <3>2. CASE j # Len(b) + 1
      <4>1. j \in 1..Len(b)
        BY <1>1, <1>5, <3>2
      <4>2. c[j] = b[j] /\ Entry(b[j], Slot[host], sent) /\ b[j].ip_addr \in Hosts \ {host}
        BY <1>1, <1>5, <4>1 DEF Bucket, Element
      <4> QED
        BY <1>6, <4>2 DEF Entry
    <3> QED
      BY <3>1, <3>2
  <2>2. \A j, k \in 1..Len(c) : c[j].ip_addr = c[k].ip_addr => j = k
    BY <1>1, <1>3, <1>5 DEF Bucket
  <2>3. \A h \in Hosts : Slot[h] = Slot[host] /\ next[h].packets > 0 =>
          \E j \in 1..Len(c) : c[j].ip_addr = h
    BY <1>1, <1>3, <1>5, <1>6 DEF Bucket
  <2> QED
    BY <2>1, <2>2, <2>3 DEF Bucket
<1> QED
  BY <1>3, <1>4, <1>5, <1>8 DEF next

LEMMA SlotOfHost == \A h \in Hosts : Slot[h] \in Slots
  BY DEF Slots

(* A packet in its slot: the account of the whole table.                   *)
LEMMA UpdateBook ==
  ASSUME NEW table \in Tables, NEW sent \in [Hosts -> Sent], NEW host \in Hosts,
         NEW dest \in Dests, NEW size \in Sizes, Honest(sent), Book(table, sent)
  PROVE  LET b == Update(table[Slot[host]], host, dest, size)
             next == [table EXCEPT ![Slot[host]] = b]
         IN  /\ b \in Seq(Element) /\ next \in Tables
             /\ Book(next, More(sent, host, dest, size))
             /\ \E k \in 1..Len(b) : b[k].ip_addr = host
<1> DEFINE old == table[Slot[host]]
           b == Update(old, host, dest, size)
           next == [table EXCEPT ![Slot[host]] = b]
           more == More(sent, host, dest, size)
<1>1. Slot[host] \in Slots /\ old \in Seq(Element) /\ Bucket(old, Slot[host], sent)
  BY SlotOfHost DEF Tables, Book
<1> HIDE DEF old
<1>2. /\ b \in Seq(Element) /\ Bucket(b, Slot[host], more)
      /\ \E k \in 1..Len(b) : b[k].ip_addr = host
  <2>1. CASE \E k \in 1..Len(old) : old[k].ip_addr = host
    <3>1. PICK k \in 1..Len(old) : old[k].ip_addr = host
      BY <2>1
    <3> QED
      BY <1>1, <3>1, UpdateKnown, SMTT(30)
  <2>2. CASE \A k \in 1..Len(old) : old[k].ip_addr # host
    <3>1. /\ b \in Seq(Element) /\ Bucket(b, Slot[host], more)
          /\ Len(b) = Len(old) + 1 /\ b[Len(old) + 1].ip_addr = host
      BY <1>1, <2>2, UpdateNew
    <3>2. Len(old) + 1 \in 1..Len(b)
      BY <1>1, <3>1, LenProperties
    <3> QED
      BY <3>1, <3>2
  <2> QED
    BY <2>1, <2>2
<1>3. \A h \in Hosts : h # host => more[h] = sent[h]
  BY MoreTypes
<1> HIDE DEF b, more
<1>4. next \in Tables
  BY <1>2 DEF Tables
<1>5. ASSUME NEW s \in Slots PROVE Bucket(next[s], s, more)
  <2>1. CASE s = Slot[host]
    BY <1>2, <2>1 DEF Tables
  <2>2. CASE s # Slot[host]
    <3>1. next[s] = table[s] /\ Bucket(table[s], s, sent) /\ table[s] \in Seq(Element)
      BY <2>2 DEF Tables, Book
    <3>2. ASSUME NEW j \in 1..Len(table[s]) PROVE table[s][j].ip_addr \in Hosts
      <4>1. table[s][j] \in Element
        BY <3>1, ElementOfSeq
      <4> QED
        BY <4>1 DEF Element
    <3>3. \A h \in Hosts : Slot[h] = s => more[h] = sent[h]
      BY <1>3, <2>2
    <3> QED
      BY <3>1, <3>2, <3>3 DEF Bucket, Entry
  <2> QED
    BY <2>1, <2>2
<1>6. Book(next, more)
  BY <1>5 DEF Book
<1> QED
  BY <1>2, <1>4, <1>6 DEF b, more, old

(* query() finds the element of a source that sent, and nothing else.      *)
LEMMA QueryBook ==
  ASSUME NEW table \in Tables, NEW sent \in [Hosts -> Sent], NEW h \in Hosts,
         Book(table, sent)
  PROVE  /\ \A t \in Query(table, h) :
              t \in Element /\ t.ip_addr = h /\ Entry(t, Slot[h], sent)
         /\ sent[h].packets > 0 => Query(table, h) # {}
<1>1. ASSUME NEW t \in Query(table, h)
      PROVE  t \in Element /\ t.ip_addr = h /\ Entry(t, Slot[h], sent)
  <2>1. PICK s \in Slots : \E i \in 1..Len(table[s]) : t = table[s][i]
    BY DEF Query, Elements
  <2>2. t.ip_addr = h
    BY DEF Query
  <2>3. t \in Element /\ Entry(t, s, sent)
    BY <2>1, ElementOfSeq DEF Tables, Book, Bucket
  <2> QED
    BY <2>2, <2>3 DEF Entry
<1>2. ASSUME sent[h].packets > 0 PROVE Query(table, h) # {}
  <2>1. PICK j \in 1..Len(table[Slot[h]]) : table[Slot[h]][j].ip_addr = h
    BY <1>2, SlotOfHost DEF Book, Bucket
  <2>2. table[Slot[h]][j] \in Elements(table)
    BY SlotOfHost DEF Elements
  <2> QED
    BY <2>1, <2>2 DEF Query
<1> QED
  BY <1>1, <1>2

(* check_HC() compares two accounts: a line for each source in both that   *)
(* changed by the threshold.                                               *)
LEMMA ChangersBook ==
  ASSUME NEW old \in Tables, NEW new \in Tables,
         NEW before \in [Hosts -> Sent], NEW now \in [Hosts -> Sent],
         Book(old, before), Book(new, now), NEW h \in Hosts
  PROVE  h \in HeavyChangers(old, new) <=>
           /\ before[h].packets > 0 /\ now[h].packets > 0
           /\ Apart(before[h].bytes, now[h].bytes) >= HCThresh
<1>1. /\ \A t \in Query(old, h) : t.bytes = before[h].bytes /\ before[h].packets > 0
      /\ before[h].packets > 0 => Query(old, h) # {}
  BY QueryBook DEF Entry
<1>2. /\ \A t \in Query(new, h) : t.bytes = now[h].bytes /\ now[h].packets > 0
      /\ now[h].packets > 0 => Query(new, h) # {}
  BY QueryBook DEF Entry
<1>3. before[h].bytes \in Nat /\ now[h].bytes \in Nat
  BY DEF Sent
<1>4. Apart(before[h].bytes, now[h].bytes) = Apart(now[h].bytes, before[h].bytes)
  BY <1>3 DEF Apart
<1>5. h \in HeavyChangers(old, new) <=>
        \E u \in Query(new, h), p \in Query(old, h) : Apart(u.bytes, p.bytes) >= HCThresh
  <2>1. ASSUME h \in HeavyChangers(old, new)
        PROVE  \E u \in Query(new, h), p \in Query(old, h) : Apart(u.bytes, p.bytes) >= HCThresh
    BY <2>1 DEF HeavyChangers, Query
  <2>2. ASSUME NEW u \in Query(new, h), NEW p \in Query(old, h),
               Apart(u.bytes, p.bytes) >= HCThresh
        PROVE  h \in HeavyChangers(old, new)
    BY <2>2 DEF HeavyChangers, Query
  <2> QED
    BY <2>1, <2>2
<1> HIDE DEF Apart
<1> QED
  BY <1>1, <1>2, <1>4, <1>5

-----------------------------------------------------------------------------
(* The two tables over time.                                               *)

(* Each table is the account of its epoch; nothing is sent in the future.  *)
Accounts ==
  /\ \A e \in 0..MaxEpoch : Honest(traffic[e])
  /\ \A e \in (epoch + 1)..MaxEpoch : traffic[e] = Silent
  /\ Book(tables[epoch % 2], traffic[epoch])
  /\ epoch > 0 /\ Active(epoch - 1) =>
       Book(tables[(epoch - 1) % 2], traffic[epoch - 1])

LEMMA Parity ==
  ASSUME NEW n \in Nat
  PROVE  /\ n % 2 \in 0..1
         /\ n > 0 => (n - 1) % 2 \in 0..1 /\ (n - 1) % 2 # n % 2
  OBVIOUS

LEMMA EmptyBook == Empty \in Tables /\ Book(Empty, Silent)
<1>1. << >> \in Seq(Element) /\ Len(<< >>) = 0
  BY EmptySeq
<1>2. Empty \in Tables
  BY <1>1 DEF Empty, Tables
<1>3. \A h \in Hosts : ~(Silent[h].packets > 0)
  BY DEF Silent
<1>4. ASSUME NEW s \in Slots PROVE Bucket(Empty[s], s, Silent)
  <2>1. Empty[s] = << >>
    BY DEF Empty
  <2> QED
    BY <1>1, <1>3, <2>1 DEF Bucket
<1> QED
  BY <1>2, <1>4 DEF Book

LEMMA SilentInactive ==
  ASSUME NEW e \in 0..MaxEpoch, traffic[e] = Silent
  PROVE  ~Active(e)
  BY DEF Active, Silent

(* The tables in which a packet is counted, after a gap or none.           *)
LEMMA OpenedAccounts ==
  ASSUME TypeOK, Accounts, NEW e \in 0..MaxEpoch
  PROVE  LET now == EpochOf(e)
             old == Opened(e)
         IN  /\ now \in 0..MaxEpoch /\ now >= epoch
             /\ old \in [0..1 -> Tables]
             /\ Book(old[now % 2], traffic[now])
             /\ now > 0 /\ Active(now - 1) => Book(old[(now - 1) % 2], traffic[now - 1])
<1>1. epoch \in 0..MaxEpoch /\ tables \in [0..1 -> Tables]
  BY DEF TypeOK, Tables
<1>2. CASE ~Closes(e)
  BY <1>1, <1>2 DEF EpochOf, Opened, Accounts
<1>3. CASE Closes(e)
  <2>1. EpochOf(e) = e /\ Opened(e) = [tables EXCEPT ![e % 2] = Empty] /\ e > epoch
    BY <1>3 DEF EpochOf, Opened, Closes
  <2>2. traffic[e] = Silent
    BY <1>1, <2>1 DEF Accounts
  <2>3. e % 2 \in 0..1 /\ Opened(e) \in [0..1 -> Tables] /\ Opened(e)[e % 2] = Empty
    BY <1>1, <2>1, EmptyBook, Parity
  <2>4. ASSUME e > 0, Active(e - 1) PROVE Book(Opened(e)[(e - 1) % 2], traffic[e - 1])
    <3>1. e - 1 = epoch
      BY <1>1, <2>1, <2>4, SilentInactive DEF Accounts
    <3>2. epoch % 2 \in 0..1 /\ epoch % 2 # e % 2
      BY <1>1, <3>1, Parity
    <3>3. Opened(e)[epoch % 2] = tables[epoch % 2]
      BY <1>1, <2>1, <3>2
    <3> QED
      BY <3>1, <3>3 DEF Accounts
  <2> QED
    BY <1>1, <2>1, <2>2, <2>3, <2>4, EmptyBook
<1> QED
  BY <1>2, <1>3

LEMMA ChangedHosts ==
  ASSUME TypeOK
  PROVE  Changed \subseteq Hosts
<1>1. \A tb \in Tables : \A t \in Elements(tb) : t.ip_addr \in Hosts
  <2>1. ASSUME NEW tb \in Tables, NEW s \in Slots, NEW j \in 1..Len(tb[s])
        PROVE  tb[s][j].ip_addr \in Hosts
    <3>1. tb[s] \in Seq(Element)
      BY DEF Tables
    <3>2. tb[s][j] \in Element
      BY <3>1, ElementOfSeq
    <3> QED
      BY <3>2 DEF Element
  <2> QED
    BY <2>1 DEF Elements
<1>2. tables[epoch % 2] \in Tables
  BY Parity DEF TypeOK, Tables
<1> QED
  BY <1>1, <1>2 DEF Changed, HeavyChangers

(* What a packet writes, and the lines it prints.                          *)
LEMMA PacketWrites ==
  ASSUME TypeOK, Accounts, NEW e \in 0..MaxEpoch, NEW host \in Hosts, NEW dest \in Dests,
         NEW size \in Sizes, Packet(host, dest, size, e)
  PROVE  LET now == EpochOf(e)
             old == Opened(e)
             more == More(traffic[now], host, dest, size)
         IN  /\ epoch' = now
             /\ traffic' = [traffic EXCEPT ![now] = more]
             /\ \E table \in Tables : /\ tables' = [old EXCEPT ![now % 2] = table]
                                      /\ Book(table, more)
             /\ \A h \in Hosts, x \in 0..MaxEpoch :
                  /\ <<"HH", h, x>> \in reports' <=>
                       \/ <<"HH", h, x>> \in reports
                       \/ /\ h = host /\ x = now
                          /\ more[host].bytes > HHThresh
                          /\ ~(traffic[now][host].bytes > HHThresh)
                  /\ <<"HC", h, x>> \in reports' <=>
                       \/ <<"HC", h, x>> \in reports
                       \/ Closes(e) /\ x = epoch /\ h \in Changed
             /\ reports' \subseteq {"HH", "HC", "SS"} \X Hosts \X (0..MaxEpoch)
             /\ sser' \subseteq Hosts /\ packets' \in 0..MaxPackets
<1> DEFINE now == EpochOf(e)
           old == Opened(e)
           more == More(traffic[now], host, dest, size)
           bucket == Update(old[now % 2][Slot[host]], host, dest, size)
           table == [old[now % 2] EXCEPT ![Slot[host]] = bucket]
           known == Query(old[now % 2], host)
           mine == CHOOSE t \in {bucket[i] : i \in 1..Len(bucket)} : t.ip_addr = host
           seen == IF Closes(e) THEN {} ELSE sser
           hitter == mine.hh /\ \A t \in known : ~t.hh
           spreader == CountDstip(seen, bucket, host) > SSThresh
<1>1. /\ now \in 0..MaxEpoch /\ now >= epoch /\ old \in [0..1 -> Tables]
      /\ Book(old[now % 2], traffic[now])
  BY OpenedAccounts
<1>2. /\ now % 2 \in 0..1 /\ old[now % 2] \in Tables
      /\ traffic[now] \in [Hosts -> Sent] /\ Honest(traffic[now]) /\ Slot[host] \in Slots
  BY <1>1, Parity, SlotOfHost DEF TypeOK, Accounts
<1>3. /\ bucket \in Seq(Element) /\ table \in Tables /\ Book(table, more)
      /\ \E k \in 1..Len(bucket) : bucket[k].ip_addr = host
  BY <1>1, <1>2, UpdateBook, ZenonT(60)
<1>4. /\ epoch' = now /\ packets' = packets + 1 /\ packets < MaxPackets
      /\ tables' = [old EXCEPT ![now % 2][Slot[host]] = bucket]
      /\ sser' = (seen \cup {host}) \ {Zero}
      /\ reports' = reports \cup Closing(e)
           \cup (IF hitter THEN Lines("HH", {host}, now) ELSE {})
           \cup (IF spreader THEN Lines("SS", {host}, now) ELSE {})
      /\ traffic' = [traffic EXCEPT ![now][host] =
              [bytes |-> @.bytes + size, des_ip |-> @.des_ip \cup {dest},
               packets |-> @.packets + 1]]
  BY DEF Packet
<1>5. traffic' = [traffic EXCEPT ![now] = more]
  BY <1>4 DEF More
<1>6. tables' = [old EXCEPT ![now % 2] = table]
  BY <1>4
<1> HIDE DEF spreader, seen
<1>7. hitter <=> more[host].bytes > HHThresh /\ ~(traffic[now][host].bytes > HHThresh)
  <2>1. mine.ip_addr = host /\ \E k \in 1..Len(bucket) : mine = bucket[k]
    BY <1>3
  <2>2. mine.hh <=> more[host].bytes > HHThresh
    <3>1. Bucket(bucket, Slot[host], more)
      BY <1>2, <1>3 DEF Book, Tables
    <3> HIDE DEF mine, bucket, more
    <3> QED
      BY <2>1, <3>1 DEF Bucket, Entry
  <2>3. \A t \in known : t.hh <=> traffic[now][host].bytes > HHThresh
    BY <1>1, <1>2, QueryBook DEF Entry
  <2>4. known = {} => ~(traffic[now][host].bytes > HHThresh)
    <3>1. known = {} => ~(traffic[now][host].packets > 0)
      BY <1>1, <1>2, QueryBook
    <3>2. traffic[now][host].packets \in Nat
      BY <1>2 DEF Sent
    <3> QED
      BY <1>2, <3>1, <3>2 DEF Honest
  <2> HIDE DEF mine, known, more
  <2> QED
    BY <2>2, <2>3, <2>4
<1> HIDE DEF hitter, more, table, bucket
<1>8. Changed \subseteq Hosts
  BY ChangedHosts
<1>9. reports' \subseteq {"HH", "HC", "SS"} \X Hosts \X (0..MaxEpoch)
  <2>1. \A k \in {"HH", "HC", "SS"}, S \in SUBSET Hosts, x \in 0..MaxEpoch :
          Lines(k, S, x) \subseteq {"HH", "HC", "SS"} \X Hosts \X (0..MaxEpoch)
    BY DEF Lines
  <2> QED
    BY <1>1, <1>4, <1>8, <2>1 DEF TypeOK, Closing
<1>10. \A h \in Hosts, x \in 0..MaxEpoch :
         /\ <<"HH", h, x>> \in reports' <=>
              <<"HH", h, x>> \in reports \/ (hitter /\ h = host /\ x = now)
         /\ <<"HC", h, x>> \in reports' <=>
              <<"HC", h, x>> \in reports \/ (Closes(e) /\ x = epoch /\ h \in Changed)
  BY <1>4 DEF Lines, Closing
<1>11. sser' \subseteq Hosts /\ packets' \in 0..MaxPackets
  BY <1>4 DEF TypeOK, seen
<1> QED
  BY <1>3, <1>4, <1>5, <1>6, <1>7, <1>9, <1>10, <1>11 DEF more

-----------------------------------------------------------------------------
(* The lines printed.                                                      *)

HitterLines ==
  \A h \in Hosts, e \in 0..MaxEpoch :
    <<"HH", h, e>> \in reports <=> traffic[e][h].bytes > HHThresh

(* Nothing is said of the changes in an epoch before it is closed.         *)
OpenEpoch ==
  ~crashed => \A h \in Hosts, e \in epoch..MaxEpoch : <<"HC", h, e>> \notin reports

IdsInv ==
  /\ TypeOK /\ Accounts /\ HitterLines
  /\ HeavyChangersExact /\ OpenEpoch

LEMMA InitIds == Init => IdsInv
<1> SUFFICES ASSUME Init PROVE IdsInv
  OBVIOUS
<1>1. /\ packets = 0 /\ epoch = 0 /\ tables = [k \in 0..1 |-> Empty] /\ sser = {}
      /\ crashed = FALSE /\ reports = {} /\ traffic = [e \in 0..MaxEpoch |-> Silent]
  BY DEF Init, Silent
<1>2. Silent \in [Hosts -> Sent] /\ Honest(Silent)
  BY DEF Silent, Sent, Honest
<1>3. TypeOK
  <2>1. crashed \in BOOLEAN
    BY <1>1
  <2>2. tables \in [0..1 -> Tables] /\ traffic \in [0..MaxEpoch -> [Hosts -> Sent]]
    BY <1>1, <1>2, EmptyBook
  <2>3. packets \in 0..MaxPackets /\ epoch \in 0..MaxEpoch /\ sser \subseteq Hosts
    BY <1>1
  <2>4. reports \subseteq {"HH", "HC", "SS"} \X Hosts \X (0..MaxEpoch)
    BY <1>1
  <2> QED
    BY <2>1, <2>2, <2>3, <2>4 DEF TypeOK, Tables
<1>4. Accounts
  <2>1. 0 % 2 \in 0..1
    BY Parity
  <2> QED
    BY <1>1, <1>2, <2>1, EmptyBook DEF Accounts
<1>5. HitterLines
  BY <1>1 DEF HitterLines, Silent
<1>6. HeavyChangersExact /\ OpenEpoch
  BY <1>1 DEF HeavyChangersExact, OpenEpoch
<1> QED
  BY <1>3, <1>4, <1>5, <1>6 DEF IdsInv

LEMMA CrashIds ==
  ASSUME IdsInv, NEW e \in 0..MaxEpoch, Crash(e)
  PROVE  IdsInv'
<1>1. /\ epoch' = epoch /\ tables' = tables /\ sser' = sser /\ traffic' = traffic
      /\ packets' = packets + 1 /\ packets < MaxPackets /\ crashed' = TRUE
      /\ reports' = reports \cup Lines("HC", Changed, epoch)
  BY DEF Crash, Closing
<1>2. Changed \subseteq Hosts
  BY ChangedHosts DEF IdsInv
<1>3. TypeOK'
  BY <1>1, <1>2 DEF IdsInv, TypeOK, Lines
<1>4. Accounts'
  BY <1>1 DEF IdsInv, Accounts, Active
<1>5. HitterLines'
  BY <1>1 DEF IdsInv, HitterLines, Lines
<1>6. HeavyChangersExact'
  <2>1. \A h \in Hosts, x \in 1..(epoch - 1) :
          <<"HC", h, x>> \in reports' <=> <<"HC", h, x>> \in reports
    BY <1>1 DEF Lines, IdsInv, TypeOK
  <2> QED
    BY <1>1, <2>1 DEF IdsInv, HeavyChangersExact, Active
<1>7. OpenEpoch'
  BY <1>1 DEF OpenEpoch
<1> QED
  BY <1>3, <1>4, <1>5, <1>6, <1>7 DEF IdsInv

LEMMA PacketIds ==
  ASSUME IdsInv, NEW e \in 0..MaxEpoch, NEW host \in Hosts, NEW dest \in Dests,
         NEW size \in Sizes, Packet(host, dest, size, e)
  PROVE  IdsInv'
<1> DEFINE now == EpochOf(e)
           old == Opened(e)
           more == More(traffic[now], host, dest, size)
<1> USE DEF IdsInv
<1>1. /\ now \in 0..MaxEpoch /\ now >= epoch
      /\ old \in [0..1 -> Tables]
      /\ Book(old[now % 2], traffic[now])
      /\ now > 0 /\ Active(now - 1) => Book(old[(now - 1) % 2], traffic[now - 1])
  BY OpenedAccounts
<1>2. /\ epoch' = now
      /\ traffic' = [traffic EXCEPT ![now] = more]
      /\ \E table \in Tables : /\ tables' = [old EXCEPT ![now % 2] = table]
                               /\ Book(table, more)
      /\ \A h \in Hosts, x \in 0..MaxEpoch :
           /\ <<"HH", h, x>> \in reports' <=>
                \/ <<"HH", h, x>> \in reports
                \/ /\ h = host /\ x = now
                   /\ more[host].bytes > HHThresh
                   /\ ~(traffic[now][host].bytes > HHThresh)
           /\ <<"HC", h, x>> \in reports' <=>
                \/ <<"HC", h, x>> \in reports
                \/ Closes(e) /\ x = epoch /\ h \in Changed
      /\ reports' \subseteq {"HH", "HC", "SS"} \X Hosts \X (0..MaxEpoch)
      /\ sser' \subseteq Hosts /\ packets' \in 0..MaxPackets
  BY PacketWrites
<1>3. \A h \in Hosts, x \in 0..MaxEpoch :
         <<"HH", h, x>> \in reports' <=>
            \/ <<"HH", h, x>> \in reports
            \/ /\ h = host /\ x = now
               /\ more[host].bytes > HHThresh
               /\ ~(traffic[now][host].bytes > HHThresh)
  BY <1>2
<1>4. \A h \in Hosts, x \in 0..MaxEpoch :
         <<"HC", h, x>> \in reports' <=>
            \/ <<"HC", h, x>> \in reports
            \/ Closes(e) /\ x = epoch /\ h \in Changed
  BY <1>2
<1>5. crashed' = crashed /\ ~crashed
  BY DEF Packet
<1>6. \/ now = epoch /\ ~Closes(e)
      \/ now > epoch /\ Closes(e)
  BY DEF EpochOf, Closes, TypeOK
<1>7. traffic[now] \in [Hosts -> Sent] /\ Honest(traffic[now]) /\ now % 2 \in 0..1
  BY <1>1, Parity DEF TypeOK, Accounts
<1>8. /\ more \in [Hosts -> Sent] /\ Honest(more)
      /\ more[host].bytes = traffic[now][host].bytes + size
      /\ \A h \in Hosts : h # host => more[h] = traffic[now][h]
  BY <1>7, MoreTypes
<1> HIDE DEF now, old, more
<1>9. PICK table \in Tables : tables' = [old EXCEPT ![now % 2] = table] /\ Book(table, more)
  BY <1>2
<1>10. \A x \in 0..MaxEpoch : traffic'[x] = IF x = now THEN more ELSE traffic[x]
  BY <1>2 DEF TypeOK
<1>11. \A x \in 0..MaxEpoch : x # now => (Active(x)' <=> Active(x))
  BY <1>10 DEF Active
<1>12. TypeOK'
  <2>1. tables' \in [0..1 -> Tables]
    BY <1>1, <1>7, <1>9
  <2>2. traffic' \in [0..MaxEpoch -> [Hosts -> Sent]]
    BY <1>1, <1>2, <1>8 DEF TypeOK
  <2> QED
    BY <1>1, <1>2, <1>5, <2>1, <2>2 DEF TypeOK, Tables
<1>13. Accounts'
  <2>1. \A x \in 0..MaxEpoch : Honest(traffic'[x])
    BY <1>8, <1>10 DEF Accounts
  <2>2. \A x \in (epoch' + 1)..MaxEpoch : traffic'[x] = Silent
    BY <1>1, <1>2, <1>10 DEF Accounts, TypeOK
  <2>3. Book(tables'[epoch' % 2], traffic'[epoch'])
    BY <1>1, <1>2, <1>7, <1>9, <1>10
  <2>4. ASSUME epoch' > 0, Active(epoch - 1)'
        PROVE  Book(tables'[(epoch' - 1) % 2], traffic'[epoch' - 1])
    <3>1. now - 1 \in 0..MaxEpoch /\ now - 1 # now /\ now > 0
      BY <1>1, <1>2, <2>4
    <3>2. Active(now - 1)
      <4>1. \E h \in Hosts : traffic'[now - 1][h].packets > 0
        BY <1>2, <2>4 DEF Active
      <4> QED
        BY <1>10, <3>1, <4>1 DEF Active
    <3>3. (now - 1) % 2 \in 0..1 /\ (now - 1) % 2 # now % 2
      BY <1>1, <3>1, Parity
    <3> QED
      BY <1>1, <1>2, <1>9, <1>10, <3>1, <3>2, <3>3
  <2> QED
    BY <2>1, <2>2, <2>3, <2>4 DEF Accounts
<1>14. HitterLines'
  <2>1. ASSUME NEW h \in Hosts, NEW x \in 0..MaxEpoch
        PROVE  <<"HH", h, x>> \in reports' <=> traffic'[x][h].bytes > HHThresh
    <3>1. <<"HH", h, x>> \in reports <=> traffic[x][h].bytes > HHThresh
      BY DEF HitterLines
    <3>2. CASE h = host /\ x = now
      <4>1. traffic[now][host].bytes \in Nat /\ size \in Nat
        BY <1>7 DEF Sent
      <4> QED
        BY <1>8, <1>10, <1>3, <3>1, <3>2, <4>1
    <3>3. CASE ~(h = host /\ x = now)
      BY <1>8, <1>10, <1>3, <3>1, <3>3
    <3> QED
      BY <3>2, <3>3
  <2> QED
    BY <2>1 DEF HitterLines
<1>15. OpenEpoch'
  <2>1. ASSUME NEW h \in Hosts, NEW x \in now..MaxEpoch PROVE <<"HC", h, x>> \notin reports'
    <3>1. x \in 0..MaxEpoch /\ x \in epoch..MaxEpoch
      BY <1>1 DEF TypeOK
    <3>2. <<"HC", h, x>> \notin reports
      BY <1>5, <3>1 DEF OpenEpoch
    <3> QED
      BY <1>1, <1>6, <1>4, <3>1, <3>2 DEF TypeOK
  <2> QED
    BY <1>2, <2>1 DEF OpenEpoch
<1>16. HeavyChangersExact'
  <2>1. ASSUME NEW x \in 1..(now - 1), NEW h \in Hosts, Active(x - 1), Active(x)
        PROVE  <<"HC", h, x>> \in reports' <=>
                 /\ traffic[x - 1][h].packets > 0
                 /\ traffic[x][h].packets > 0
                 /\ Apart(traffic[x - 1][h].bytes, traffic[x][h].bytes) >= HCThresh
    <3>1. x \in 0..MaxEpoch /\ epoch \in 0..MaxEpoch /\ x - 1 \in 0..MaxEpoch
      BY <1>1 DEF TypeOK
    <3>2. CASE x < epoch
      <4>1. <<"HC", h, x>> \in reports' <=> <<"HC", h, x>> \in reports
        BY <1>4, <3>1, <3>2
      <4> QED
        BY <2>1, <3>1, <3>2, <4>1 DEF HeavyChangersExact
    <3>3. CASE x = epoch
      <4>1. Closes(e)
        BY <1>1, <1>6, <3>1, <3>3
      <4>2. <<"HC", h, x>> \notin reports
        BY <1>5, <3>1, <3>3 DEF OpenEpoch
      <4>3. /\ Book(tables[epoch % 2], traffic[epoch])
            /\ Book(tables[(epoch - 1) % 2], traffic[epoch - 1])
        BY <2>1, <3>1, <3>3 DEF Accounts
      <4>4. epoch % 2 \in 0..1 /\ (epoch - 1) % 2 \in 0..1
        BY <3>1, <3>3, Parity
      <4>5. /\ tables[epoch % 2] \in Tables /\ tables[(epoch - 1) % 2] \in Tables
            /\ traffic[epoch] \in [Hosts -> Sent] /\ traffic[epoch - 1] \in [Hosts -> Sent]
        BY <3>1, <3>3, <4>4 DEF TypeOK, Tables
      <4>6. Changed = HeavyChangers(tables[(epoch - 1) % 2], tables[epoch % 2])
        BY <3>3 DEF Changed
      <4>7. h \in Changed <=>
              /\ traffic[epoch - 1][h].packets > 0 /\ traffic[epoch][h].packets > 0
              /\ Apart(traffic[epoch - 1][h].bytes, traffic[epoch][h].bytes) >= HCThresh
        BY <4>3, <4>5, <4>6, ChangersBook
      <4> QED
        BY <1>4, <3>1, <3>3, <4>1, <4>2, <4>7
    <3>4. CASE x > epoch
      <4>1. traffic[x] = Silent
        BY <3>1, <3>4 DEF Accounts
      <4> QED
        BY <2>1, <3>1, <4>1, SilentInactive
    <3> QED
      BY <3>1, <3>2, <3>3, <3>4
  <2>2. \A x \in 1..(now - 1) : /\ x \in 0..MaxEpoch /\ x # now
                                /\ x - 1 \in 0..MaxEpoch /\ x - 1 # now
    BY <1>1
  <2>3. \A x \in 1..(now - 1) : /\ traffic'[x] = traffic[x] /\ traffic'[x - 1] = traffic[x - 1]
                                /\ Active(x)' <=> Active(x)
    BY <1>10, <1>11, <2>2
  <2>4. \A x \in 1..(now - 1) : Active(x - 1)' <=> Active(x - 1)
    BY <2>3 DEF Active
  <2> QED
    BY <1>2, <2>1, <2>3, <2>4 DEF HeavyChangersExact
<1> QED
  BY <1>12, <1>13, <1>14, <1>15, <1>16

LEMMA IdsStep == IdsInv /\ [Next]_vars => IdsInv'
<1> SUFFICES ASSUME IdsInv, [Next]_vars PROVE IdsInv'
  OBVIOUS
<1>1. CASE UNCHANGED vars
  BY <1>1 DEF vars, IdsInv, TypeOK, Accounts, HitterLines, HeavyChangersExact, OpenEpoch,
         Active
<1> QED
  BY <1>1, PacketIds, CrashIds DEF Next

THEOREM IdsInvariant == Spec => []IdsInv
  BY InitIds, IdsStep, PTL DEF Spec

(* Types, in any capture.                                                  *)
THEOREM Types == Spec => []TypeOK
<1>1. IdsInv => TypeOK
  BY DEF IdsInv
<1> QED
  BY <1>1, IdsInvariant, PTL

(* Two tables, used in turn and cleared, are enough: the table of the      *)
(* current epoch is its account, whatever epochs the capture leaves out.   *)
THEOREM CurrentTableTrue == Spec => []CurrentTable
<1>1. IdsInv => CurrentTable
  <2> SUFFICES ASSUME IdsInv PROVE CurrentTable
    OBVIOUS
  <2> USE DEF IdsInv
  <2> DEFINE table == tables[epoch % 2]
             sent == traffic[epoch]
  <2>1. /\ table \in Tables /\ sent \in [Hosts -> Sent] /\ Book(table, sent)
        /\ Honest(sent)
    BY Parity DEF TypeOK, Accounts, Tables
  <2> HIDE DEF table, sent
  <2>2. ASSUME NEW h \in Hosts
        PROVE  {[bytes |-> t.bytes, des_ip |-> t.des_ip] : t \in Query(table, h)}
                 = IF sent[h].packets = 0 THEN {}
                   ELSE {[bytes |-> sent[h].bytes, des_ip |-> sent[h].des_ip]}
    <3>1. /\ \A t \in Query(table, h) : /\ t.bytes = sent[h].bytes
                                        /\ t.des_ip = sent[h].des_ip
                                        /\ sent[h].packets > 0
          /\ sent[h].packets > 0 => Query(table, h) # {}
      BY <2>1, QueryBook DEF Entry
    <3>2. sent[h].packets \in Nat
      BY <2>1 DEF Sent
    <3>3. CASE sent[h].packets = 0
      BY <3>1, <3>3
    <3>4. CASE sent[h].packets # 0
      BY <3>1, <3>2, <3>4
    <3> QED
      BY <3>3, <3>4
  <2>3. \A s \in Slots : \A j, k \in 1..Len(table[s]) :
          table[s][j].ip_addr = table[s][k].ip_addr => j = k
    BY <2>1 DEF Book, Bucket
  <2> QED
    BY <2>2, <2>3 DEF CurrentTable, table, sent
<1> QED
  BY <1>1, IdsInvariant, PTL

(* Each source that passes the threshold in an epoch is printed for it,    *)
(* and no other: the flag that stops a second line never outlives the      *)
(* epoch, nor hides a later one.                                           *)
THEOREM HittersExact == Spec => []HeavyHittersExact
<1>1. IdsInv => HeavyHittersExact
  <2> SUFFICES ASSUME IdsInv PROVE HeavyHittersExact
    OBVIOUS
  <2> USE DEF IdsInv
  <2>1. \A r \in reports : r[1] = "HH" =>
          \E h \in Hosts, e \in 0..MaxEpoch : r = <<"HH", h, e>>
    BY DEF TypeOK
  <2>2. ASSUME NEW e \in 0..MaxEpoch, NEW h \in Hosts, traffic[e][h].bytes > HHThresh
        PROVE  e \in 0..epoch
    <3>1. traffic[e] # Silent
      BY <2>2 DEF Silent
    <3> QED
      BY <3>1 DEF Accounts, TypeOK
  <2>3. ASSUME NEW r \in reports, r[1] = "HH"
        PROVE  \E p \in {q \in Hosts \X (0..epoch) : traffic[q[2]][q[1]].bytes > HHThresh} :
                 r = <<"HH", p[1], p[2]>>
    <3>1. PICK h \in Hosts, e \in 0..MaxEpoch : r = <<"HH", h, e>>
      BY <2>1, <2>3
    <3>2. traffic[e][h].bytes > HHThresh /\ e \in 0..epoch
      BY <2>2, <3>1 DEF HitterLines
    <3>3. <<h, e>> \in {q \in Hosts \X (0..epoch) : traffic[q[2]][q[1]].bytes > HHThresh}
      BY <3>2
    <3> QED
      BY <3>1, <3>3
  <2>4. ASSUME NEW p \in {q \in Hosts \X (0..epoch) : traffic[q[2]][q[1]].bytes > HHThresh}
        PROVE  <<"HH", p[1], p[2]>> \in reports
    <3>1. p[1] \in Hosts /\ p[2] \in 0..MaxEpoch
      BY DEF TypeOK
    <3> QED
      BY <3>1 DEF HitterLines
  <2> QED
    BY <2>3, <2>4 DEF HeavyHittersExact
<1> QED
  BY <1>1, IdsInvariant, PTL

(* The comparison of two epochs in a row is made with the right tables, in *)
(* spite of the parity, and prints exactly what changed.                   *)
THEOREM ChangersExact == Spec => []HeavyChangersExact
<1>1. IdsInv => HeavyChangersExact
  BY DEF IdsInv
<1> QED
  BY <1>1, IdsInvariant, PTL
=============================================================================

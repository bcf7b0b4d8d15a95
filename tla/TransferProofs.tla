--------------------------- MODULE TransferProofs ---------------------------
(***************************************************************************)
(* Theorems about Transfer, for files and batches of any size, plain or    *)
(* over TLS, and in both directions.                                       *)
(***************************************************************************)
EXTENDS Transfer, TLAPS, SequenceTheorems

USE SizesAssumption, BatchAssumption

-----------------------------------------------------------------------------
(* The stream: message n starts after Start(n) items, and holds the bytes  *)
(* of the file from Off(n) to Off(n + 1).  Messages 0 to Batches - 1 are   *)
(* the batches, message Batches is the terminator.                         *)

Off(n)   == Least(n * BATCH_SIZE, size)
Start(n) == Off(n) + 2 * n
Rest(n)  == Off(n + 1) - Off(n)

ItemOf(from, len, j) ==
  IF j = 1 THEN Magic ELSE IF j = 2 THEN Length(len) ELSE Content(from + (j - 2))

MessageItem(n, j) == ItemOf(Off(n), Rest(n), j)

(* The first message without bytes, which the receiver takes for the end.  *)
Last == IF size % BATCH_SIZE = 0 THEN Batches - 1 ELSE Batches

LEMMA SizeSplit ==
  ASSUME size \in Sizes
  PROVE  /\ size \in Nat /\ size \div BATCH_SIZE \in Nat
         /\ size % BATCH_SIZE \in 0..(BATCH_SIZE - 1)
         /\ size = BATCH_SIZE * (size \div BATCH_SIZE) + (size % BATCH_SIZE)
  OBVIOUS

LEMMA Product ==
  ASSUME NEW m \in Nat, NEW n \in Nat, m <= n
  PROVE  m * BATCH_SIZE <= n * BATCH_SIZE
  OBVIOUS

LEMMA ProductNext ==
  ASSUME NEW n \in Nat
  PROVE  n * BATCH_SIZE \in Nat /\ (n + 1) * BATCH_SIZE = n * BATCH_SIZE + BATCH_SIZE
  OBVIOUS

LEMMA OffTypes ==
  ASSUME size \in Sizes, NEW n \in Nat
  PROVE  /\ Off(n) \in 0..size /\ Start(n) \in Nat /\ Rest(n) \in Nat
         /\ Off(n + 1) = Off(n) + Rest(n)
         /\ Start(n + 1) = Start(n) + (Rest(n) + 2)
<1>1. size \in Nat
  OBVIOUS
<1>2. n * BATCH_SIZE \in Nat /\ (n + 1) * BATCH_SIZE = n * BATCH_SIZE + BATCH_SIZE
  BY ProductNext
<1> DEFINE p == n * BATCH_SIZE
           u == (n + 1) * BATCH_SIZE
<1>3. Off(n) = Least(p, size) /\ Off(n + 1) = Least(u, size)
  BY DEF Off
<1>4. p \in Nat /\ u = p + BATCH_SIZE
  BY <1>2
<1> HIDE DEF p, u
<1>5. Off(n) \in 0..size /\ Off(n + 1) \in 0..size /\ Off(n) <= Off(n + 1)
  BY <1>1, <1>3, <1>4 DEF Least
<1> QED
  BY <1>5 DEF Start, Rest

LEMMA StartsApart ==
  ASSUME size \in Sizes, NEW m \in Nat, NEW n \in Nat, m < n
  PROVE  Start(m + 1) <= Start(n)
<1>1. m + 1 \in Nat /\ m + 1 <= n
  OBVIOUS
<1>2. (m + 1) * BATCH_SIZE <= n * BATCH_SIZE
  BY <1>1, Product
<1> DEFINE p == (m + 1) * BATCH_SIZE
           u == n * BATCH_SIZE
<1>3. p \in Nat /\ u \in Nat /\ p <= u /\ Off(m + 1) = Least(p, size) /\ Off(n) = Least(u, size)
  BY <1>1, <1>2, ProductNext DEF Off
<1> HIDE DEF p, u
<1>4. Off(m + 1) <= Off(n) /\ Off(m + 1) \in Nat /\ Off(n) \in Nat
  BY <1>3 DEF Least
<1> QED
  BY <1>1, <1>4 DEF Start

LEMMA BatchesTypes ==
  ASSUME size \in Sizes
  PROVE  Batches \in Nat \ {0} /\ Last \in Nat /\ Last <= Batches /\ Batches <= Last + 1
  BY SizeSplit DEF Batches, Last

(* Batch n is message n, and so is the terminator.                         *)
LEMMA BatchOff ==
  ASSUME size \in Sizes, NEW n \in 0..(Batches - 1)
  PROVE  n * BATCH_SIZE = Off(n) /\ Least(BATCH_SIZE, size - n * BATCH_SIZE) = Rest(n)
<1> DEFINE q == size \div BATCH_SIZE
           p == n * BATCH_SIZE
           u == q * BATCH_SIZE
           v == (n + 1) * BATCH_SIZE
<1>1. q \in Nat /\ n \in Nat /\ n <= q /\ size \in Nat /\ u <= size
  BY SizeSplit DEF Batches
<1>2. p \in Nat /\ p <= u /\ v = p + BATCH_SIZE
  BY <1>1, Product, ProductNext
<1>3. Off(n) = Least(p, size) /\ Off(n + 1) = Least(v, size) /\ u \in Nat
  BY <1>1, ProductNext DEF Off
<1>4. Rest(n) = Off(n + 1) - Off(n)
  BY DEF Rest
<1> HIDE DEF p, q, u, v
<1>5. p = Off(n) /\ Least(BATCH_SIZE, size - p) = Rest(n)
  BY <1>1, <1>2, <1>3, <1>4 DEF Least
<1> QED
  BY <1>5 DEF p

(* The batches before Last hold bytes, Last holds none.                    *)
LEMMA LastIsEmpty ==
  ASSUME size \in Sizes
  PROVE  /\ Off(Last) = size /\ Rest(Last) = 0
         /\ Rest(Batches) = 0 /\ Off(Batches) = size
         /\ \A n \in 0..(Last - 1) : Rest(n) > 0
<1> DEFINE q == size \div BATCH_SIZE
           u == q * BATCH_SIZE
           v == (q + 1) * BATCH_SIZE
           w == (q + 1 + 1) * BATCH_SIZE
<1>1. /\ q \in Nat /\ size \in Nat /\ size = u + (size % BATCH_SIZE)
      /\ size % BATCH_SIZE \in 0..(BATCH_SIZE - 1) /\ Batches = q + 1
  BY SizeSplit DEF Batches
<1>2. u \in Nat /\ v = u + BATCH_SIZE /\ w = v + BATCH_SIZE
  BY <1>1, ProductNext
<1>3. /\ Off(q) = Least(u, size) /\ Off(q + 1) = Least(v, size)
      /\ Off(q + 1 + 1) = Least(w, size)
  BY DEF Off
<1>4. /\ Off(q + 1) = size /\ Off(q + 1 + 1) = size
      /\ size % BATCH_SIZE = 0 => Off(q) = size
  <2> HIDE DEF q, u, v, w
  <2> QED
    BY <1>1, <1>2, <1>3 DEF Least
<1>5. /\ Off(Last) = size /\ Rest(Last) = 0
      /\ Rest(Batches) = 0 /\ Off(Batches) = size
  BY <1>1, <1>4 DEF Last, Rest
<1>6. ASSUME NEW n \in 0..(Last - 1) PROVE Rest(n) > 0
  <2> DEFINE p == n * BATCH_SIZE
             s == (n + 1) * BATCH_SIZE
  <2>1. n \in Nat /\ n <= q /\ (n = q => size % BATCH_SIZE # 0)
    BY <1>1 DEF Last
  <2>2. p \in Nat /\ s = p + BATCH_SIZE /\ p <= u /\ (n + 1 <= q => s <= u)
    BY <1>1, <2>1, Product, ProductNext
  <2>3. Off(n) = Least(p, size) /\ Off(n + 1) = Least(s, size)
    BY DEF Off
  <2>4. n = q => p = u
    OBVIOUS
  <2> HIDE DEF p, s, u, v, w, q
  <2>5. Off(n + 1) - Off(n) > 0
    BY <1>1, <1>2, <2>1, <2>2, <2>3, <2>4 DEF Least
  <2> QED
    BY <2>5 DEF Rest
<1> QED
  BY <1>5, <1>6

-----------------------------------------------------------------------------
(* The messages as sequences.                                              *)

LEMMA ItemTypes ==
  ASSUME NEW n \in Nat
  PROVE  Magic \in Items /\ Reply \in Items /\ Junk \in Items
         /\ Length(n) \in Items /\ Content(n) \in Items
  BY DEF Magic, Reply, Junk, Length, Content, Items

LEMMA MessageProperties ==
  ASSUME NEW from \in Nat, NEW len \in Nat
  PROVE  /\ Message(from, len) \in Seq(Items)
         /\ Len(Message(from, len)) = len + 2
         /\ \A j \in 1..(len + 2) : Message(from, len)[j] = ItemOf(from, len, j)
<1> DEFINE head == <<Magic, Length(len)>>
           tail == [n \in 1..len |-> Content(from + n)]
<1>1. head \in Seq(Items) /\ Len(head) = 2 /\ head[1] = Magic /\ head[2] = Length(len)
  BY ItemTypes
<1>2. tail \in [1..len -> Items] /\ \A n \in 1..len : tail[n] = Content(from + n)
  BY ItemTypes
<1>3. tail \in Seq(Items) /\ Len(tail) = len
  BY <1>2, SeqDef
<1> HIDE DEF head, tail
<1>4. /\ head \o tail \in Seq(Items) /\ Len(head \o tail) = 2 + len
      /\ \A j \in 1..(2 + len) :
           (head \o tail)[j] = IF j <= 2 THEN head[j] ELSE tail[j - 2]
  <2>1. /\ head \o tail \in Seq(Items) /\ Len(head \o tail) = Len(head) + Len(tail)
        /\ \A j \in 1..(Len(head) + Len(tail)) :
             (head \o tail)[j] = IF j <= Len(head) THEN head[j] ELSE tail[j - Len(head)]
    BY <1>1, <1>3, ConcatProperties
  <2> QED
    BY <1>1, <1>3, <2>1
<1>5. Message(from, len) = head \o tail
  BY DEF Message, head, tail
<1> DEFINE msg == head \o tail
<1>6. \A j \in 1..(len + 2) :
        msg[j] = ItemOf(from, len, j)
  <2>1. ASSUME NEW j \in 1..(len + 2), j > 2 PROVE msg[j] = Content(from + (j - 2))
    <3>1. j - 2 \in 1..len /\ j \in 1..(2 + len) /\ ~(j <= 2)
      BY <2>1
    <3> QED
      BY <1>2, <1>4, <3>1
  <2>2. msg[1] = Magic /\ msg[2] = Length(len)
    BY <1>1, <1>4
  <2> HIDE DEF msg
  <2>3. \A j \in 1..(len + 2) : j = 1 \/ j = 2 \/ j > 2
    OBVIOUS
  <2> QED
    BY <2>1, <2>2, <2>3 DEF ItemOf
<1>7. msg \in Seq(Items) /\ Len(msg) = len + 2 /\ Message(from, len) = msg
  BY <1>4, <1>5
<1> HIDE DEF msg
<1> QED
  BY <1>6, <1>7

LEMMA NextMessageItems ==
  ASSUME size \in Sizes, i \in 0..Batches
  PROVE  /\ NextMessage \in Seq(Items) /\ Len(NextMessage) = Rest(i) + 2
         /\ \A j \in 1..(Rest(i) + 2) : NextMessage[j] = MessageItem(i, j)
         /\ i < Batches => NextMessage = Batch(i)
         /\ i >= Batches => NextMessage = Message(0, 0)
<1>1. i \in Nat /\ Batches \in Nat /\ Off(i) \in Nat /\ Rest(i) \in Nat
  BY BatchesTypes, OffTypes
<1>2. CASE i < Batches
  <2>1. NextMessage = Batch(i) /\ Batch(i) = Message(Off(i), Rest(i))
    BY <1>1, <1>2, BatchOff DEF NextMessage, Batch
  <2>2. /\ NextMessage \in Seq(Items) /\ Len(NextMessage) = Rest(i) + 2
        /\ \A j \in 1..(Rest(i) + 2) : NextMessage[j] = ItemOf(Off(i), Rest(i), j)
    BY <1>1, <2>1, MessageProperties
  <2> QED
    BY <1>1, <1>2, <2>1, <2>2 DEF MessageItem
<1>3. CASE i >= Batches
  <2>1. i = Batches /\ NextMessage = Message(0, 0) /\ Rest(i) = 0
    BY <1>1, <1>3, LastIsEmpty DEF NextMessage
  <2>2. PICK none \in Nat : none = 0
    OBVIOUS
  <2>3. /\ Message(none, none) \in Seq(Items) /\ Len(Message(none, none)) = none + 2
        /\ \A j \in 1..(none + 2) : Message(none, none)[j] = ItemOf(none, none, j)
    BY MessageProperties
  <2>4. \A j \in 1..(none + 2) : ItemOf(none, none, j) = MessageItem(i, j)
    BY <2>1, <2>2 DEF MessageItem, ItemOf
  <2> QED
    BY <1>1, <1>3, <2>1, <2>2, <2>3, <2>4
<1> QED
  BY <1>1, <1>2, <1>3

-----------------------------------------------------------------------------
(* The inductive invariant.                                                *)

(* What is in the connection, if `base` items were taken out of it.        *)
Carries(ch, base) ==
  \A n \in 0..Batches : \A j \in 1..(Rest(n) + 2) :
    (Start(n) + j) - base \in 1..Len(ch) =>
      ch[(Start(n) + j) - base] = MessageItem(n, j)

(* The two ends know of each other what they have to.                      *)
Control ==
  /\ i \in 0..Batches
  /\ spc = "reply" => i = 0
  /\ Finished => i = Batches
  /\ spc = "closed" \/ rpc = "closed" => tls
  /\ cut => ~tls /\ spc = "killed"
  /\ reply # "read" =>
       (IF dir = "get" THEN rpc ELSE spc) \in {"reply", "exit", "killed"}
  /\ NoFailureAlone

(* The receiver took the messages before message n, and perhaps a header.  *)
Pos(n) == Start(n) + (IF rpc \in {"data", "done", "closed"} THEN 2 ELSE 0)

InStep(n) ==
  /\ rpc \in {"reply", "header"} =>
       /\ buff[1] # Magic
       /\ buff[2][1] = "length" => buff[2][2] > 0
  /\ rpc = "data" => /\ n < Last /\ need = Rest(n)
                     /\ buff[1] = Magic /\ buff[2] = Length(need)
  /\ Done => n = Last
  /\ Carries(chan, Pos(n))
  /\ spc \in {"reply", "sending"} => Pos(n) + Len(chan) = Start(i)
  /\ Finished => Pos(n) + Len(chan) = Start(Batches + 1)
  /\ spc = "killed" /\ tls =>
       \E m \in 0..(Batches + 1) : Pos(n) + Len(chan) = Start(m)

(* The sender was killed, and the receiver reads its own buffer.           *)
Dry ==
  /\ spc = "killed" /\ ~tls /\ chan = << >> /\ rpc # "reply"
  /\ rpc \in {"header", "data"} /\ buff[1] = Magic =>
       cut \/ (buff[2][1] = "length" /\ buff[2][2] > 0)
  /\ rpc = "data" => need > 0
  /\ rpc = "done" => cut

Stopped == rpc \in {"exit", "killed"}

Stream ==
  \E n \in 0..Last :
    /\ file = SubSeq(Whole, 1, Off(n))
    /\ InStep(n) \/ Dry \/ Stopped

TransferInv == TypeOK /\ Control /\ Stream

-----------------------------------------------------------------------------
(* The stream, as it grows at one end and shrinks at the other.            *)

IsStream(ch) == ch \in Seq(Items)

(* Item j of message n, at place x behind c others, is item j of message m.*)
Meets(m, n, j, c, l, x, base) == n = m /\ x - c = j /\ j \in 1..l

(* An item beyond the c items of the connection is one of the next message.*)
LEMMA Beyond ==
  ASSUME size \in Sizes, NEW m \in Nat, NEW n \in Nat, NEW j \in 1..(Rest(n) + 2),
         NEW base \in Nat, NEW c \in Nat, NEW l \in Nat, NEW x \in 1..(c + l),
         l <= Rest(m) + 2, base + c = Start(m), x + base = Start(n) + j, ~(x <= c)
  PROVE  Meets(m, n, j, c, l, x, base)
<1>1. /\ Start(n) \in Nat /\ Start(m) \in Nat /\ Rest(n) \in Nat /\ Rest(m) \in Nat
      /\ Start(n + 1) = Start(n) + (Rest(n) + 2) /\ Start(m + 1) = Start(m) + (Rest(m) + 2)
  BY OffTypes
<1> DEFINE s == Start(n)
           t == Start(m)
           u == Start(n + 1)
           v == Start(m + 1)
<1>2. s + j > t /\ s + j <= t + l
  BY <1>1
<1>3. s + j <= u /\ t + l <= v
  BY <1>1
<1>4. ~(n < m)
  <2>1. n < m => u <= t
    BY StartsApart
  <2> QED
    BY <1>1, <1>2, <1>3, <2>1
<1>5. ~(m < n)
  <2>1. m < n => v <= s
    BY StartsApart
  <2> QED
    BY <1>1, <1>2, <1>3, <2>1
<1>6. n = m
  BY <1>4, <1>5
<1> QED
  BY <1>1, <1>2, <1>6 DEF Meets

LEMMA CarriesMore ==
  ASSUME size \in Sizes, i \in 0..Batches, NEW ch, IsStream(ch), NEW base \in Nat,
         Carries(ch, base), base + Len(ch) = Start(i), NEW l \in Nat, l <= Rest(i) + 2
  PROVE  /\ ch \o SubSeq(NextMessage, 1, l) \in Seq(Items)
         /\ Len(ch \o SubSeq(NextMessage, 1, l)) = Len(ch) + l
         /\ Carries(ch \o SubSeq(NextMessage, 1, l), base)
         /\ l = Rest(i) + 2 => SubSeq(NextMessage, 1, l) = NextMessage
<1> DEFINE part == SubSeq(NextMessage, 1, l)
           more == ch \o part
<1>1. /\ i \in Nat /\ Batches \in Nat /\ Rest(i) \in Nat /\ Start(i) \in Nat
      /\ NextMessage \in Seq(Items) /\ Len(NextMessage) = Rest(i) + 2
      /\ \A j \in 1..(Rest(i) + 2) : NextMessage[j] = MessageItem(i, j)
  BY BatchesTypes, OffTypes, NextMessageItems
<1>2. part \in Seq(Items) /\ Len(part) = l /\ \A j \in 1..l : part[j] = NextMessage[j]
  <2>1. \A j \in 1..l : NextMessage[j] \in Items
    BY <1>1, ElementOfSeq
  <2>2. /\ part \in Seq(Items) /\ Len(part) = IF 1 <= l THEN l - 1 + 1 ELSE 0
        /\ \A j \in 1..(l - 1 + 1) : part[j] = NextMessage[1 + j - 1]
    BY <1>1, <2>1, SubSeqProperties
  <2>3. \A j \in 1..l : j \in 1..(l - 1 + 1) /\ (1 + j) - 1 = j
    BY <1>1
  <2> HIDE DEF part
  <2> QED
    BY <1>1, <2>2, <2>3, SMTT(30)
<1>3. l = Rest(i) + 2 => part = NextMessage
  BY <1>1, SubSeqFull
<1> HIDE DEF part
<1>4. /\ more \in Seq(Items) /\ Len(more) = Len(ch) + l /\ Len(ch) \in Nat
      /\ \A x \in 1..(Len(ch) + l) :
           more[x] = IF x <= Len(ch) THEN ch[x] ELSE part[x - Len(ch)]
  <2>1. /\ more \in Seq(Items) /\ Len(more) = Len(ch) + Len(part)
        /\ \A x \in 1..(Len(ch) + Len(part)) :
             more[x] = IF x <= Len(ch) THEN ch[x] ELSE part[x - Len(ch)]
    BY <1>2, ConcatProperties DEF IsStream
  <2> HIDE DEF more
  <2> QED
    BY <1>2, <2>1, LenProperties DEF IsStream
<1> HIDE DEF more
<1>5. ASSUME NEW n \in 0..Batches, NEW j \in 1..(Rest(n) + 2),
             (Start(n) + j) - base \in 1..Len(more)
      PROVE  more[(Start(n) + j) - base] = MessageItem(n, j)
  <2> DEFINE x == (Start(n) + j) - base
  <2>1. n \in Nat /\ Start(n) \in Nat /\ Rest(n) \in Nat
    BY <1>1, OffTypes
  <2>2. x \in 1..(Len(ch) + l)
    BY <1>4, <1>5
  <2>3. x + base = Start(n) + j
    BY <2>1
  <2> HIDE DEF x
  <2>4. CASE x <= Len(ch)
    <3>1. x \in 1..Len(ch) /\ x = (Start(n) + j) - base
      BY <1>4, <2>2, <2>4 DEF x
    <3>2. ch[x] = MessageItem(n, j)
      BY <3>1 DEF Carries
    <3> QED
      BY <1>4, <2>2, <2>4, <3>2 DEF x
  <2>5. CASE ~(x <= Len(ch))
    <3>1. n = i /\ x - Len(ch) = j /\ j \in 1..l
      <4>1. i \in Nat /\ Len(ch) \in Nat
        BY <1>1, <1>4
      <4>2. Meets(i, n, j, Len(ch), l, x, base)
        BY <2>1, <2>2, <2>3, <2>5, <4>1, Beyond
      <4> QED
        BY <4>2 DEF Meets
    <3>2. more[x] = MessageItem(n, j)
      BY <1>1, <1>2, <1>4, <2>2, <2>5, <3>1
    <3> QED
      BY <3>2 DEF x
  <2> QED
    BY <2>4, <2>5
<1>6. Carries(more, base)
  BY <1>5 DEF Carries
<1> QED
  BY <1>3, <1>4, <1>6 DEF more, part

LEMMA CarriesLess ==
  ASSUME size \in Sizes, NEW ch, IsStream(ch), NEW base \in Nat, NEW k \in 0..Len(ch)
  PROVE  LET rest == SubSeq(ch, k + 1, Len(ch)) IN
         /\ rest \in Seq(Items) /\ Len(rest) = Len(ch) - k
         /\ Carries(ch, base) => Carries(rest, base + k)
<1> DEFINE rest == SubSeq(ch, k + 1, Len(ch))
<1>1. Len(ch) \in Nat /\ Batches \in Nat
  BY BatchesTypes DEF IsStream
<1>2. /\ rest \in Seq(Items) /\ Len(rest) = Len(ch) - k
      /\ \A x \in 1..(Len(ch) - k) : rest[x] = ch[x + k]
  <2>1. \A x \in (k + 1)..Len(ch) : ch[x] \in Items
    BY <1>1, ElementOfSeq DEF IsStream
  <2>2. /\ rest \in Seq(Items)
        /\ Len(rest) = IF k + 1 <= Len(ch) THEN Len(ch) - (k + 1) + 1 ELSE 0
        /\ \A x \in 1..(Len(ch) - (k + 1) + 1) : rest[x] = ch[(k + 1) + x - 1]
    BY <1>1, <2>1, SubSeqProperties
  <2>3. \A x \in 1..(Len(ch) - k) :
          x \in 1..(Len(ch) - (k + 1) + 1) /\ (k + 1) + x - 1 = x + k
    BY <1>1
  <2> HIDE DEF rest
  <2> QED
    BY <1>1, <2>2, <2>3
<1> HIDE DEF rest
<1>3. ASSUME Carries(ch, base) PROVE Carries(rest, base + k)
  <2>1. ASSUME NEW n \in 0..Batches, NEW j \in 1..(Rest(n) + 2),
               (Start(n) + j) - (base + k) \in 1..Len(rest)
        PROVE  rest[(Start(n) + j) - (base + k)] = MessageItem(n, j)
    <3>1. n \in Nat /\ Start(n) \in Nat /\ Rest(n) \in Nat
      BY <1>1, OffTypes
    <3> DEFINE x == (Start(n) + j) - (base + k)
    <3>2. /\ x \in 1..(Len(ch) - k) /\ x + k = (Start(n) + j) - base
          /\ (Start(n) + j) - base \in 1..Len(ch)
      <4>1. x \in 1..(Len(ch) - k)
        BY <1>2, <2>1
      <4>2. x + k = (Start(n) + j) - base
        BY <1>1, <3>1
      <4>3. x + k \in 1..Len(ch)
        BY <1>1, <4>1
      <4> QED
        BY <4>1, <4>2, <4>3
    <3>3. rest[x] = ch[x + k]
      BY <1>2, <3>2
    <3> HIDE DEF x
    <3>4. rest[x] = MessageItem(n, j)
      BY <1>3, <3>2, <3>3 DEF Carries
    <3> QED
      BY <3>4 DEF x
  <2> QED
    BY <2>1 DEF Carries
<1> QED
  BY <1>2, <1>3 DEF rest

(* recvn(): what it took, and what it left.                                *)
LEMMA ReceiveWrites ==
  ASSUME TypeOK, NEW n \in Nat, Receive(n)
  PROVE  LET k == Least(n, Len(chan)) IN
         /\ Len(chan) \in Nat /\ k \in 0..Len(chan) /\ k <= n
         /\ Len(chan) >= n \/ SenderClosed
         /\ chan' \in Seq(Items) /\ Len(chan') = Len(chan) - k
         /\ \A base \in Nat : Carries(chan, base) => Carries(chan', base + k)
         /\ buff'[1] = (IF k >= 1 THEN chan[1] ELSE buff[1])
         /\ buff'[2] = (IF k >= 2 THEN chan[2] ELSE buff[2])
         /\ buff' \in Items \X Items
         /\ Taken(n) \in Seq(Items) /\ Len(Taken(n)) = k
         /\ \A x \in 1..k : Taken(n)[x] = chan[x]
<1> DEFINE k == Least(n, Len(chan))
           taken == SubSeq(chan, 1, k)
<1>1. chan \in Seq(Items) /\ Len(chan) \in Nat /\ k \in 0..Len(chan) /\ k <= n /\ k \in Nat
  BY DEF TypeOK, Least
<1>2. Taken(n) = taken
  BY DEF Taken
<1> HIDE DEF k
<1>3. taken \in Seq(Items) /\ Len(taken) = k /\ \A x \in 1..k : taken[x] = chan[x]
  <2>1. \A j \in 1..k : chan[j] \in Items
    BY <1>1, ElementOfSeq
  <2>2. /\ taken \in Seq(Items) /\ Len(taken) = IF 1 <= k THEN k - 1 + 1 ELSE 0
        /\ \A j \in 1..(k - 1 + 1) : taken[j] = chan[1 + j - 1]
    BY <1>1, <2>1, SubSeqProperties
  <2>3. \A j \in 1..k : j \in 1..(k - 1 + 1) /\ (1 + j) - 1 = j
    BY <1>1
  <2> HIDE DEF taken
  <2> QED
    BY <1>1, <2>2, <2>3
<1> HIDE DEF taken
<1>4. /\ chan' = SubSeq(chan, k + 1, Len(chan))
      /\ buff' = [x \in 1..2 |-> IF x <= k THEN taken[x] ELSE buff[x]]
      /\ Len(chan) >= n \/ SenderClosed
  BY <1>2, <1>3 DEF Receive, Receivable
<1>5. /\ chan' \in Seq(Items) /\ Len(chan') = Len(chan) - k
      /\ \A base \in Nat : Carries(chan, base) => Carries(chan', base + k)
  BY <1>1, <1>4, CarriesLess DEF TypeOK, IsStream
<1>6. /\ buff'[1] = (IF k >= 1 THEN chan[1] ELSE buff[1])
      /\ buff'[2] = (IF k >= 2 THEN chan[2] ELSE buff[2])
  BY <1>1, <1>3, <1>4
<1>7. buff' \in Items \X Items
  <2>1. buff'[1] \in Items /\ buff'[2] \in Items
    BY <1>1, <1>6, ElementOfSeq DEF TypeOK
  <2>2. buff' = <<buff'[1], buff'[2]>>
    BY <1>4
  <2> QED
    BY <2>1, <2>2
<1> QED
  BY <1>1, <1>2, <1>3, <1>4, <1>5, <1>6, <1>7 DEF k

-----------------------------------------------------------------------------
(* Types and control.                                                      *)

LEMMA InitInv == Init => TypeOK /\ Control
<1> SUFFICES ASSUME Init PROVE TypeOK /\ Control
  OBVIOUS
<1>1. TypeOK
  <2>1. tls \in BOOLEAN /\ cut \in BOOLEAN
    BY Zenon DEF Init
  <2>2. buff \in Items \X Items
    BY ItemTypes DEF Init
  <2> QED
    BY <2>1, <2>2 DEF Init, TypeOK
<1>2. Batches \in Nat
  BY BatchesTypes DEF Init
<1>3. Control
  BY <1>2 DEF Init, Control, Finished, NoFailureAlone
<1> QED
  BY <1>1, <1>3

LEMMA TypesNext == TypeOK /\ Control /\ [Next]_vars => TypeOK'
<1> SUFFICES ASSUME TypeOK, Control, [Next]_vars PROVE TypeOK'
  OBVIOUS
<1> USE DEF TypeOK
<1>1. CASE SendReply
  BY <1>1 DEF SendReply
<1>2. CASE ReadReply
  BY <1>2 DEF ReadReply
<1>3. CASE SendBatch \/ SendTerminator
  <2>1. NextMessage \in Seq(Items) /\ chan' = chan \o NextMessage
    BY <1>3, NextMessageItems DEF Control, SendBatch, SendTerminator
  <2>2. chan' \in Seq(Items)
    BY <2>1, ConcatProperties
  <2> QED
    BY <1>3, <2>2 DEF SendBatch, SendTerminator
<1>4. CASE SendFails \/ SenderShuts \/ ReceiverShuts
  BY <1>4 DEF SendFails, SenderShuts, ReceiverShuts
<1>5. CASE ReceiveHeader
  <2>1. chan' \in Seq(Items) /\ buff' \in Items \X Items
    BY <1>5, ReceiveWrites DEF ReceiveHeader
  <2>2. buff'[2][1] = "length" => buff'[2][2] \in Nat
    BY <2>1 DEF Items
  <2>3. need' \in Nat
    BY <1>5, <2>2 DEF ReceiveHeader
  <2>4. rpc' \in {"data", "done", "exit"}
    BY <1>5 DEF ReceiveHeader
  <2>5. cut' = cut \/ cut' = TRUE
    BY <1>5, Zenon DEF ReceiveHeader
  <2>6. cut' \in BOOLEAN
    BY <2>5, Zenon
  <2> QED
    BY <1>5, <2>1, <2>3, <2>4, <2>6 DEF ReceiveHeader
<1>6. CASE ReceiveData
  <2>1. /\ chan' \in Seq(Items) /\ buff' \in Items \X Items
        /\ Taken(need) \in Seq(Items)
    BY <1>6, ReceiveWrites DEF ReceiveData
  <2>2. file' \in Seq(Items)
    BY <1>6, <2>1, ConcatProperties DEF ReceiveData
  <2> QED
    BY <1>6, <2>1, <2>2 DEF ReceiveData
<1>7. CASE ReceiveFails \/ KillReceiver
  BY <1>7 DEF ReceiveFails, KillReceiver
<1>8. CASE KillSender
  <2>1. PICK m \in Nat : chan' = chan \o SubSeq(NextMessage, 1, m) /\ m <= Len(NextMessage)
    <3>1. PICK m \in (IF spc = "sending" THEN CutAt(NextMessage) ELSE {0}) :
            chan' = chan \o SubSeq(NextMessage, 1, m)
      BY <1>8 DEF KillSender
    <3>2. Len(NextMessage) \in Nat
      BY NextMessageItems, LenProperties DEF Control
    <3>3. m \in 0..Len(NextMessage)
      BY <3>1, <3>2 DEF CutAt
    <3>4. m \in Nat /\ m <= Len(NextMessage)
      BY <3>2, <3>3
    <3> QED
      BY <3>1, <3>4, Zenon
  <2>2. NextMessage \in Seq(Items)
    BY NextMessageItems DEF Control
  <2>3. SubSeq(NextMessage, 1, m) \in Seq(Items)
    <3>1. \A x \in 1..m : NextMessage[x] \in Items
      BY <2>1, <2>2, LenProperties, ElementOfSeq
    <3> QED
      BY <2>2, <3>1, SubSeqProperties
  <2>4. chan' \in Seq(Items)
    BY <2>1, <2>3, ConcatProperties
  <2> QED
    BY <1>8, <2>4 DEF KillSender
<1>9. CASE UNCHANGED vars
  BY <1>9 DEF vars
<1> QED
  BY <1>1, <1>2, <1>3, <1>4, <1>5, <1>6, <1>7, <1>8, <1>9 DEF Next, Sender, Receiver

-----------------------------------------------------------------------------
(* What a step leaves alone.                                               *)

LEMMA Fixed ==
  ASSUME size' = size
  PROVE  /\ Batches' = Batches /\ Last' = Last /\ Whole' = Whole
         /\ \A n : Off(n)' = Off(n)
         /\ \A n : Start(n)' = Start(n)
         /\ \A n : Rest(n)' = Rest(n)
         /\ \A n, j : MessageItem(n, j)' = MessageItem(n, j)
<1>1. Batches' = Batches
  BY DEF Batches
<1>2. Last' = Last
  BY <1>1 DEF Last
<1>3. Whole' = Whole
  BY DEF Whole
<1>4. \A n : Off(n)' = Off(n)
  BY DEF Off
<1>5. \A n : Start(n)' = Start(n)
  BY <1>4 DEF Start
<1>6. \A n : Rest(n)' = Rest(n)
  BY <1>4 DEF Rest
<1>7. \A n, j : MessageItem(n, j)' = MessageItem(n, j)
  BY <1>4, <1>6 DEF MessageItem
<1> QED
  BY <1>1, <1>2, <1>3, <1>4, <1>5, <1>6, <1>7

(* What has to be shown of the next state for message n to be in step.     *)
LEMMA InStepNext ==
  ASSUME size' = size, NEW n \in Nat, NEW pos,
         pos = Start(n) + (IF rpc' \in {"data", "done", "closed"} THEN 2 ELSE 0),
         rpc' \in {"reply", "header"} =>
           /\ buff'[1] # Magic
           /\ buff'[2][1] = "length" => buff'[2][2] > 0,
         rpc' = "data" => /\ n < Last /\ need' = Rest(n)
                          /\ buff'[1] = Magic /\ buff'[2] = Length(need'),
         Done' => n = Last,
         Carries(chan', pos),
         spc' \in {"reply", "sending"} => pos + Len(chan') = Start(i'),
         Finished' => pos + Len(chan') = Start(Batches + 1),
         spc' = "killed" /\ tls' =>
           \E m \in 0..(Batches + 1) : pos + Len(chan') = Start(m)
  PROVE  InStep(n)'
<1>1. Pos(n)' = pos
  BY Fixed DEF Pos
<1>2. Carries(chan, Pos(n))'
  BY <1>1, Fixed DEF Carries
<1>3. /\ spc' \in {"reply", "sending"} => Pos(n)' + Len(chan') = Start(i)'
      /\ Finished' => Pos(n)' + Len(chan') = Start(Batches + 1)'
  BY <1>1, Fixed
<1>4. spc' = "killed" /\ tls' =>
        \E m \in 0..(Batches' + 1) : Pos(n)' + Len(chan') = Start(m)'
  BY <1>1, Fixed
<1>5. /\ rpc' = "data" => /\ n < Last' /\ need' = Rest(n)'
                          /\ buff'[1] = Magic /\ buff'[2] = Length(need)'
      /\ Done' => n = Last'
  BY Fixed
<1> QED
  BY <1>2, <1>3, <1>4, <1>5 DEF InStep

-----------------------------------------------------------------------------
(* What the receiver can find in the connection.                           *)

(* The k items of the connection end in message n or behind it.            *)
LEMMA Ends ==
  ASSUME size \in Sizes, NEW m \in Nat, NEW n \in Nat, NEW k \in Nat,
         Start(n) + k = Start(m)
  PROVE  k = 0 \/ k >= Rest(n) + 2
<1>1. /\ Start(n) \in Nat /\ Start(m) \in Nat /\ Rest(n) \in Nat
      /\ Start(n + 1) = Start(n) + (Rest(n) + 2) /\ Start(m + 1) >= Start(m)
      /\ Start(m + 1) \in Nat
  BY OffTypes
<1>2. m < n => Start(m + 1) <= Start(n)
  BY StartsApart
<1>3. n + 1 < m => Start(n + 1) <= Start(m)
  <2>1. n + 1 < m => Start((n + 1) + 1) <= Start(m)
    BY StartsApart
  <2>2. Start(n + 1) <= Start((n + 1) + 1) /\ Start((n + 1) + 1) \in Nat
    BY OffTypes
  <2> QED
    BY <1>1, <2>1, <2>2
<1>4. m < n \/ m = n \/ m = n + 1 \/ n + 1 < m
  OBVIOUS
<1>5. CASE m < n
  BY <1>1, <1>2, <1>5, StartsApart
<1>6. CASE m = n
  BY <1>1, <1>6
<1>7. CASE m = n + 1
  BY <1>1, <1>7
<1>8. CASE n + 1 < m
  BY <1>1, <1>3, <1>8
<1> QED
  BY <1>4, <1>5, <1>6, <1>7, <1>8

(* The connection holds the next items whole, or the sender was killed;    *)
(* over TLS it leaves no part of a message behind.                         *)
LEMMA Comes ==
  ASSUME TypeOK, Control, NEW n \in 0..Last, InStep(n), rpc \in {"header", "data"}, SenderClosed
  PROVE  LET k == Len(chan) + (IF rpc = "data" THEN 2 ELSE 0) IN
         k >= Rest(n) + 2 \/ (spc = "killed" /\ (tls => k = 0))
<1> DEFINE k == Len(chan) + (IF rpc = "data" THEN 2 ELSE 0)
<1>1. /\ size \in Sizes /\ Batches \in Nat /\ n \in Nat /\ n <= Batches /\ k \in Nat
      /\ Start(n) \in Nat
  <2>1. size \in Sizes /\ Len(chan) \in Nat
    BY LenProperties DEF TypeOK
  <2>2. Batches \in Nat /\ Last \in Nat /\ Last <= Batches
    BY <2>1, BatchesTypes
  <2>3. n \in Nat /\ n <= Batches
    BY <2>2
  <2>4. Start(n) \in Nat
    BY <2>1, <2>3, OffTypes
  <2> QED
    BY <2>1, <2>2, <2>3, <2>4
<1>2. Pos(n) + Len(chan) = Start(n) + k
  <2>1. Len(chan) \in Nat
    BY LenProperties DEF TypeOK
  <2> QED
    BY <1>1, <2>1 DEF Pos
<1>3. spc # "exit"
  BY DEF Control, NoFailureAlone
<1>4. CASE Finished
  <2>1. Start(n) + k = Start(Batches + 1)
    BY <1>2, <1>4 DEF InStep
  <2>2. k = 0 \/ k >= Rest(n) + 2
    <3> HIDE DEF k
    <3>1. Batches + 1 \in Nat
      BY <1>1
    <3> QED
      BY <1>1, <2>1, <3>1, Ends
  <2>3. k # 0
    <3>1. Start(n + 1) <= Start(Batches + 1) /\ Start(n + 1) = Start(n) + (Rest(n) + 2) /\ Rest(n) \in Nat
      <4>1. n < Batches + 1 /\ Batches + 1 \in Nat
        BY <1>1
      <4> QED
        BY <1>1, <4>1, StartsApart, OffTypes
    <3>2. Start(Batches + 1) \in Nat
      <4>1. Batches + 1 \in Nat
        BY <1>1
      <4> QED
        BY <1>1, <4>1, OffTypes
    <3> HIDE DEF k
    <3> QED
      BY <1>1, <2>1, <3>1, <3>2
  <2> QED
    BY <2>2, <2>3
<1>5. CASE spc = "killed"
  <2>1. ASSUME tls PROVE k = 0 \/ k >= Rest(n) + 2
    <3>1. PICK m \in 0..(Batches + 1) : Start(n) + k = Start(m)
      BY <1>2, <1>5, <2>1 DEF InStep
    <3>2. m \in Nat
      BY <1>1
    <3> HIDE DEF k
    <3> QED
      BY <1>1, <3>1, <3>2, Ends
  <2> QED
    BY <1>5, <2>1
<1> QED
  BY <1>3, <1>4, <1>5 DEF SenderClosed, Finished

(* The next items of the connection, if it holds them.                     *)
LEMMA NextItems ==
  ASSUME TypeOK, NEW n \in 0..Last, NEW off \in {0, 2}, Carries(chan, Start(n) + off)
  PROVE  \A x \in 1..Len(chan) : off + x <= Rest(n) + 2 => chan[x] = MessageItem(n, off + x)
<1>1. size \in Sizes /\ Len(chan) \in Nat
  BY LenProperties DEF TypeOK
<1>2. Batches \in Nat /\ Last \in Nat /\ Last <= Batches
  BY <1>1, BatchesTypes
<1>3. n \in 0..Batches /\ n \in Nat
  BY <1>2
<1>4. Start(n) \in Nat /\ Rest(n) \in Nat
  BY <1>1, <1>3, OffTypes
<1>5. ASSUME NEW x \in 1..Len(chan), off + x <= Rest(n) + 2
      PROVE  chan[x] = MessageItem(n, off + x)
  <2>1. off + x \in 1..(Rest(n) + 2) /\ (Start(n) + (off + x)) - (Start(n) + off) = x
    BY <1>1, <1>4, <1>5
  <2> QED
    BY <1>3, <2>1 DEF Carries
<1> QED
  BY <1>5

(* recvn() in the loop's head: the header of message n, all of it, or a    *)
(* part of it or nothing at all from a sender that was killed.             *)
LEMMA HeaderFound ==
  ASSUME TypeOK, Control, NEW n \in 0..Last, InStep(n), rpc = "header", Receive(2)
  PROVE  \/ /\ Len(chan) >= 2 /\ Len(chan') = Len(chan) - 2
            /\ buff'[1] = Magic /\ buff'[2] = Length(Rest(n))
            /\ Carries(chan', Start(n) + 2)
         \/ /\ spc = "killed" /\ ~tls /\ chan' = << >>
            /\ buff'[2] = buff[2]
         \/ spc = "killed" /\ buff'[1] # Magic
<1>1. /\ size \in Sizes /\ Len(chan) \in Nat /\ n \in Nat /\ Rest(n) \in Nat /\ Start(n) \in Nat
  <2>1. size \in Sizes /\ Len(chan) \in Nat
    BY LenProperties DEF TypeOK
  <2>2. n \in Nat
    BY <2>1, BatchesTypes
  <2> QED
    BY <2>1, <2>2, OffTypes
<1>2. Carries(chan, Start(n) + 0) /\ Carries(chan, Start(n))
  <2>1. Pos(n) = Start(n) /\ Start(n) + 0 = Start(n)
    BY <1>1 DEF Pos
  <2> QED
    BY <2>1 DEF InStep
<1>3. CASE Len(chan) >= 2
  <2>1. Least(2, Len(chan)) = 2
    <3>1. \A c \in Nat : c >= 2 => Least(2, c) = 2
      BY DEF Least
    <3> QED
      BY <1>1, <1>3, <3>1
  <2>2. /\ Len(chan') = Len(chan) - 2 /\ Carries(chan', Start(n) + 2)
        /\ buff'[1] = chan[1] /\ buff'[2] = chan[2]
    BY <1>1, <1>2, <2>1, ReceiveWrites
  <2>3. chan[1] = MessageItem(n, 0 + 1) /\ chan[2] = MessageItem(n, 0 + 2)
    BY <1>1, <1>2, <1>3, NextItems
  <2>4. chan[1] = Magic /\ chan[2] = Length(Rest(n))
    BY <2>3 DEF MessageItem, ItemOf
  <2> QED
    BY <1>3, <2>2, <2>4
<1>4. CASE ~(Len(chan) >= 2)
  <2>1. Least(2, Len(chan)) = Len(chan)
    BY <1>1, <1>4 DEF Least
  <2>2. /\ Len(chan') = 0 /\ chan' \in Seq(Items) /\ SenderClosed
        /\ buff'[1] = IF Len(chan) >= 1 THEN chan[1] ELSE buff[1]
        /\ buff'[2] = buff[2]
    BY <1>1, <1>4, <2>1, ReceiveWrites
  <2>3. chan' = << >>
    BY <2>2, EmptySeq
  <2>4. spc = "killed" /\ (tls => Len(chan) = 0)
    BY <1>1, <1>4, <2>2, Comes
  <2>5. CASE Len(chan) = 0
    BY <2>2, <2>4, <2>5 DEF InStep
  <2>6. CASE Len(chan) # 0
    BY <2>2, <2>3, <2>4, <2>6
  <2> QED
    BY <2>5, <2>6
<1> QED
  BY <1>3, <1>4

(* recvn() of a batch: its bytes, or the rest that a killed sender left.   *)
LEMMA DataFound ==
  ASSUME TypeOK, Control, NEW n \in 0..Last, InStep(n), rpc = "data", Receive(need)
  PROVE  /\ need \in Nat /\ need > 0 /\ need = Rest(n) /\ n < Last
         /\ buff'[1] # Magic \/ (buff'[2] = Length(need) /\ Len(chan) < need)
         /\ buff'[2] = Length(need) \/ buff'[2][1] = "content"
         /\ \/ /\ Len(chan) >= need /\ Len(chan') = Len(chan) - need
               /\ Len(Taken(need)) = need /\ Taken(need) \in Seq(Items)
               /\ \A x \in 1..need : Taken(need)[x] = Content(Off(n) + x)
               /\ Carries(chan', Start(n + 1))
            \/ /\ Len(chan) < need /\ chan' = << >>
               /\ spc = "killed" /\ ~tls
<1>1. /\ size \in Sizes /\ Len(chan) \in Nat /\ n \in Nat /\ Rest(n) \in Nat /\ Start(n) \in Nat
      /\ Start(n + 1) = Start(n) + (Rest(n) + 2) /\ Off(n) \in Nat
  <2>1. size \in Sizes /\ Len(chan) \in Nat
    BY LenProperties DEF TypeOK
  <2>2. n \in Nat
    BY <2>1, BatchesTypes
  <2> QED
    BY <2>1, <2>2, OffTypes
<1>2. /\ need \in Nat /\ need = Rest(n) /\ n < Last
      /\ buff[1] = Magic /\ buff[2] = Length(need)
  BY DEF InStep, TypeOK
<1>3. need > 0
  <2>1. n \in 0..(Last - 1)
    BY <1>1, <1>2, BatchesTypes
  <2> QED
    BY <1>1, <1>2, <2>1, LastIsEmpty
<1>4. Carries(chan, Start(n) + 2)
  BY DEF InStep, Pos
<1>5. ASSUME NEW x \in 1..Len(chan), x <= need
      PROVE  chan[x] = Content(Off(n) + x)
  <2>1. 2 + x <= Rest(n) + 2 /\ (2 + x) - 2 = x /\ 2 + x # 1 /\ 2 + x # 2
    BY <1>1, <1>2, <1>5
  <2>2. chan[x] = MessageItem(n, 2 + x)
    BY <1>4, <2>1, NextItems
  <2> QED
    BY <2>1, <2>2 DEF MessageItem, ItemOf
<1> DEFINE k == Least(need, Len(chan))
<1>6. /\ k \in 0..Len(chan) /\ k <= need
      /\ (Len(chan) >= need \/ SenderClosed)
      /\ chan' \in Seq(Items) /\ Len(chan') = Len(chan) - k
      /\ Carries(chan', (Start(n) + 2) + k)
      /\ buff'[1] = (IF k >= 1 THEN chan[1] ELSE buff[1])
      /\ buff'[2] = (IF k >= 2 THEN chan[2] ELSE buff[2])
      /\ Taken(need) \in Seq(Items) /\ Len(Taken(need)) = k
      /\ \A x \in 1..k : Taken(need)[x] = chan[x]
  <2>1. Start(n) + 2 \in Nat
    BY <1>1
  <2> QED
    BY <1>2, <1>4, <2>1, ReceiveWrites
<1>7. k = need \/ (k = Len(chan) /\ Len(chan) < need)
  BY <1>1, <1>2 DEF Least
<1> HIDE DEF k
<1>8. k >= 1 => buff'[1] # Magic
  <2>1. k >= 1 => 1 \in 1..Len(chan) /\ 1 <= need
    BY <1>1, <1>2, <1>6, SMTT(30)
  <2>2. k >= 1 => chan[1] = Content(Off(n) + 1)
    BY <1>5, <2>1
  <2> QED
    BY <1>6, <2>2 DEF Content, Magic
<1>9. buff'[2] = Length(need) \/ buff'[2][1] = "content"
  <2>1. k >= 2 => 2 \in 1..Len(chan) /\ 2 <= need
    BY <1>1, <1>2, <1>6, SMTT(30)
  <2>2. k >= 2 => chan[2] = Content(Off(n) + 2)
    BY <1>5, <2>1
  <2> QED
    BY <1>2, <1>6, <2>2 DEF Content
<1>10. CASE k = need
  <2>1. Len(chan) >= need /\ Len(chan') = Len(chan) - need /\ k >= 1
    BY <1>1, <1>2, <1>3, <1>6, <1>10
  <2>2. \A x \in 1..need : x \in 1..k /\ x \in 1..Len(chan) /\ x <= need
    BY <1>1, <1>2, <1>10, <2>1
  <2>3. \A x \in 1..need : Taken(need)[x] = Content(Off(n) + x)
    BY <1>5, <1>6, <2>2
  <2>4. (Start(n) + 2) + k = Start(n + 1)
    BY <1>1, <1>2, <1>10
  <2>5. Carries(chan', Start(n + 1))
    BY <1>6, <2>4
  <2> QED
    BY <1>2, <1>3, <1>6, <1>8, <1>9, <1>10, <2>1, <2>3, <2>5
<1>11. CASE k = Len(chan) /\ Len(chan) < need
  <2>1. Len(chan') = 0
    BY <1>1, <1>6, <1>11
  <2>2. chan' = << >>
    BY <1>6, <2>1, EmptySeq
  <2>3. SenderClosed
    BY <1>1, <1>2, <1>6, <1>11
  <2>4. Len(chan) + 2 >= Rest(n) + 2 \/ (spc = "killed" /\ (tls => Len(chan) + 2 = 0))
    BY <2>3, Comes
  <2>5. spc = "killed" /\ ~tls
    BY <1>1, <1>2, <1>11, <2>4
  <2>6. k = 0 => buff'[2] = Length(need)
    BY <1>2, <1>6
  <2>7. buff'[1] # Magic \/ buff'[2] = Length(need)
    BY <1>1, <1>6, <1>8, <1>11, <2>6
  <2> QED
    BY <1>2, <1>3, <1>9, <1>11, <2>2, <2>5, <2>7
<1> QED
  BY <1>7, <1>10, <1>11

-----------------------------------------------------------------------------
(* Every step keeps the stream.                                            *)

LEMMA StreamNext ==
  ASSUME size' = size, NEW n \in 0..Last, file' = SubSeq(Whole, 1, Off(n)),
         InStep(n)' \/ Dry' \/ Stopped'
  PROVE  Stream'
<1>1. n \in 0..Last' /\ file' = SubSeq(Whole', 1, Off(n)')
  BY Fixed
<1> QED
  BY <1>1 DEF Stream

(* One of the two goes on, and neither sends nor receives.                 *)
LEMMA InStepKept ==
  ASSUME TypeOK, NEW n \in 0..Last, InStep(n), UNCHANGED <<size, tls, chan, need, buff, i>>,
         \/ rpc' = rpc
         \/ rpc = "reply" /\ rpc' = "header"
         \/ rpc = "done" /\ rpc' = "closed",
         \/ spc' = spc
         \/ spc = "reply" /\ spc' = "sending"
         \/ spc = "finished" /\ spc' = "closed"
         \/ spc' = "exit"
  PROVE  InStep(n)'
<1>1. n \in Nat
  BY BatchesTypes DEF TypeOK
<1>2. Pos(n) = Start(n) + (IF rpc' \in {"data", "done", "closed"} THEN 2 ELSE 0)
  BY DEF Pos
<1>3. /\ rpc' \in {"reply", "header"} => rpc \in {"reply", "header"}
      /\ rpc' = "data" => rpc = "data"
      /\ Done' => Done
      /\ spc' \in {"reply", "sending"} => spc \in {"reply", "sending"}
      /\ Finished' => Finished
      /\ spc' = "killed" => spc = "killed"
  BY DEF Done, Finished
<1> DEFINE pos == Pos(n)
<1>4. /\ rpc' \in {"reply", "header"} =>
           /\ buff'[1] # Magic
           /\ buff'[2][1] = "length" => buff'[2][2] > 0
      /\ rpc' = "data" => /\ n < Last /\ need' = Rest(n)
                          /\ buff'[1] = Magic /\ buff'[2] = Length(need')
      /\ Done' => n = Last
      /\ Carries(chan', pos)
      /\ spc' \in {"reply", "sending"} => pos + Len(chan') = Start(i')
      /\ Finished' => pos + Len(chan') = Start(Batches + 1)
      /\ spc' = "killed" /\ tls' =>
           \E m \in 0..(Batches + 1) : pos + Len(chan') = Start(m)
  BY <1>3 DEF InStep
<1> HIDE DEF pos
<1>5. pos = Start(n) + (IF rpc' \in {"data", "done", "closed"} THEN 2 ELSE 0)
  BY <1>2 DEF pos
<1> QED
  BY <1>1, <1>4, <1>5, InStepNext

(* The sender sends a message, or a part of it before it is killed.        *)
LEMMA InStepSent ==
  ASSUME TypeOK, Control, NEW n \in 0..Last, InStep(n), spc \in {"reply", "sending"},
         NEW l \in Nat, l <= Rest(i) + 2, chan' = chan \o SubSeq(NextMessage, 1, l),
         UNCHANGED <<size, tls, rpc, need, buff>>,
         \/ spc' = "sending" /\ l = Rest(i) + 2 /\ i' = i + 1
         \/ spc' = "finished" /\ l = Rest(i) + 2 /\ i = Batches
         \/ spc' = "killed" /\ (tls => l = 0 \/ l = Rest(i) + 2)
  PROVE  InStep(n)'
<1>1. size \in Sizes /\ Batches \in Nat /\ n \in Nat /\ i \in 0..Batches /\ i \in Nat
  BY BatchesTypes DEF TypeOK, Control
<1>2. /\ Start(n) \in Nat /\ Start(i) \in Nat /\ Rest(i) \in Nat
      /\ Start(i + 1) = Start(i) + (Rest(i) + 2)
  BY <1>1, OffTypes
<1> DEFINE pos == Pos(n)
<1>3. pos \in Nat /\ Carries(chan, pos) /\ pos + Len(chan) = Start(i)
  <2>1. pos \in Nat
    BY <1>2 DEF Pos
  <2>2. Carries(chan, pos) /\ pos + Len(chan) = Start(i)
    BY DEF InStep
  <2> QED
    BY <2>1, <2>2
<1>4. pos = Start(n) + (IF rpc' \in {"data", "done", "closed"} THEN 2 ELSE 0)
  BY DEF Pos
<1> HIDE DEF pos
<1>5. Carries(chan', pos) /\ Len(chan') = Len(chan) + l
  <2>1. IsStream(chan)
    BY DEF TypeOK, IsStream
  <2> QED
    BY <1>1, <1>3, <2>1, CarriesMore
<1>6. pos + Len(chan') = Start(i) + l
  <2>1. Len(chan) \in Nat
    BY LenProperties DEF TypeOK
  <2> QED
    BY <1>3, <1>5, <2>1
<1>7. /\ l = 0 => pos + Len(chan') = Start(i)
      /\ l = Rest(i) + 2 => pos + Len(chan') = Start(i + 1)
  BY <1>2, <1>6
<1>8. i \in 0..(Batches + 1) /\ i + 1 \in 0..(Batches + 1)
  BY <1>1
<1>9. /\ rpc' \in {"reply", "header"} =>
           /\ buff'[1] # Magic
           /\ buff'[2][1] = "length" => buff'[2][2] > 0
      /\ rpc' = "data" => /\ n < Last /\ need' = Rest(n)
                          /\ buff'[1] = Magic /\ buff'[2] = Length(need')
      /\ Done' => n = Last
  BY DEF InStep, Done
<1>10. /\ spc' \in {"reply", "sending"} => pos + Len(chan') = Start(i')
       /\ Finished' => pos + Len(chan') = Start(Batches + 1)
       /\ spc' = "killed" /\ tls' =>
            \E m \in 0..(Batches + 1) : pos + Len(chan') = Start(m)
  <2>1. spc' \in {"reply", "sending"} => pos + Len(chan') = Start(i')
    BY <1>7
  <2>2. Finished' => pos + Len(chan') = Start(Batches + 1)
    BY <1>7 DEF Finished
  <2>3. spc' = "killed" /\ tls' =>
            \E m \in 0..(Batches + 1) : pos + Len(chan') = Start(m)
    BY <1>7, <1>8
  <2> QED
    BY <2>1, <2>2, <2>3
<1> QED
  BY <1>1, <1>4, <1>5, <1>9, <1>10, InStepNext

LEMMA HeaderTaken ==
  ASSUME TypeOK, Control, NEW n \in 0..Last, InStep(n), ReceiveHeader
  PROVE  /\ InStep(n)' \/ Dry' \/ Stopped'
         /\ rpc' = "exit" => spc = "killed"
         /\ cut' => ~tls /\ spc = "killed"
<1>1. /\ rpc = "header" /\ Receive(2) /\ UNCHANGED <<tls, dir, size, reply, spc, i, file>>
  BY DEF ReceiveHeader
<1>2. /\ size \in Sizes /\ Len(chan) \in Nat /\ n \in Nat /\ Rest(n) \in Nat /\ Start(n) \in Nat
  <2>1. size \in Sizes /\ Len(chan) \in Nat
    BY LenProperties DEF TypeOK
  <2>2. n \in Nat
    BY <2>1, BatchesTypes
  <2> QED
    BY <2>1, <2>2, OffTypes
<1>3. cut => ~tls /\ spc = "killed"
  BY DEF Control
<1>4. CASE /\ Len(chan) >= 2 /\ Len(chan') = Len(chan) - 2
           /\ buff'[1] = Magic /\ buff'[2] = Length(Rest(n))
           /\ Carries(chan', Start(n) + 2)
  <2>1. buff'[2][1] = "length" /\ buff'[2][2] = Rest(n)
    BY <1>4 DEF Length
  <2>2. /\ need' = Rest(n) /\ cut' = cut
        /\ rpc' = IF Rest(n) = 0 THEN "done" ELSE "data"
    BY <1>4, <2>1 DEF ReceiveHeader
  <2>3. /\ Rest(n) = 0 => n = Last
        /\ Rest(n) # 0 => n < Last
    BY <1>2, BatchesTypes, LastIsEmpty
  <2> DEFINE pos == Start(n) + 2
  <2>4. pos + Len(chan') = Start(n) + Len(chan)
    BY <1>2, <1>4
  <2>5. Pos(n) + Len(chan) = Start(n) + Len(chan)
    BY <1>1, <1>2 DEF Pos
  <2>6. /\ Carries(chan', pos)
        /\ pos = Start(n) + (IF rpc' \in {"data", "done", "closed"} THEN 2 ELSE 0)
    BY <1>4, <2>2
  <2> HIDE DEF pos
  <2>7. /\ spc' \in {"reply", "sending"} => pos + Len(chan') = Start(i')
        /\ Finished' => pos + Len(chan') = Start(Batches + 1)
        /\ spc' = "killed" /\ tls' =>
             \E m \in 0..(Batches + 1) : pos + Len(chan') = Start(m)
    BY <1>1, <2>4, <2>5 DEF InStep, Finished
  <2>8. /\ ~(rpc' \in {"reply", "header"})
        /\ rpc' = "data" => /\ n < Last /\ need' = Rest(n)
                            /\ buff'[1] = Magic /\ buff'[2] = Length(need')
        /\ Done' => n = Last
    BY <1>4, <2>2, <2>3 DEF Done
  <2>9. InStep(n)'
    BY <1>1, <1>2, <2>6, <2>7, <2>8, InStepNext
  <2>10. rpc' # "exit"
    BY <2>2
  <2>11. cut' => ~tls /\ spc = "killed"
    BY <1>3, <2>2, Zenon
  <2> QED
    BY <2>9, <2>10, <2>11
<1>5. CASE /\ spc = "killed" /\ ~tls /\ chan' = << >>
           /\ buff'[2] = buff[2]
  <2>1. spc' = "killed" /\ ~tls'
    BY <1>1, <1>5, Zenon
  <2>2. buff[2][1] = "length" => buff[2][2] > 0
    BY <1>1 DEF InStep
  <2>3. CASE buff'[1] # Magic /\ rpc' = "exit"
    BY <1>5, <2>3 DEF Stopped
  <2>4. CASE /\ buff'[2][1] = "length" /\ need' = buff'[2][2]
             /\ rpc' = IF need' = 0 THEN "done" ELSE "data"
    <3>1. rpc' = "data" /\ need' > 0 /\ buff'[2][2] > 0
      BY <1>5, <2>2, <2>4
    <3>2. Dry'
      BY <1>5, <2>1, <2>4, <3>1 DEF Dry
    <3> QED
      BY <1>5, <3>2
  <2>5. CASE /\ cut' = TRUE /\ need' \in {0, BATCH_SIZE}
             /\ rpc' \in {"exit", IF need' = 0 THEN "done" ELSE "data"}
    <3>1. cut' /\ rpc' # "reply" /\ (rpc' = "data" => need' > 0)
      BY <2>5
    <3>2. Dry'
      BY <1>5, <2>1, <3>1 DEF Dry
    <3> QED
      BY <1>5, <3>2
  <2> QED
    BY <2>3, <2>4, <2>5 DEF ReceiveHeader
<1>6. CASE spc = "killed" /\ buff'[1] # Magic
  <2>1. rpc' = "exit" /\ cut' = cut
    BY <1>6 DEF ReceiveHeader
  <2> QED
    BY <1>3, <1>6, <2>1 DEF Stopped
<1> QED
  BY <1>1, <1>4, <1>5, <1>6, HeaderFound

(* A beginning of the file, byte by byte.                                  *)
LEMMA Beginning ==
  ASSUME size \in Sizes, NEW k \in 0..size
  PROVE  /\ SubSeq(Whole, 1, k) \in Seq(Items) /\ Len(SubSeq(Whole, 1, k)) = k
         /\ \A x \in 1..k : SubSeq(Whole, 1, k)[x] = Content(x)
<1>1. size \in Nat /\ k \in Nat /\ k <= size
  OBVIOUS
<1>2. Whole \in [1..size -> Items] /\ \A x \in 1..size : Whole[x] = Content(x)
  BY <1>1, ItemTypes DEF Whole
<1>3. Whole \in Seq(Items) /\ Len(Whole) = size
  BY <1>1, <1>2, SeqDef
<1>4. \A x \in 1..k : x \in 1..size /\ x \in 1..(k - 1 + 1) /\ (1 + x) - 1 = x
  BY <1>1
<1>5. \A x \in 1..k : Whole[x] \in Items
  BY <1>2, <1>4
<1> DEFINE whole == Whole
           part == SubSeq(whole, 1, k)
<1> HIDE DEF whole
<1>6. /\ part \in Seq(Items) /\ Len(part) = IF 1 <= k THEN k - 1 + 1 ELSE 0
      /\ \A x \in 1..(k - 1 + 1) : part[x] = whole[1 + x - 1]
  <2>1. whole \in Seq(Items) /\ \A x \in 1..k : whole[x] \in Items
    BY <1>3, <1>5 DEF whole
  <2> QED
    BY <1>1, <2>1, SubSeqProperties
<1> HIDE DEF part
<1>7. Len(part) = k
  BY <1>1, <1>6
<1>8. \A x \in 1..k : part[x] = Content(x)
  BY <1>2, <1>4, <1>6 DEF whole
<1> QED
  BY <1>6, <1>7, <1>8 DEF part, whole

LEMMA Appended ==
  ASSUME size \in Sizes, NEW n \in Nat, file = SubSeq(Whole, 1, Off(n)),
         NEW taken, taken \in Seq(Items), Len(taken) = Rest(n),
         \A x \in 1..Rest(n) : taken[x] = Content(Off(n) + x)
  PROVE  file \o taken = SubSeq(Whole, 1, Off(n + 1))
<1> DEFINE more == file \o taken
           longer == SubSeq(Whole, 1, Off(n + 1))
<1>1. /\ size \in Nat /\ Off(n) \in 0..size /\ Rest(n) \in Nat
      /\ Off(n + 1) = Off(n) + Rest(n) /\ Off(n + 1) \in 0..size
  <2>1. n + 1 \in Nat
    OBVIOUS
  <2> QED
    BY <2>1, OffTypes
<1>2. /\ file \in Seq(Items) /\ Len(file) = Off(n)
      /\ \A x \in 1..Off(n) : file[x] = Content(x)
  BY <1>1, Beginning
<1>3. /\ longer \in Seq(Items) /\ Len(longer) = Off(n + 1)
      /\ \A x \in 1..Off(n + 1) : longer[x] = Content(x)
  BY <1>1, Beginning
<1>4. /\ more \in Seq(Items) /\ Len(more) = Off(n) + Rest(n)
      /\ \A x \in 1..(Off(n) + Rest(n)) :
           more[x] = IF x <= Off(n) THEN file[x] ELSE taken[x - Off(n)]
  <2>1. /\ more \in Seq(Items) /\ Len(more) = Len(file) + Len(taken)
        /\ \A x \in 1..(Len(file) + Len(taken)) :
             more[x] = IF x <= Len(file) THEN file[x] ELSE taken[x - Len(file)]
    BY <1>2, ConcatProperties
  <2> HIDE DEF more
  <2> QED
    BY <1>2, <2>1
<1> HIDE DEF more, longer
<1>5. ASSUME NEW x \in 1..Off(n + 1) PROVE more[x] = Content(x)
  <2>1. x \in 1..(Off(n) + Rest(n)) /\ x \in Nat
    BY <1>1
  <2>2. CASE x <= Off(n)
    <3>1. x \in 1..Off(n)
      BY <1>1, <2>1, <2>2
    <3> QED
      BY <1>2, <1>4, <2>1, <2>2, <3>1
  <2>3. CASE ~(x <= Off(n))
    <3>1. x - Off(n) \in 1..Rest(n) /\ Off(n) + (x - Off(n)) = x
      BY <1>1, <2>1, <2>3
    <3>2. taken[x - Off(n)] = Content(Off(n) + (x - Off(n)))
      BY <3>1
    <3> QED
      BY <1>4, <2>1, <2>3, <3>1, <3>2
  <2> QED
    BY <2>2, <2>3
<1>6. Len(more) = Len(longer) /\ \A x \in 1..Len(more) : more[x] = longer[x]
  BY <1>1, <1>3, <1>4, <1>5
<1>7. more = longer
  BY <1>3, <1>4, <1>6, SeqEqual
<1> QED
  BY <1>7 DEF more, longer

LEMMA DataTaken ==
  ASSUME TypeOK, Control, NEW n \in 0..Last, InStep(n), ReceiveData,
         file = SubSeq(Whole, 1, Off(n))
  PROVE  Stream'
<1>1. /\ rpc = "data" /\ rpc' = "header" /\ Receive(need)
      /\ UNCHANGED <<tls, dir, size, reply, spc, i, need, cut>>
  BY DEF ReceiveData
<1>2. /\ size \in Sizes /\ Len(chan) \in Nat /\ n \in Nat /\ Rest(n) \in Nat /\ Start(n) \in Nat
      /\ Start(n + 1) = Start(n) + (Rest(n) + 2) /\ n + 1 \in Nat /\ Last \in Nat
  <2>1. size \in Sizes /\ Len(chan) \in Nat
    BY LenProperties DEF TypeOK
  <2>2. n \in Nat /\ n + 1 \in Nat /\ Last \in Nat
    BY <2>1, BatchesTypes
  <2> QED
    BY <2>1, <2>2, OffTypes
<1>3. /\ need \in Nat /\ need > 0 /\ need = Rest(n) /\ n < Last
      /\ buff'[1] # Magic \/ (buff'[2] = Length(need) /\ Len(chan) < need)
      /\ buff'[2] = Length(need) \/ buff'[2][1] = "content"
  BY <1>1, DataFound
<1>4. buff'[2][1] = "length" => buff'[2][2] > 0
  BY <1>3 DEF Length
<1>5. CASE /\ Len(chan) >= need /\ Len(chan') = Len(chan) - need
           /\ Len(Taken(need)) = need /\ Taken(need) \in Seq(Items)
           /\ \A x \in 1..need : Taken(need)[x] = Content(Off(n) + x)
           /\ Carries(chan', Start(n + 1))
  <2>1. file' = SubSeq(Whole, 1, Off(n + 1))
    <3>1. file' = file \o Taken(need)
      BY <1>5 DEF ReceiveData
    <3> QED
      BY <1>2, <1>3, <1>5, <3>1, Appended
  <2> DEFINE pos == Start(n + 1)
  <2>2. /\ Carries(chan', pos)
        /\ pos = Start(n + 1) + (IF rpc' \in {"data", "done", "closed"} THEN 2 ELSE 0)
    <3>1. Start(n + 1) \in Nat
      BY <1>2
    <3> QED
      BY <1>1, <1>5, <3>1
  <2>3. pos + Len(chan') = Pos(n) + Len(chan)
    BY <1>1, <1>2, <1>3, <1>5 DEF Pos
  <2> HIDE DEF pos
  <2>4. /\ spc' \in {"reply", "sending"} => pos + Len(chan') = Start(i')
        /\ Finished' => pos + Len(chan') = Start(Batches + 1)
        /\ spc' = "killed" /\ tls' =>
             \E m \in 0..(Batches + 1) : pos + Len(chan') = Start(m)
    BY <1>1, <2>3 DEF InStep, Finished
  <2>5. buff'[1] # Magic
    BY <1>2, <1>3, <1>5
  <2>6. rpc' # "data" /\ ~Done'
    BY <1>1 DEF Done
  <2>7. InStep(n + 1)'
    BY <1>1, <1>2, <1>4, <2>2, <2>4, <2>5, <2>6, InStepNext
  <2>8. n + 1 \in 0..Last
    BY <1>2, <1>3
  <2> QED
    BY <1>1, <2>1, <2>7, <2>8, StreamNext
<1>6. CASE /\ Len(chan) < need /\ chan' = << >>
           /\ spc = "killed" /\ ~tls
  <2>1. spc' = "killed" /\ ~tls'
    BY <1>1, <1>6, Zenon
  <2>2. file' = file
    <3>1. ~(Len(chan) >= need)
      BY <1>2, <1>3, <1>6
    <3> QED
      BY <3>1 DEF ReceiveData
  <2>3. buff'[1] = Magic => buff'[2][1] = "length" /\ buff'[2][2] > 0
    BY <1>3 DEF Length
  <2>4. Dry'
    BY <1>1, <1>6, <2>1, <2>3 DEF Dry
  <2> QED
    BY <1>1, <2>2, <2>4, StreamNext
<1> QED
  BY <1>1, <1>5, <1>6, DataFound

(* recvn() returns 0, and the receiver goes on with what its buffer holds. *)
LEMMA DryTaken ==
  ASSUME TypeOK, Control, Dry, ReceiveHeader \/ ReceiveData
  PROVE  /\ Dry' /\ file' = file
         /\ cut' => ~tls /\ spc = "killed"
<1>1. chan = << >> /\ Len(chan) = 0 /\ spc = "killed" /\ ~tls
  BY DEF Dry
<1>2. ASSUME NEW n \in Nat, Receive(n)
      PROVE  chan' = << >> /\ buff'[1] = buff[1] /\ buff'[2] = buff[2]
  <2>1. Least(n, Len(chan)) = 0
    BY <1>1 DEF Least
  <2>2. chan' \in Seq(Items) /\ Len(chan') = Len(chan) - Least(n, Len(chan))
        /\ buff'[1] = (IF Least(n, Len(chan)) >= 1 THEN chan[1] ELSE buff[1])
        /\ buff'[2] = (IF Least(n, Len(chan)) >= 2 THEN chan[2] ELSE buff[2])
    BY <1>2, ReceiveWrites
  <2>3. Len(chan') = 0 /\ buff'[1] = buff[1] /\ buff'[2] = buff[2]
    BY <1>1, <2>1, <2>2
  <2> QED
    BY <2>2, <2>3, EmptySeq
<1>3. buff[1] = Magic /\ rpc \in {"header", "data"} =>
        cut \/ (buff[2][1] = "length" /\ buff[2][2] > 0)
  BY DEF Dry
<1>4. CASE ReceiveHeader
  <2>1. rpc = "header" /\ Receive(2) /\ UNCHANGED <<tls, spc, file>>
    BY <1>4 DEF ReceiveHeader
  <2>2. chan' = << >> /\ buff'[1] = buff[1] /\ buff'[2] = buff[2]
    BY <1>2, <2>1
  <2>3. spc' = "killed" /\ ~tls'
    BY <1>1, <2>1, Zenon
  <2>4. CASE buff'[1] # Magic /\ rpc' = "exit"
    <3>1. Dry'
      BY <2>2, <2>3, <2>4 DEF Dry
    <3> QED
      BY <1>1, <2>1, <3>1
  <2>5. CASE /\ buff'[1] = Magic /\ cut' = cut
             /\ buff'[2][1] = "length" /\ need' = buff'[2][2]
             /\ rpc' = IF need' = 0 THEN "done" ELSE "data"
    <3>1. cut' \/ need' > 0
      BY <1>3, <2>1, <2>2, <2>5
    <3>2. /\ rpc' \in {"done", "data"}
          /\ rpc' = "data" => need' # 0
          /\ rpc' = "done" => need' = 0
      BY <2>5
    <3>3. need' \in Nat
      <4>1. buff'[2] \in Items
        BY <2>2 DEF TypeOK
      <4> QED
        BY <2>5, <4>1 DEF Items
    <3>4. (rpc' = "data" => need' > 0) /\ (rpc' = "done" => cut')
      BY <3>1, <3>2, <3>3
    <3>5. Dry'
      BY <2>2, <2>3, <2>5, <3>1, <3>2, <3>4 DEF Dry
    <3> QED
      BY <1>1, <2>1, <3>5
  <2>6. CASE /\ cut' = TRUE /\ need' \in {0, BATCH_SIZE}
             /\ rpc' \in {"exit", IF need' = 0 THEN "done" ELSE "data"}
    <3>1. cut' /\ rpc' # "reply" /\ (rpc' = "data" => need' > 0)
      BY <2>6
    <3>2. Dry'
      BY <2>2, <2>3, <3>1 DEF Dry
    <3> QED
      BY <1>1, <2>1, <3>2
  <2> QED
    BY <1>4, <2>4, <2>5, <2>6 DEF ReceiveHeader
<1>5. CASE ReceiveData
  <2>1. /\ rpc = "data" /\ rpc' = "header" /\ Receive(need)
        /\ UNCHANGED <<tls, spc, need, cut>>
    BY <1>5 DEF ReceiveData
  <2>2. need \in Nat /\ need > 0
    BY <2>1 DEF Dry, TypeOK
  <2>3. chan' = << >> /\ buff'[1] = buff[1] /\ buff'[2] = buff[2]
    BY <1>2, <2>1, <2>2
  <2>4. ~(Len(chan) >= need)
    BY <1>1, <2>2
  <2>5. file' = file
    BY <1>5, <2>4 DEF ReceiveData
  <2>6. spc' = "killed" /\ ~tls' /\ (cut <=> cut')
    BY <1>1, <2>1, Zenon
  <2>7. Dry'
    BY <1>3, <2>1, <2>3, <2>6 DEF Dry
  <2> QED
    BY <1>1, <2>5, <2>7
<1> QED
  BY <1>4, <1>5

LEMMA StreamKept ==
  ASSUME TypeOK, Control, Stream, [Next]_vars
  PROVE  Stream'
<1>1. PICK n \in 0..Last : /\ file = SubSeq(Whole, 1, Off(n))
                           /\ InStep(n) \/ Dry \/ Stopped
  BY DEF Stream
<1>2. rpc \in {"header", "data"} => ~Stopped
  BY DEF Stopped
<1>3. /\ spc \in {"reply", "sending", "finished"} => ~Dry
      /\ rpc = "reply" => ~Dry
  BY DEF Dry
<1>4. CASE SendReply \/ ReadReply
  <2>1. /\ UNCHANGED <<size, tls, chan, need, buff, i, file>>
        /\ \/ rpc' = rpc
           \/ rpc = "reply" /\ rpc' = "header"
           \/ rpc = "reply" /\ rpc' = "exit"
        /\ \/ spc' = spc
           \/ spc = "reply" /\ spc' = "sending"
           \/ spc = "reply" /\ spc' = "exit"
        /\ Stopped => rpc' = rpc
        /\ rpc = "reply" \/ spc = "reply"
    BY <1>4 DEF SendReply, ReadReply, Stopped
  <2>2. CASE Stopped \/ rpc' = "exit"
    <3>1. Stopped'
      BY <2>1, <2>2 DEF Stopped
    <3> QED
      BY <1>1, <2>1, <3>1, StreamNext
  <2>3. CASE ~Stopped /\ rpc' # "exit"
    <3>1. InStep(n)
      BY <1>1, <1>3, <2>1, <2>3
    <3>2. InStep(n)'
      BY <2>1, <2>3, <3>1, InStepKept
    <3> QED
      BY <1>1, <2>1, <3>2, StreamNext
  <2> QED
    BY <2>2, <2>3
<1>5. CASE SendBatch \/ SendTerminator
  <2>1. /\ spc = "sending" /\ UNCHANGED <<size, tls, rpc, need, buff, file>>
        /\ chan' = chan \o NextMessage
        /\ \/ spc' = "sending" /\ i' = i + 1
           \/ spc' = "finished" /\ i = Batches
    <3>1. i \in 0..Batches /\ size \in Sizes
      BY DEF Control, TypeOK
    <3>2. Batches \in Nat
      BY <3>1, BatchesTypes
    <3> QED
      BY <1>5, <3>1, <3>2, NextMessageItems, SMTT(30) DEF SendBatch, SendTerminator
  <2>2. CASE Stopped
    <3>1. Stopped'
      BY <2>1, <2>2 DEF Stopped
    <3> QED
      BY <1>1, <2>1, <3>1, StreamNext
  <2>3. CASE ~Stopped
    <3>1. InStep(n)
      BY <1>1, <1>3, <2>1, <2>3
    <3>2. PICK l \in Nat : l = Rest(i) + 2
      <4>1. Rest(i) \in Nat
        BY OffTypes DEF TypeOK
      <4> QED
        BY <4>1
    <3>3. SubSeq(NextMessage, 1, l) = NextMessage
      <4>1. NextMessage \in Seq(Items) /\ Len(NextMessage) = l
        BY <3>2, NextMessageItems DEF TypeOK, Control
      <4> QED
        BY <4>1, SubSeqFull
    <3>4. l <= Rest(i) + 2
      BY <3>2
    <3>5. InStep(n)'
      BY <2>1, <3>1, <3>2, <3>3, <3>4, InStepSent
    <3> QED
      BY <1>1, <2>1, <3>5, StreamNext
  <2> QED
    BY <2>2, <2>3
<1>6. CASE SendFails \/ SenderShuts \/ ReceiverShuts \/ UNCHANGED vars
  <2>1. /\ UNCHANGED <<size, tls, chan, need, buff, i, file, cut>>
        /\ \/ rpc' = rpc
           \/ rpc = "done" /\ rpc' = "closed"
        /\ \/ spc' = spc
           \/ spc = "finished" /\ spc' = "closed"
           \/ spc \in {"sending", "finished"} /\ spc' = "exit"
    BY <1>6 DEF SendFails, SenderShuts, ReceiverShuts, vars
  <2>2. Stopped => Stopped'
    BY <2>1 DEF Stopped
  <2>3. Dry => Dry'
    <3>1. ASSUME Dry PROVE Dry'
      <4>1. /\ spc' = "killed" /\ ~tls' /\ chan' = << >> /\ rpc' # "reply"
            /\ rpc' \in {"header", "data"} => rpc = rpc'
        BY <2>1, <3>1 DEF Dry
      <4>2. /\ rpc' \in {"header", "data"} /\ buff'[1] = Magic =>
                 cut \/ (buff'[2][1] = "length" /\ buff'[2][2] > 0)
            /\ rpc' = "data" => need' > 0
            /\ rpc' = "done" => cut
        BY <2>1, <3>1, <4>1 DEF Dry
      <4>3. cut <=> cut'
        BY <2>1, Zenon
      <4> QED
        BY <4>1, <4>2, <4>3 DEF Dry
    <3> QED
      BY <3>1
  <2>4. InStep(n) => InStep(n)'
    BY <2>1, InStepKept
  <2> QED
    BY <1>1, <2>1, <2>2, <2>3, <2>4, StreamNext
<1>7. CASE ReceiveHeader \/ ReceiveData
  <2>1. rpc \in {"header", "data"} /\ size' = size
    BY <1>7 DEF ReceiveHeader, ReceiveData
  <2>2. CASE Dry
    BY <1>1, <1>7, <2>1, <2>2, DryTaken, StreamNext
  <2>3. CASE InStep(n) /\ ReceiveHeader
    <3>1. file' = file
      BY <2>3 DEF ReceiveHeader
    <3> QED
      BY <1>1, <2>1, <2>3, <3>1, HeaderTaken, StreamNext
  <2>4. CASE InStep(n) /\ ReceiveData
    BY <1>1, <2>4, DataTaken
  <2> QED
    BY <1>1, <1>2, <1>7, <2>1, <2>2, <2>3, <2>4
<1>8. CASE ReceiveFails \/ KillReceiver
  <2>1. Stopped' /\ UNCHANGED <<size, file>>
    BY <1>8 DEF ReceiveFails, KillReceiver, Stopped
  <2> QED
    BY <1>1, <2>1, StreamNext
<1>9. CASE KillSender
  <2>1. PICK l \in (IF spc = "sending" THEN CutAt(NextMessage) ELSE {0}) :
          chan' = chan \o SubSeq(NextMessage, 1, l)
    BY <1>9 DEF KillSender
  <2>2. /\ spc \in {"reply", "sending"} /\ spc' = "killed"
        /\ UNCHANGED <<tls, size, rpc, need, buff, file>>
    BY <1>9 DEF KillSender
  <2>3. CASE Stopped
    <3>1. Stopped'
      BY <2>2, <2>3 DEF Stopped
    <3> QED
      BY <1>1, <2>2, <3>1, StreamNext
  <2>4. CASE ~Stopped
    <3>1. InStep(n)
      BY <1>1, <1>3, <2>2, <2>4
    <3>2. Len(NextMessage) = Rest(i) + 2 /\ Rest(i) \in Nat
      BY NextMessageItems, OffTypes DEF TypeOK, Control
    <3>3. l \in Nat /\ l <= Rest(i) + 2 /\ (tls => l = 0 \/ l = Rest(i) + 2)
      BY <2>1, <3>2 DEF CutAt
    <3>4. InStep(n)'
      BY <2>1, <2>2, <3>1, <3>3, InStepSent
    <3> QED
      BY <1>1, <2>2, <3>4, StreamNext
  <2> QED
    BY <2>3, <2>4
<1> QED
  BY <1>4, <1>5, <1>6, <1>7, <1>8, <1>9 DEF Next, Sender, Receiver

-----------------------------------------------------------------------------
(* Every step keeps what the two ends know of each other.                  *)

(* A sender that still has something to send finds the receiver there.     *)
LEMMA NotDoneWhileSending ==
  ASSUME TypeOK, Control, Stream, spc = "sending", Done
  PROVE  chan = << >> /\ reply = "read"
<1>1. PICK n \in 0..Last : InStep(n)
  BY DEF Stream, Dry, Stopped, Done
<1>2. n = Last /\ Pos(n) = Start(n) + 2 /\ Pos(n) + Len(chan) = Start(i)
  BY <1>1 DEF InStep, Pos, Done
<1>3. /\ size \in Sizes /\ i \in 0..Batches /\ Batches \in Nat /\ Last \in Nat
      /\ Batches <= Last + 1 /\ i \in Nat /\ Len(chan) \in Nat
  <2>1. size \in Sizes /\ i \in 0..Batches /\ i \in Nat /\ Len(chan) \in Nat
    BY LenProperties DEF Control, TypeOK
  <2> QED
    BY <2>1, BatchesTypes
<1>4. /\ Start(Last) \in Nat /\ Rest(Last) = 0 /\ Start(i) \in Nat
      /\ Start(Last + 1) = Start(Last) + (Rest(Last) + 2)
  BY <1>3, OffTypes, LastIsEmpty
<1>5. ~(i <= Last)
  <2>1. i < Last => Start(i + 1) <= Start(Last)
    BY <1>3, StartsApart
  <2>2. i = Last => Start(i) = Start(Last)
    OBVIOUS
  <2>3. Start(i + 1) = Start(i) + (Rest(i) + 2) /\ Rest(i) \in Nat
    BY <1>3, OffTypes
  <2> QED
    BY <1>2, <1>3, <1>4, <2>1, <2>2, <2>3
<1>6. i = Last + 1
  BY <1>3, <1>5
<1>7. Len(chan) = 0
  BY <1>2, <1>3, <1>4, <1>6
<1>8. chan = << >>
  BY <1>7, EmptySeq DEF TypeOK
<1> QED
  BY <1>8 DEF Control, TypeOK, Done

(* The last batch, without bytes, is taken for the terminator.             *)
LEMMA OneTerminatorStays ==
  ASSUME TypeOK, Control, Stream, Finished, Done
  PROVE  LeftOver /\ (chan # << >> => size % BATCH_SIZE = 0)
<1>1. PICK n \in 0..Last : InStep(n)
  BY DEF Stream, Dry, Stopped, Done, Finished
<1>2. /\ n = Last /\ Pos(n) = Start(n) + 2 /\ Pos(n) + Len(chan) = Start(Batches + 1)
      /\ Carries(chan, Start(n) + 2)
  BY <1>1 DEF InStep, Pos, Done
<1>3. /\ size \in Sizes /\ Batches \in Nat /\ Last \in Nat /\ Len(chan) \in Nat
      /\ chan \in Seq(Items)
  <2>1. size \in Sizes /\ Len(chan) \in Nat /\ chan \in Seq(Items)
    BY LenProperties DEF TypeOK
  <2> QED
    BY <2>1, BatchesTypes
<1>4. /\ Start(Last) \in Nat /\ Rest(Last) = 0 /\ Rest(Batches) = 0
      /\ Start(Batches) \in Nat
      /\ Start(Last + 1) = Start(Last) + (Rest(Last) + 2)
      /\ Start(Batches + 1) = Start(Batches) + (Rest(Batches) + 2)
  BY <1>3, OffTypes, LastIsEmpty
<1>5. CASE size % BATCH_SIZE # 0
  <2>1. Last = Batches
    BY <1>5 DEF Last
  <2>2. Len(chan) = 0
    BY <1>2, <1>3, <1>4, <2>1
  <2>3. chan = << >>
    BY <1>3, <2>2, EmptySeq
  <2> QED
    BY <1>5, <2>3 DEF LeftOver
<1>6. CASE size % BATCH_SIZE = 0
  <2>1. Last + 1 = Batches
    BY <1>3, <1>6 DEF Last
  <2>2. Len(chan) = 2
    <3>1. Start(Batches) = Start(n) + 2 /\ Start(n) \in Nat
      BY <1>2, <1>4, <2>1
    <3>2. (Start(n) + 2) + Len(chan) = Start(Batches) + 2
      BY <1>2, <1>4
    <3>3. \A s, c \in Nat : (s + 2) + c = (s + 2) + 2 => c = 2
      OBVIOUS
    <3> QED
      BY <1>3, <3>1, <3>2, <3>3
  <2>3. chan[1] = Magic /\ chan[2] = Length(0)
    <3>1. Batches \in 0..Batches /\ 1 \in 1..(Rest(Batches) + 2) /\ 2 \in 1..(Rest(Batches) + 2)
      BY <1>3, <1>4
    <3>2. /\ (Start(Batches) + 1) - (Start(n) + 2) = 1
          /\ (Start(Batches) + 2) - (Start(n) + 2) = 2
      BY <1>2, <1>3, <1>4, <2>1
    <3>3. chan[1] = MessageItem(Batches, 1) /\ chan[2] = MessageItem(Batches, 2)
      BY <1>2, <2>2, <3>1, <3>2 DEF Carries
    <3> QED
      BY <1>4, <3>3 DEF MessageItem, ItemOf
  <2>4. PICK none \in Nat : none = 0
    OBVIOUS
  <2>5. /\ Message(none, none) \in Seq(Items) /\ Len(Message(none, none)) = none + 2
        /\ \A j \in 1..(none + 2) : Message(none, none)[j] = ItemOf(none, none, j)
    BY MessageProperties
  <2>6. /\ Len(Message(none, none)) = 2
        /\ Message(none, none)[1] = Magic /\ Message(none, none)[2] = Length(none)
    BY <2>4, <2>5 DEF ItemOf
  <2> DEFINE terminator == Message(none, none)
  <2>7. terminator \in Seq(Items) /\ Len(chan) = Len(terminator)
        /\ chan[1] = terminator[1] /\ chan[2] = terminator[2]
    BY <2>2, <2>3, <2>4, <2>5, <2>6
  <2> HIDE DEF terminator
  <2>8. \A j \in 1..Len(chan) : chan[j] = terminator[j]
    <3>1. \A j \in 1..2 : j = 1 \/ j = 2
      OBVIOUS
    <3> QED
      BY <2>2, <2>7, <3>1
  <2>9. chan = terminator
    BY <1>3, <2>7, <2>8, SeqEqual
  <2>10. chan = Message(0, 0)
    BY <2>4, <2>9 DEF terminator
  <2> QED
    BY <1>6, <2>10 DEF LeftOver
<1> QED
  BY <1>5, <1>6

LEMMA ControlKept ==
  ASSUME TypeOK, Control, Stream, [Next]_vars
  PROVE  Control'
<1>1. /\ size \in Sizes /\ i \in 0..Batches /\ Batches \in Nat
      /\ spc = "reply" => i = 0
      /\ Finished => i = Batches
      /\ spc = "closed" \/ rpc = "closed" => tls
      /\ cut => ~tls /\ spc = "killed"
      /\ reply # "read" =>
           (IF dir = "get" THEN rpc ELSE spc) \in {"reply", "exit", "killed"}
      /\ spc = "exit" => \/ rpc = "killed"
                         \/ tls /\ rpc = "closed" /\ size % BATCH_SIZE = 0 /\ i = Batches
      /\ rpc = "exit" => spc = "killed"
  BY BatchesTypes DEF Control, NoFailureAlone, TypeOK
<1>2. size' = size => Batches' = Batches
  BY DEF Batches
<1> USE DEF Finished, Done
<1>3. CASE SendReply
  <2>1. UNCHANGED <<tls, size, i, cut>>
    BY <1>3 DEF SendReply
  <2>2. cut' => ~tls' /\ spc' = "killed"
    <3>1. cut' => cut /\ spc = "killed" /\ ~tls'
      BY <1>1, <2>1, Zenon
    <3>2. spc = "killed" => spc' = "killed"
      BY <1>3 DEF SendReply
    <3> QED
      BY <3>1, <3>2
  <2> QED
    BY <1>1, <1>2, <1>3, <2>1, <2>2 DEF SendReply, Control, NoFailureAlone
<1>4. CASE ReadReply
  <2>1. UNCHANGED <<tls, size, i, cut>>
    BY <1>4 DEF ReadReply
  <2>2. cut' => ~tls' /\ spc' = "killed"
    <3>1. cut' => cut /\ spc = "killed" /\ ~tls'
      BY <1>1, <2>1, Zenon
    <3>2. spc = "killed" => spc' = "killed"
      BY <1>4 DEF ReadReply
    <3> QED
      BY <3>1, <3>2
  <2> QED
    BY <1>1, <1>2, <1>4, <2>1, <2>2 DEF ReadReply, Control, NoFailureAlone, TypeOK
<1>5. CASE SendBatch
  <2>1. /\ UNCHANGED <<tls, dir, size, reply, spc, rpc, cut>> /\ spc = "sending"
        /\ i < Batches /\ i' = i + 1
    BY <1>5 DEF SendBatch
  <2>2. cut' => ~tls' /\ spc' = "killed"
    BY <1>1, <2>1, Zenon
  <2> QED
    BY <1>1, <1>2, <2>1, <2>2 DEF Control, NoFailureAlone
<1>6. CASE SendTerminator
  <2>1. /\ UNCHANGED <<tls, dir, size, reply, i, rpc, cut>> /\ spc = "sending"
        /\ i >= Batches /\ spc' = "finished"
    BY <1>6 DEF SendTerminator
  <2>2. ~cut'
    BY <1>1, <2>1
  <2> QED
    BY <1>1, <1>2, <2>1, <2>2 DEF Control, NoFailureAlone
<1>7. CASE SendFails
  <2>1. /\ UNCHANGED <<tls, dir, size, reply, i, rpc, cut>> /\ spc = "sending"
        /\ ReceiverClosed /\ (chan # << >> \/ reply = "sent") /\ spc' = "exit"
    BY <1>7 DEF SendFails
  <2>2. ~cut'
    BY <1>1, <2>1
  <2>3. rpc = "killed"
    <3>1. ~Done
      BY <2>1, NotDoneWhileSending
    <3> QED
      BY <1>1, <2>1, <3>1 DEF ReceiverClosed
  <2> QED
    BY <1>1, <1>2, <2>1, <2>2, <2>3 DEF Control, NoFailureAlone
<1>8. CASE SenderShuts
  <2>1. /\ UNCHANGED <<tls, dir, size, reply, i, rpc, cut>> /\ spc = "finished" /\ tls
        /\ \/ spc' = "closed"
           \/ ReceiverClosed /\ chan # << >> /\ spc' = "exit"
    BY <1>8 DEF SenderShuts
  <2>2. ~cut'
    BY <1>1, <2>1
  <2>3. spc' = "exit" => \/ rpc = "killed"
                         \/ rpc = "closed" /\ size % BATCH_SIZE = 0
    BY <1>1, <2>1, OneTerminatorStays DEF ReceiverClosed
  <2> QED
    BY <1>1, <1>2, <2>1, <2>2, <2>3 DEF Control, NoFailureAlone
<1>9. CASE ReceiveHeader
  <2>1. /\ UNCHANGED <<tls, dir, size, reply, spc, i>>
        /\ rpc = "header" /\ rpc' \in {"exit", "done", "data"}
    BY <1>9 DEF ReceiveHeader
  <2>2. (rpc' = "exit" => spc = "killed") /\ (cut' => ~tls /\ spc = "killed")
    <3>1. CASE Dry
      BY <1>9, <3>1, DryTaken DEF Dry
    <3>2. CASE ~Dry
      <4>1. PICK n \in 0..Last : InStep(n)
        BY <2>1, <3>2 DEF Stream, Stopped
      <4> QED
        BY <1>9, <4>1, HeaderTaken
    <3> QED
      BY <3>1, <3>2
  <2> QED
    BY <1>1, <1>2, <2>1, <2>2 DEF Control, NoFailureAlone
<1>10. CASE ReceiveData
  <2>1. /\ UNCHANGED <<tls, dir, size, reply, spc, i, cut>>
        /\ rpc = "data" /\ rpc' = "header"
    BY <1>10 DEF ReceiveData
  <2>2. cut' => ~tls' /\ spc' = "killed"
    BY <1>1, <2>1, Zenon
  <2> QED
    BY <1>1, <1>2, <2>1, <2>2 DEF Control, NoFailureAlone
<1>11. CASE ReceiverShuts \/ ReceiveFails \/ KillReceiver
  <2>1. /\ UNCHANGED <<tls, dir, size, reply, spc, i, cut>>
        /\ \/ rpc = "done" /\ rpc' = "closed" /\ tls
           \/ rpc \in {"header", "data"} /\ rpc' = "exit" /\ spc \in {"exit", "killed"}
           \/ rpc \in {"reply", "header", "data"} /\ rpc' = "killed"
    BY <1>11 DEF ReceiverShuts, ReceiveFails, KillReceiver
  <2>2. cut' => ~tls' /\ spc' = "killed"
    BY <1>1, <2>1, Zenon
  <2> QED
    BY <1>1, <1>2, <2>1, <2>2 DEF Control, NoFailureAlone
<1>12. CASE KillSender
  <2>1. /\ UNCHANGED <<tls, dir, size, reply, rpc, i, cut>>
        /\ spc \in {"reply", "sending"} /\ spc' = "killed"
    BY <1>12 DEF KillSender
  <2>2. ~cut'
    BY <1>1, <2>1
  <2> QED
    BY <1>1, <1>2, <2>1, <2>2 DEF Control, NoFailureAlone
<1>13. CASE UNCHANGED vars
  <2>1. UNCHANGED <<tls, dir, size, reply, spc, rpc, i, cut>>
    BY <1>13 DEF vars
  <2>2. cut' => ~tls' /\ spc' = "killed"
    BY <1>1, <2>1, Zenon
  <2> QED
    BY <1>1, <1>2, <2>1, <2>2 DEF Control, NoFailureAlone
<1> QED
  BY <1>3, <1>4, <1>5, <1>6, <1>7, <1>8, <1>9, <1>10, <1>11, <1>12, <1>13
     DEF Next, Sender, Receiver

-----------------------------------------------------------------------------
(* The theorems.                                                           *)

LEMMA StreamInit == Init => Stream
<1> SUFFICES ASSUME Init PROVE Stream
  OBVIOUS
<1>1. /\ size \in Sizes /\ Batches \in Nat \ {0} /\ Last \in Nat /\ size \in Nat
  BY BatchesTypes DEF Init
<1>2. PICK n \in Nat : n = 0
  OBVIOUS
<1>3. n * BATCH_SIZE = 0
  BY <1>2
<1>4. Off(n) = 0 /\ Start(n) = 0
  BY <1>1, <1>2, <1>3 DEF Off, Start, Least
<1>5. file = SubSeq(Whole, 1, Off(n))
  <2> DEFINE part == SubSeq(Whole, 1, Off(n))
  <2>1. part \in Seq(Items) /\ Len(part) = 0
    BY <1>1, <1>4, OffTypes, Beginning
  <2> HIDE DEF part
  <2>2. part = << >>
    BY <2>1, EmptySeq
  <2> QED
    BY <2>2 DEF part, Init
<1>6. Pos(n) = 0 /\ Len(chan) = 0 /\ chan = << >>
  BY <1>4, EmptySeq DEF Pos, Init
<1>7. Carries(chan, Pos(n))
  BY <1>6 DEF Carries
<1>8. buff[1] # Magic /\ buff[2][1] # "length"
  BY DEF Init, Magic, Junk, Reply
<1>9. InStep(n)
  BY <1>2, <1>4, <1>6, <1>7, <1>8 DEF Init, InStep, Done, Finished
<1>10. n \in 0..Last
  BY <1>1, <1>2
<1> QED
  BY <1>5, <1>9, <1>10 DEF Stream

LEMMA Invariance == Spec => []TransferInv
<1>1. Init => TransferInv
  BY InitInv, StreamInit DEF TransferInv
<1>2. TransferInv /\ [Next]_vars => TransferInv'
  BY TypesNext, ControlKept, StreamKept DEF TransferInv
<1> QED
  BY <1>1, <1>2, PTL DEF Spec

(* Every variable stays in its type.                                       *)
THEOREM Types == Spec => []TypeOK
<1>1. TransferInv => TypeOK
  BY DEF TransferInv
<1> QED
  BY <1>1, Invariance, PTL

(* recvn() and fwrite() of put() and get(): whatever ends the connection,  *)
(* and whenever, the file that the receiver wrote is a beginning of the    *)
(* file that was sent.                                                     *)
THEOREM OnlyPrefixes == Spec => []PrefixWritten
<1>1. ASSUME TransferInv PROVE PrefixWritten
  <2>1. PICK n \in 0..Last : file = SubSeq(Whole, 1, Off(n))
    BY <1>1 DEF TransferInv, Stream
  <2>2. size \in Sizes /\ size \in Nat /\ n \in Nat
    BY <1>1, BatchesTypes DEF TransferInv, TypeOK
  <2>3. Off(n) \in 0..size
    BY <2>2, OffTypes
  <2>4. Len(file) = Off(n)
    BY <2>1, <2>2, <2>3, Beginning
  <2> QED
    BY <2>1, <2>2, <2>3, <2>4 DEF PrefixWritten
<1> QED
  BY <1>1, Invariance, PTL

(* The loop of put() and get(): a receiver that leaves it without an error *)
(* has the whole file, unless it read the length of a batch out of a       *)
(* header that was cut, which TLS rules out.                               *)
THEOREM CompleteIsWhole == Spec => []CompleteMeansWhole
<1>1. ASSUME TransferInv, Done, tls \/ ~cut PROVE file = Whole
  <2>1. PICK n \in 0..Last : /\ file = SubSeq(Whole, 1, Off(n))
                             /\ InStep(n) \/ Dry \/ Stopped
    BY <1>1 DEF TransferInv, Stream
  <2>2. InStep(n)
    BY <1>1, <2>1 DEF Dry, Stopped, Done, TransferInv, Control
  <2>3. size \in Sizes /\ size \in Nat /\ n = Last
    BY <1>1, <2>2 DEF TransferInv, TypeOK, InStep
  <2>4. Off(n) = size
    BY <2>3, LastIsEmpty
  <2>5. Whole \in Seq(Items) /\ Len(Whole) = size
    BY <2>3, ItemTypes, SeqDef DEF Whole
  <2>6. SubSeq(Whole, 1, size) = Whole
    BY <2>5, SubSeqFull
  <2> QED
    BY <2>1, <2>4, <2>6
<1>2. TransferInv => CompleteMeansWhole
  BY <1>1 DEF CompleteMeansWhole
<1> QED
  BY <1>2, Invariance, PTL

(* sendn() and recvn(): an end exits only after the other was killed, or,  *)
(* over TLS, on the one write too many of a file that ends with a batch.   *)
THEOREM NobodyFailsAlone == Spec => []NoFailureAlone
<1>1. TransferInv => NoFailureAlone
  BY DEF TransferInv, Control
<1> QED
  BY <1>1, Invariance, PTL

(* Two ends that are through have left nothing in the connection, or one   *)
(* terminator when the size is a multiple of the batch.                    *)
THEOREM OneTerminatorTooMany == Spec => []LeftOver
<1>1. TransferInv => LeftOver
  BY OneTerminatorStays DEF TransferInv, LeftOver
<1> QED
  BY <1>1, Invariance, PTL
=============================================================================

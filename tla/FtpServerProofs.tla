--------------------------- MODULE FtpServerProofs ---------------------------
(***************************************************************************)
(* Theorems about FtpServer, for any number of slots, descriptors and      *)
(* connections, and both servers.                                          *)
(***************************************************************************)
EXTENDS FtpServer, TLAPS, FiniteSetTheorems

USE SlotsAssumption, BoundAssumption

-----------------------------------------------------------------------------
(* The slots are used in turn.                                             *)

LEMMA ModBounds ==
  ASSUME NEW n \in Nat
  PROVE  /\ n % Slots \in 0..(Slots - 1)
         /\ n \div Slots \in Nat
         /\ n = Slots * (n \div Slots) + (n % Slots)
  OBVIOUS

LEMMA ModUnique ==
  ASSUME NEW q \in Nat, NEW p \in Nat, NEW r \in 0..(Slots - 1), NEW s \in 0..(Slots - 1),
         Slots * q + r = Slots * p + s
  PROVE  r = s
<1>1. CASE p = q
  BY <1>1
<1>2. CASE p < q
  <2>1. Slots * q >= Slots * (p + 1)
    BY <1>2
  <2>2. Slots * (p + 1) = Slots * p + Slots
    OBVIOUS
  <2> QED
    BY <2>1, <2>2
<1>3. CASE q < p
  <2>1. Slots * p >= Slots * (q + 1)
    BY <1>3
  <2>2. Slots * (q + 1) = Slots * q + Slots
    OBVIOUS
  <2> QED
    BY <2>1, <2>2
<1> QED
  BY <1>1, <1>2, <1>3

LEMMA ModNext ==
  ASSUME NEW n \in Nat
  PROVE  (n + 1) % Slots = IF (n % Slots) + 1 = Slots THEN 0 ELSE (n % Slots) + 1
<1> DEFINE q == n \div Slots
           r == n % Slots
           p == (n + 1) \div Slots
           s == (n + 1) % Slots
<1>1. /\ r \in 0..(Slots - 1) /\ q \in Nat /\ n = Slots * q + r
      /\ s \in 0..(Slots - 1) /\ p \in Nat /\ n + 1 = Slots * p + s
  BY ModBounds
<1> HIDE DEF q, r, p, s
<1>2. CASE r + 1 = Slots
  <2>1. Slots * (q + 1) + 0 = Slots * p + s
    <3>1. Slots * (q + 1) = Slots * q + Slots
      BY <1>1
    <3> QED
      BY <1>1, <1>2, <3>1
  <2>2. q + 1 \in Nat /\ 0 \in 0..(Slots - 1)
    BY <1>1
  <2>3. s = 0
    BY <1>1, <2>1, <2>2, ModUnique
  <2> QED
    BY <1>2, <2>3 DEF r, s
<1>3. CASE r + 1 # Slots
  <2>1. Slots * q + (r + 1) = Slots * p + s /\ r + 1 \in 0..(Slots - 1)
    BY <1>1, <1>3
  <2>2. s = r + 1
    BY <1>1, <2>1, ModUnique
  <2> QED
    BY <1>3, <2>2 DEF r, s
<1> QED
  BY <1>2, <1>3

(* Fewer than Slots connections apart, the slots are different.            *)
LEMMA ModApart ==
  ASSUME NEW a \in Nat, NEW b \in Nat, a < b, b - a < Slots
  PROVE  a % Slots # b % Slots
<1> DEFINE q == a \div Slots
           r == a % Slots
           p == b \div Slots
           s == b % Slots
<1>1. /\ r \in 0..(Slots - 1) /\ q \in Nat /\ a = Slots * q + r
      /\ s \in 0..(Slots - 1) /\ p \in Nat /\ b = Slots * p + s
  BY ModBounds
<1> HIDE DEF q, r, p, s
<1>2. SUFFICES ASSUME r = s PROVE FALSE
  BY DEF r, s
<1>3. CASE p <= q
  <2>1. Slots * p <= Slots * q
    BY <1>1, <1>3
  <2> QED
    BY <1>1, <1>2, <2>1
<1>4. CASE q < p
  <2>1. Slots * p >= Slots * (q + 1) /\ Slots * (q + 1) = Slots * q + Slots
    BY <1>1, <1>4
  <2> QED
    BY <1>1, <1>2, <2>1
<1> QED
  BY <1>1, <1>3, <1>4

LEMMA SlotRange ==
  ASSUME NEW c \in Nat \ {0}
  PROVE  SlotOf(c) \in 0..(Slots - 1)
  BY ModBounds DEF SlotOf

LEMMA SlotsDiffer ==
  ASSUME NEW c \in Nat \ {0}, NEW t \in Nat \ {0}, t < c, c - t < Slots
  PROVE  SlotOf(t) # SlotOf(c)
<1>1. c - 1 \in Nat /\ t - 1 \in Nat /\ t - 1 < c - 1 /\ (c - 1) - (t - 1) < Slots
  OBVIOUS
<1> QED
  BY <1>1, ModApart DEF SlotOf

-----------------------------------------------------------------------------
(* Types.                                                                  *)

Kinds == {"list", "get", "put", "missing"}
Working == {"name", "ready", "open", "listing", "reply", "file", "data", "free", "done"}

(* What a thread at a label may have been asked for.                       *)
KindsAt(label) ==
  CASE label \in {"free", "done"}           -> Kinds
    [] label \in {"ready", "open", "reply"} -> {"list", "get", "put"}
    [] label \in {"name", "data"}           -> {"get", "put"}
    [] label = "listing"                    -> {"list"}
    [] label = "file"                       -> {"get"}

(* Connections are started in order, the index goes round with them, and   *)
(* the kind of a request is known where a thread looks at it.              *)
Progress ==
  /\ NextSlot = accepted % Slots
  /\ \A c \in Conns : pc[c] = "none" <=> c > accepted
  /\ \A c \in Conns : unread[c] = "header" => request[c] \in Kinds
  /\ \A c \in Conns : pc[c] \in Working => kind[c] \in KindsAt(pc[c])
  /\ \A f \in Fds : open[f] # Free => open[f].conn \in 1..accepted

LEMMA InitTypes == Init => TypeOK /\ Progress
<1> SUFFICES ASSUME Init PROVE TypeOK /\ Progress
  OBVIOUS
<1>1. 0 % Slots = 0
  <2>1. Slots * 0 + 0 = Slots * (0 \div Slots) + (0 % Slots)
    BY ModBounds
  <2> QED
    BY <2>1, ModBounds, ModUnique
<1>2. TypeOK
  <2>1. tls \in BOOLEAN
    BY DEF Init
  <2>2. served \subseteq [thread : Conns, conn : Conns, lapped : BOOLEAN]
    BY DEF Init
  <2>3. /\ accepted \in 0..MaxConns /\ i \in 0..Slots
        /\ acceptFd \in [0..(Slots - 1) -> Fds \cup {-1}]
        /\ open \in [Fds -> Things]
    BY DEF Init, Things
  <2>4. /\ request \in [Conns -> Requests \cup {"none"}]
        /\ unread \in [Conns -> {"header", "name", "end"}]
        /\ client \in [Conns -> {"asking", "data", "gone"}]
        /\ pc \in [Conns -> Labels]
        /\ fd \in [Conns -> Fds \cup {-1}]
        /\ kind \in [Conns -> Requests \cup {"none"}]
    BY DEF Init, Labels
  <2>5. lapped \in BOOLEAN /\ exited \in BOOLEAN
    BY DEF Init
  <2> QED
    BY <2>1, <2>2, <2>3, <2>4, <2>5 DEF TypeOK
<1>3. NextSlot = accepted % Slots
  BY <1>1 DEF Init, NextSlot
<1> QED
  BY <1>2, <1>3 DEF Init, Progress, Conns, Working

(* A step of one thread keeps the types and the progress of all.           *)
LEMMA ThreadTypes ==
  ASSUME TypeOK, Progress, NEW c \in Conns, NEW label \in Working \cup {"header"},
         pc[c] # "none", pc' = [pc EXCEPT ![c] = label],
         UNCHANGED <<loop, request, lapped, exited>>,
         open' \in [Fds -> Things],
         \A f \in Fds : open'[f] # Free => open'[f].conn \in 1..accepted,
         unread' \in [Conns -> {"header", "name", "end"}],
         \A t \in Conns : unread'[t] = "header" => unread[t] = "header",
         client' \in [Conns -> {"asking", "data", "gone"}],
         fd' \in [Conns -> Fds \cup {-1}],
         kind' \in [Conns -> Requests \cup {"none"}],
         \A t \in Conns \ {c} : kind'[t] = kind[t],
         label \in Working => kind'[c] \in KindsAt(label),
         served' \subseteq [thread : Conns, conn : Conns, lapped : BOOLEAN]
  PROVE  TypeOK' /\ Progress'
<1>1. pc' \in [Conns -> Labels]
  BY DEF TypeOK, Labels, Working
<1>2. TypeOK'
  BY <1>1 DEF TypeOK, loop
<1>3. \A t \in Conns : pc'[t] = IF t = c THEN label ELSE pc[t]
  BY DEF TypeOK
<1>4. \A t \in Conns : pc'[t] = "none" <=> t > accepted'
  BY <1>3 DEF Progress, Working, loop
<1>5. \A t \in Conns : pc'[t] \in Working => kind'[t] \in KindsAt(pc'[t])
  BY <1>3 DEF Progress
<1>6. NextSlot' = accepted' % Slots
  BY DEF Progress, NextSlot, loop
<1>7. \A t \in Conns : unread'[t] = "header" => request'[t] \in Kinds
  BY DEF Progress
<1>8. \A f \in Fds : open'[f] # Free => open'[f].conn \in 1..accepted'
  BY DEF loop
<1> QED
  BY <1>2, <1>4, <1>5, <1>6, <1>7, <1>8 DEF Progress

(* A step that opens or closes nothing, hears nothing, and serves nobody.  *)
LEMMA KeptTypes ==
  ASSUME TypeOK, Progress
  PROVE  /\ open \in [Fds -> Things]
         /\ \A f \in Fds : open[f] # Free => open[f].conn \in 1..accepted
         /\ unread \in [Conns -> {"header", "name", "end"}]
         /\ client \in [Conns -> {"asking", "data", "gone"}]
         /\ fd \in [Conns -> Fds \cup {-1}]
         /\ kind \in [Conns -> Requests \cup {"none"}]
         /\ served \subseteq [thread : Conns, conn : Conns, lapped : BOOLEAN]
  BY DEF TypeOK, Progress

(* What a thread opens, and what anybody closes.                           *)
LEMMA OpenTypes ==
  ASSUME TypeOK, Progress, NEW c \in Conns, pc[c] # "none",
         NEW f \in Fds, NEW x \in {Dir(c), File(c), Free},
         open' = [open EXCEPT ![f] = x]
  PROVE  /\ open' \in [Fds -> Things]
         /\ \A g \in Fds : open'[g] # Free => open'[g].conn \in 1..accepted
<1>1. x \in Things /\ (x # Free => x.conn = c)
  BY DEF Things, Dir, File, Free
<1>2. c \in 1..accepted
  BY DEF Progress, TypeOK, Conns
<1> QED
  BY <1>1, <1>2 DEF TypeOK, Progress

LEMMA CloseTypes ==
  ASSUME TypeOK, Progress, NEW x, Close(x)
  PROVE  /\ open' \in [Fds -> Things]
         /\ \A g \in Fds : open'[g] # Free => open'[g].conn \in 1..accepted
  BY DEF Close, TypeOK, Progress, Things

LEMMA ConnTypes ==
  ASSUME TypeOK, NEW f \in Fds \cup {-1}, ConnOf(f) # Nobody
  PROVE  /\ f \in Fds /\ open[f].what = "socket" /\ ConnOf(f) = open[f].conn
         /\ ConnOf(f) \in Conns
  BY DEF ConnOf, TypeOK, Things, Free, Fds

LEMMA DescriptorTypes ==
  ASSUME TypeOK, NEW c \in Conns
  PROVE  Descriptor(c) \in Fds \cup {-1} /\ fd[c] \in Fds \cup {-1}
  BY SlotRange DEF Descriptor, TypeOK, Conns
LEMMA AcceptTypes ==
  ASSUME TypeOK, Progress, NEW c \in Conns, Accept(c)
  PROVE  TypeOK' /\ Progress'
<1>1. /\ c = accepted + 1 /\ accepted' = c /\ accepted \in Nat
      /\ i' = NextSlot + 1 /\ NextSlot \in 0..(Slots - 1)
      /\ UNCHANGED <<tls, fd, kind, served, exited>>
      /\ pc' = [pc EXCEPT ![c] = "begin"]
  BY DEF Accept, TypeOK, NextSlot
<1>2. PICK f \in Fds : /\ open[f] = Free
                       /\ acceptFd' = [acceptFd EXCEPT ![NextSlot] = f]
                       /\ open' = [open EXCEPT ![f] = Socket(c)]
  BY DEF Accept, Lowest, FreeFds
<1>3. PICK r \in Requests :
        /\ request' = [request EXCEPT ![c] = r]
        /\ unread' = [unread EXCEPT ![c] = IF r = "silent" THEN "end" ELSE "header"]
        /\ client' = [client EXCEPT ![c] =
                        IF r \in {"silent", "missing"} THEN "gone" ELSE "asking"]
  BY DEF Accept
<1>4. lapped' \in BOOLEAN
  BY DEF Accept, Lapped, TypeOK
<1>5. Socket(c) \in Things /\ Socket(c).conn = c
  BY DEF Socket, Things
<1>6. TypeOK'
  BY <1>1, <1>2, <1>3, <1>4, <1>5 DEF TypeOK, Labels, Conns
<1>7. NextSlot' = accepted' % Slots
  BY <1>1, ModNext DEF NextSlot, Progress
<1>8. \A t \in Conns : pc'[t] = "none" <=> t > accepted'
  BY <1>1 DEF TypeOK, Progress, Conns
<1>9. \A t \in Conns : unread'[t] = "header" => request'[t] \in Kinds
  BY <1>3, RequestsAssumption DEF TypeOK, Progress, Kinds
<1>10. \A t \in Conns : pc'[t] \in Working => kind'[t] \in KindsAt(pc'[t])
  BY <1>1 DEF TypeOK, Progress, Working
<1>11. \A g \in Fds : open'[g] # Free => open'[g].conn \in 1..accepted'
  BY <1>1, <1>2, <1>5 DEF TypeOK, Progress, Conns
<1> QED
  BY <1>6, <1>7, <1>8, <1>9, <1>10, <1>11 DEF Progress

LEMMA ExitTypes ==
  ASSUME TypeOK, Progress, Exit
  PROVE  TypeOK' /\ Progress'
  BY DEF Exit, TypeOK, Progress, NextSlot, loop, clients, threads

LEMMA AcceptFailsTypes ==
  ASSUME TypeOK, Progress, AcceptFails
  PROVE  TypeOK' /\ Progress'
<1>1. i' = NextSlot /\ NextSlot \in 0..(Slots - 1) /\ NextSlot' = NextSlot
  BY DEF AcceptFails, TypeOK, NextSlot
<1>2. lapped' \in BOOLEAN
  BY DEF AcceptFails, Lapped, TypeOK
<1>3. acceptFd' \in [0..(Slots - 1) -> Fds \cup {-1}]
  BY <1>1 DEF AcceptFails, TypeOK
<1>4. UNCHANGED <<tls, accepted, open, request, unread, client, pc, fd, kind, served, exited>>
  BY DEF AcceptFails, clients, threads
<1> QED
  BY <1>1, <1>2, <1>3, <1>4 DEF TypeOK, Progress

LEMMA BeginTypes ==
  ASSUME TypeOK, Progress, NEW c \in Conns, Begin(c)
  PROVE  TypeOK' /\ Progress'
<1>1. acceptFd[SlotOf(c)] \in Fds \cup {-1}
  BY SlotRange DEF TypeOK, Conns
<1>2. /\ pc[c] # "none" /\ pc' = [pc EXCEPT ![c] = "header"]
      /\ UNCHANGED <<loop, open, request, unread, client, kind, served, lapped, exited>>
  BY DEF Begin, At, Goto, clients
<1>3. fd' \in [Conns -> Fds \cup {-1}]
  BY <1>1 DEF Begin, TypeOK
<1> QED
  BY <1>2, <1>3, KeptTypes, ThreadTypes DEF Working

LEMMA ReadHeaderTypes ==
  ASSUME TypeOK, Progress, NEW c \in Conns, ReadHeader(c)
  PROVE  TypeOK' /\ Progress'
<1> DEFINE d == ConnOf(fd[c])
<1>1. d \in Conns /\ pc[c] = "header"
  BY ConnTypes, DescriptorTypes DEF ReadHeader, At
<1>2. PICK type \in Kinds \cap (Requests \cup {"none"}) : Parse(c, type)
  <2>1. CASE unread[d] = "header" /\ Parse(c, request[d])
    BY <1>1, <2>1 DEF Progress, TypeOK
  <2>2. CASE \E e \in Conns : pc[e] = "done" /\ Parse(c, kind[e])
    BY <2>2 DEF Progress, TypeOK, Working, KindsAt
  <2> QED
    BY <2>1, <2>2 DEF ReadHeader
<1>3. /\ unread' \in [Conns -> {"header", "name", "end"}]
      /\ \A t \in Conns : unread'[t] = "header" => unread[t] = "header"
  <2>1. unread' = unread \/ \E v \in {"name", "end"} : unread' = [unread EXCEPT ![d] = v]
    BY DEF ReadHeader
  <2> HIDE DEF d
  <2> QED
    BY <1>1, <2>1 DEF TypeOK
<1>4. kind' = [kind EXCEPT ![c] = type]
  BY <1>2 DEF Parse
<1>5. PICK label \in {"name", "ready", "free"} :
        pc' = [pc EXCEPT ![c] = label] /\ type \in KindsAt(label)
  BY <1>2 DEF Parse, Goto, Kinds, KindsAt
<1>6. /\ kind' \in [Conns -> Requests \cup {"none"}]
      /\ kind'[c] = type /\ \A t \in Conns \ {c} : kind'[t] = kind[t]
  BY <1>4 DEF TypeOK
<1>7. UNCHANGED <<loop, open, request, client, fd, served, lapped, exited>>
  BY DEF ReadHeader
<1>8. label \in Working /\ pc[c] # "none"
  BY <1>1 DEF Working
<1> QED
  BY <1>3, <1>5, <1>6, <1>7, <1>8, KeptTypes, ThreadTypes

LEMMA ReadNameTypes ==
  ASSUME TypeOK, Progress, NEW c \in Conns, ReadName(c)
  PROVE  TypeOK' /\ Progress'
<1> DEFINE d == ConnOf(Descriptor(c))
<1>1. d \in Conns
  BY ConnTypes, DescriptorTypes DEF ReadName
<1>2. /\ pc[c] = "name" /\ pc' = [pc EXCEPT ![c] = "ready"]
      /\ UNCHANGED <<loop, open, request, fd, kind, served, lapped, exited>>
      /\ unread' = [unread EXCEPT ![d] = IF unread[d] = "header" THEN "name" ELSE "end"]
      /\ client' = IF unread[d] = "end" THEN [client EXCEPT ![d] = "gone"] ELSE client
  BY DEF ReadName, At, Goto
<1> HIDE DEF d
<1>3. /\ unread' \in [Conns -> {"header", "name", "end"}]
      /\ \A t \in Conns : unread'[t] = "header" => unread[t] = "header"
      /\ client' \in [Conns -> {"asking", "data", "gone"}]
  BY <1>1, <1>2 DEF TypeOK
<1>4. kind[c] \in KindsAt("ready")
  BY <1>2 DEF Progress, Working, KindsAt
<1> QED
  BY <1>2, <1>3, <1>4, KeptTypes, ThreadTypes DEF Working

LEMMA CallTypes ==
  ASSUME TypeOK, Progress, NEW c \in Conns, Call(c)
  PROVE  TypeOK' /\ Progress'
<1>1. /\ pc[c] = "ready" /\ pc' = [pc EXCEPT ![c] = "open"]
      /\ UNCHANGED <<loop, open, request, unread, client, kind, served, lapped, exited>>
  BY DEF Call, At, Goto, clients
<1>2. fd' \in [Conns -> Fds \cup {-1}]
  BY DescriptorTypes DEF Call, TypeOK
<1>3. kind[c] \in KindsAt("open")
  BY <1>1 DEF Progress, Working, KindsAt
<1> QED
  BY <1>1, <1>2, <1>3, KeptTypes, ThreadTypes DEF Working

LEMMA OpenActionTypes ==
  ASSUME TypeOK, Progress, NEW c \in Conns, Open(c)
  PROVE  TypeOK' /\ Progress'
<1>1. /\ pc[c] = "open" /\ kind[c] \in KindsAt("open")
      /\ UNCHANGED <<loop, request, unread, client, fd, kind, served, lapped, exited>>
      /\ \E f \in Fds, x \in {Dir(c), File(c), Free} : open' = [open EXCEPT ![f] = x]
  BY DEF Open, At, clients, Progress, Working
<1>2. PICK label \in {"listing", "reply"} :
        pc' = [pc EXCEPT ![c] = label] /\ kind[c] \in KindsAt(label)
  BY <1>1 DEF Open, Goto, KindsAt
<1>3. /\ open' \in [Fds -> Things]
      /\ \A g \in Fds : open'[g] # Free => open'[g].conn \in 1..accepted
  BY <1>1, OpenTypes
<1> QED
  BY <1>1, <1>2, <1>3, KeptTypes, ThreadTypes DEF Working

LEMMA CloseDirTypes ==
  ASSUME TypeOK, Progress, NEW c \in Conns, CloseDir(c)
  PROVE  TypeOK' /\ Progress'
<1>1. /\ pc[c] = "listing" /\ pc' = [pc EXCEPT ![c] = "reply"]
      /\ UNCHANGED <<loop, request, unread, client, fd, kind, served, lapped, exited>>
  BY DEF CloseDir, At, Goto, clients
<1>2. /\ open' \in [Fds -> Things]
      /\ \A g \in Fds : open'[g] # Free => open'[g].conn \in 1..accepted
  BY CloseTypes DEF CloseDir
<1>3. kind[c] \in KindsAt("reply")
  BY <1>1 DEF Progress, Working, KindsAt
<1> QED
  BY <1>1, <1>2, <1>3, KeptTypes, ThreadTypes DEF Working

(* What a reply or a file does to the clients and to the history.          *)
LEMMA HearsTypes ==
  ASSUME TypeOK, NEW c \in Conns, NEW d \in Conns, NEW v \in {"data", "gone"},
         client' = [client EXCEPT ![d] = v], Served(c, d)
  PROVE  /\ client' \in [Conns -> {"asking", "data", "gone"}]
         /\ served' \subseteq [thread : Conns, conn : Conns, lapped : BOOLEAN]
<1>1. [thread |-> c, conn |-> d, lapped |-> lapped]
        \in [thread : Conns, conn : Conns, lapped : BOOLEAN]
  BY DEF TypeOK
<1>2. served' \subseteq [thread : Conns, conn : Conns, lapped : BOOLEAN]
  BY <1>1 DEF TypeOK, Served
<1> QED
  BY <1>2 DEF TypeOK

LEMMA ReplyTypes ==
  ASSUME TypeOK, Progress, NEW c \in Conns, Reply(c)
  PROVE  TypeOK' /\ Progress'
<1> DEFINE d == ConnOf(fd[c])
<1>1. /\ d \in Conns /\ pc[c] = "reply" /\ kind[c] \in KindsAt("reply") /\ fd[c] \in Fds
      /\ Served(c, d)
      /\ UNCHANGED <<loop, request, unread, fd, kind, lapped, exited>>
  BY ConnTypes, DescriptorTypes DEF Reply, At, Progress, Working
<1>2. PICK next \in {"free", "file", "data"} :
        /\ next \in CASE kind[c] = "list" -> {"free"}
                      [] kind[c] = "get"  -> {"free", "file"}
                      [] kind[c] = "put"  -> {"data"}
        /\ pc' = [pc EXCEPT ![c] = next]
        /\ Hears(d, client[d] = "asking" /\ kind[c] = request[d] /\ next # "free")
  BY DEF Reply, Goto
<1>3. kind[c] \in KindsAt(next)
  BY <1>1, <1>2 DEF KindsAt, Kinds
<1> HIDE DEF d
<1>4. PICK v \in {"data", "gone"} : client' = [client EXCEPT ![d] = v]
  BY <1>2 DEF Hears
<1>5. open' = open \/ open' = [open EXCEPT ![fd[c]] = Free]
  BY DEF Reply
<1>6. /\ open' \in [Fds -> Things]
      /\ \A g \in Fds : open'[g] # Free => open'[g].conn \in 1..accepted
  BY <1>1, <1>5, KeptTypes, OpenTypes
<1>7. /\ client' \in [Conns -> {"asking", "data", "gone"}]
      /\ served' \subseteq [thread : Conns, conn : Conns, lapped : BOOLEAN]
  BY <1>1, <1>4, HearsTypes
<1> QED
  BY <1>1, <1>2, <1>3, <1>6, <1>7, KeptTypes, ThreadTypes DEF Working

LEMMA OpenFileTypes ==
  ASSUME TypeOK, Progress, NEW c \in Conns, OpenFile(c)
  PROVE  TypeOK' /\ Progress'
<1>1. /\ pc[c] = "file" /\ pc' = [pc EXCEPT ![c] = "data"]
      /\ UNCHANGED <<loop, request, unread, client, fd, kind, served, lapped, exited>>
      /\ \E f \in Fds, x \in {Dir(c), File(c), Free} : open' = [open EXCEPT ![f] = x]
  BY DEF OpenFile, At, Goto, clients
<1>2. /\ open' \in [Fds -> Things]
      /\ \A g \in Fds : open'[g] # Free => open'[g].conn \in 1..accepted
  BY <1>1, OpenTypes
<1>3. kind[c] \in KindsAt("data")
  BY <1>1 DEF Progress, Working, KindsAt
<1> QED
  BY <1>1, <1>2, <1>3, KeptTypes, ThreadTypes DEF Working

LEMMA TransferTypes ==
  ASSUME TypeOK, Progress, NEW c \in Conns, Transfer(c)
  PROVE  TypeOK' /\ Progress'
<1> DEFINE d == ConnOf(fd[c])
<1>1. /\ d \in Conns /\ pc[c] = "data" /\ pc' = [pc EXCEPT ![c] = "free"]
      /\ Served(c, d)
      /\ UNCHANGED <<loop, request, unread, fd, kind, lapped, exited>>
  BY ConnTypes, DescriptorTypes DEF Transfer, At, Goto
<1>2. kind[c] \in KindsAt("free")
  BY <1>1 DEF Progress, Working, KindsAt, Kinds
<1>3. /\ open' \in [Fds -> Things]
      /\ \A g \in Fds : open'[g] # Free => open'[g].conn \in 1..accepted
  BY CloseTypes DEF Transfer
<1>4. PICK v \in {"data", "gone"} : client' = [client EXCEPT ![d] = v]
  BY DEF Transfer, Hears
<1> HIDE DEF d
<1>5. /\ client' \in [Conns -> {"asking", "data", "gone"}]
      /\ served' \subseteq [thread : Conns, conn : Conns, lapped : BOOLEAN]
  BY <1>1, <1>4, HearsTypes
<1> QED
  BY <1>1, <1>2, <1>3, <1>5, KeptTypes, ThreadTypes DEF Working

LEMMA FinishTypes ==
  ASSUME TypeOK, Progress, NEW c \in Conns, Finish(c)
  PROVE  TypeOK' /\ Progress'
<1>1. /\ pc[c] = "free" /\ pc' = [pc EXCEPT ![c] = "done"]
      /\ UNCHANGED <<loop, request, unread, client, fd, kind, served, lapped, exited>>
  BY DEF Finish, At, Goto, clients
<1>2. /\ open' \in [Fds -> Things]
      /\ \A g \in Fds : open'[g] # Free => open'[g].conn \in 1..accepted
  <2>1. CASE tls
    <3>1. fd[c] \in Fds /\ open' = [open EXCEPT ![fd[c]] = Free]
      BY <2>1, DescriptorTypes DEF Finish
    <3> QED
      BY <1>1, <3>1, OpenTypes
  <2>2. CASE ~tls
    BY <2>2, KeptTypes DEF Finish
  <2> QED
    BY <2>1, <2>2
<1>3. kind[c] \in KindsAt("done")
  BY <1>1 DEF Progress, Working, KindsAt
<1> QED
  BY <1>1, <1>2, <1>3, KeptTypes, ThreadTypes DEF Working

Fails(c) == \/ HeaderFails(c) \/ NameFails(c) \/ OpenFails(c) \/ ReplyFails(c)
            \/ TransferFails(c) \/ FinishFails(c)

LEMMA FailsExit ==
  ASSUME NEW c \in Conns, Fails(c)
  PROVE  Exit /\ ~exited /\ pc[c] # "none"
  BY DEF Fails, HeaderFails, NameFails, OpenFails, ReplyFails, TransferFails,
         FinishFails, At

LEMMA TypesStep == TypeOK /\ Progress /\ [Next]_vars => (TypeOK /\ Progress)'
<1> SUFFICES ASSUME TypeOK, Progress, [Next]_vars PROVE TypeOK' /\ Progress'
  OBVIOUS
<1>1. ASSUME NEW c \in Conns, Fails(c) PROVE TypeOK' /\ Progress'
  BY <1>1, FailsExit, ExitTypes
<1>2. CASE UNCHANGED vars
  BY <1>2 DEF vars, loop, clients, threads, TypeOK, Progress, NextSlot
<1> QED
  BY <1>1, <1>2, AcceptTypes, AcceptFailsTypes, BeginTypes, ReadHeaderTypes,
     ReadNameTypes, CallTypes, OpenActionTypes, CloseDirTypes, ReplyTypes,
     OpenFileTypes, TransferTypes, FinishTypes DEF Next, Fails

(* Descriptors, slots and requests stay what they are, whatever the        *)
(* threads do; a thread never looks at a request of which it does not know *)
(* the kind, although its buffer may hold that of another.                 *)
THEOREM Types == Spec => [](TypeOK /\ Progress)
  BY InitTypes, TypesStep, PTL DEF Spec

-----------------------------------------------------------------------------
(* As long as no thread was left behind.                                   *)

(* A thread that will read its slot was followed by fewer connections than *)
(* there are slots, and so its descriptor is still in the slot.            *)
OwnSlot(t) ==
  WillRead(t) => /\ accepted - t < Slots
                 /\ acceptFd[SlotOf(t)] \in Fds
                 /\ open[acceptFd[SlotOf(t)]] = Socket(t)

(* The descriptor in its hand is its own.                                  *)
Holds(t) ==
  \/ pc[t] \in {"header", "open", "listing", "reply", "file", "data"}
  \/ tls /\ pc[t] \in {"name", "ready", "free"}
OwnFd(t) == Holds(t) => fd[t] \in Fds /\ open[fd[t]] = Socket(t)

(* Nobody else reads its request, and it reads no other.                   *)
OwnRequest(t) ==
  request[t] # "silent" =>
    /\ pc[t] \in {"begin", "header"} => unread[t] = "header"
    /\ pc[t] \in Working => kind[t] = request[t]

(* Nobody else talks to its client.                                        *)
OwnClient(t) ==
  request[t] \in {"get", "put"} =>
    /\ pc[t] \in {"begin", "header", "name", "ready", "open", "listing", "reply"} =>
         client[t] = "asking"
    /\ pc[t] \in {"file", "data"} => client[t] = "data"

(* What is behind the descriptors for it.                                  *)
Has(x) == \E f \in Fds : open[f] = x
HasSocket(t) ==
  /\ t <= accepted
  /\ ~(tls /\ pc[t] = "done")
  /\ ~(~tls /\ kind[t] = "list" /\ pc[t] \in {"free", "done"})
HasDir(t) ==
  \/ pc[t] = "listing"
  \/ (kind[t] = "get" /\ pc[t] \in {"reply", "file", "data", "free", "done"})
HasFile(t) == pc[t] = "data" \/ (kind[t] = "put" /\ pc[t] = "reply")
OwnThings(t) ==
  /\ Has(Socket(t)) <=> HasSocket(t)
  /\ Has(Dir(t)) <=> HasDir(t)
  /\ Has(File(t)) <=> HasFile(t)

(* Nothing is behind two descriptors.                                      *)
OneEach == \A f, g \in Fds : open[f] = open[g] /\ open[f] # Free => f = g

OwnThread(t) ==
  /\ OwnSlot(t) /\ OwnFd(t)
  /\ OwnRequest(t) /\ OwnClient(t)
  /\ OwnThings(t)

Own == OneEach /\ \A t \in Conns : OwnThread(t)

LEMMA ThingsDiffer ==
  ASSUME NEW c \in Conns
  PROVE  /\ Socket(c) # Free /\ Dir(c) # Free /\ File(c) # Free
         /\ Socket(c) # Dir(c) /\ Socket(c) # File(c) /\ Dir(c) # File(c)
         /\ \A t \in Conns : t # c =>
              /\ Socket(t) # Socket(c) /\ Socket(t) # Dir(c) /\ Socket(t) # File(c)
              /\ Dir(t) # Socket(c) /\ Dir(t) # Dir(c) /\ Dir(t) # File(c)
              /\ File(t) # Socket(c) /\ File(t) # Dir(c) /\ File(t) # File(c)
  BY DEF Socket, Dir, File, Free

LEMMA ConnOfSocket ==
  ASSUME NEW c \in Conns, NEW f \in Fds, open[f] = Socket(c)
  PROVE  ConnOf(f) = c /\ c # Nobody
  BY DEF ConnOf, Socket, Fds, Conns, Nobody

(* Something is opened.                                                    *)
LEMMA Opens ==
  ASSUME TypeOK, OneEach, NEW f \in Fds, open[f] = Free, NEW x, x # Free, ~Has(x),
         open' = [open EXCEPT ![f] = x]
  PROVE  /\ OneEach'
         /\ \A g \in Fds : open[g] # Free => open'[g] = open[g]
         /\ \A y : y # Free => (Has(y)' <=> Has(y) \/ y = x)
<1>1. \A g \in Fds : open'[g] = IF g = f THEN x ELSE open[g]
  BY DEF TypeOK
<1>2. OneEach'
  BY <1>1 DEF OneEach, Has
<1>3. \A y : y # Free => (Has(y)' <=> Has(y) \/ y = x)
  BY <1>1 DEF Has
<1> QED
  BY <1>1, <1>2, <1>3

(* Something is closed, by what it is.                                     *)
LEMMA Closed ==
  ASSUME TypeOK, OneEach, NEW x,
         \A f \in Fds : open'[f] = IF open[f] = x THEN Free ELSE open[f]
  PROVE  /\ OneEach'
         /\ \A g \in Fds : open[g] # x => open'[g] = open[g]
         /\ \A y : y # Free => (Has(y)' <=> Has(y) /\ y # x)
  BY DEF OneEach, Has

(* What a thread does concerns no other, as long as what it opens and      *)
(* closes is its own.                                                      *)
LEMMA OthersOwn ==
  ASSUME TypeOK, Progress, Own, NEW c \in Conns,
         NEW label, pc' = [pc EXCEPT ![c] = label],
         UNCHANGED <<loop, request, lapped>>,
         \A t \in Conns : t # c =>
           /\ fd'[t] = fd[t] /\ kind'[t] = kind[t]
           /\ unread'[t] = unread[t] /\ client'[t] = client[t],
         OneEach',
         \A g \in Fds : open[g] \notin {Free, Socket(c), Dir(c), File(c)} => open'[g] = open[g],
         \A y : y # Free /\ y \notin {Socket(c), Dir(c), File(c)} => (Has(y)' <=> Has(y)),
         OwnThread(c)'
  PROVE  Own'
<1>1. ASSUME NEW t \in Conns, t # c PROVE OwnThread(t)'
  <2>1. /\ pc'[t] = pc[t] /\ fd'[t] = fd[t] /\ kind'[t] = kind[t]
        /\ unread'[t] = unread[t] /\ client'[t] = client[t] /\ request'[t] = request[t]
        /\ tls' = tls /\ accepted' = accepted /\ acceptFd' = acceptFd
    BY <1>1 DEF TypeOK, loop
  <2>2. OwnThread(t)
    BY DEF Own
  <2>3. Socket(t) \notin {Free, Socket(c), Dir(c), File(c)}
        /\ Dir(t) \notin {Free, Socket(c), Dir(c), File(c)}
        /\ File(t) \notin {Free, Socket(c), Dir(c), File(c)}
    BY <1>1, ThingsDiffer
  <2>4. OwnSlot(t)'
    BY <2>1, <2>2, <2>3 DEF OwnThread, OwnSlot, WillRead, SlotOf
  <2>5. OwnFd(t)'
    BY <2>1, <2>2, <2>3 DEF OwnThread, OwnFd, Holds
  <2>6. OwnRequest(t)' /\ OwnClient(t)'
    BY <2>1, <2>2 DEF OwnThread, OwnRequest, OwnClient
  <2>7. /\ HasSocket(t)' <=> HasSocket(t)
        /\ HasDir(t)' <=> HasDir(t)
        /\ HasFile(t)' <=> HasFile(t)
    BY <2>1 DEF HasSocket, HasDir, HasFile
  <2>8. /\ Has(Socket(t))' <=> Has(Socket(t))
        /\ Has(Dir(t))' <=> Has(Dir(t))
        /\ Has(File(t))' <=> Has(File(t))
    <3> DEFINE s == Socket(t)
               a == Dir(t)
               b == File(t)
    <3>1. s' = s /\ a' = a /\ b' = b
      BY DEF Socket, Dir, File
    <3> QED
      BY <2>3, <3>1 DEF Has
  <2>9. OwnThings(t)'
    BY <2>2, <2>7, <2>8 DEF OwnThread, OwnThings
  <2> QED
    BY <2>4, <2>5, <2>6, <2>9 DEF OwnThread
<1> QED
  BY <1>1 DEF Own

LEMMA NextSlotIs ==
  ASSUME TypeOK, Progress
  PROVE  NextSlot = SlotOf(accepted + 1) /\ NextSlot \in 0..(Slots - 1)
<1>1. accepted + 1 \in Nat \ {0} /\ (accepted + 1) - 1 = accepted
  BY DEF TypeOK
<1> QED
  BY <1>1, SlotRange DEF SlotOf, Progress

(* The slot that is filled next is not one that a thread will read.        *)
LEMMA SlotFree ==
  ASSUME TypeOK, Progress, NEW t \in Conns, WillRead(t), (accepted + 1) - t < Slots
  PROVE  SlotOf(t) # NextSlot
<1>1. t <= accepted
  <2>1. pc[t] # "none"
    BY DEF WillRead
  <2> QED
    BY <2>1 DEF Progress, Conns, TypeOK
<1>2. t \in Nat \ {0} /\ accepted + 1 \in Nat \ {0} /\ t < accepted + 1
  BY <1>1 DEF Conns, TypeOK
<1> QED
  BY <1>2, NextSlotIs, SlotsDiffer

LEMMA AcceptOwn ==
  ASSUME TypeOK, Progress, Own, NEW c \in Conns, Accept(c), ~lapped'
  PROVE  Own'
<1>1. /\ c = accepted + 1 /\ accepted' = c /\ accepted \in Nat
      /\ UNCHANGED <<tls, fd, kind>>
      /\ pc' = [pc EXCEPT ![c] = "begin"] /\ pc[c] = "none"
  BY DEF Accept, TypeOK, Progress, Conns
<1>2. \A t \in Conns : WillRead(t) => c - t < Slots
  <2>1. ~Lapped(c)
    BY Zenon DEF Accept
  <2> QED
    BY <2>1 DEF Lapped, Conns
<1>3. PICK f \in Fds : /\ open[f] = Free
                       /\ acceptFd' = [acceptFd EXCEPT ![NextSlot] = f]
                       /\ open' = [open EXCEPT ![f] = Socket(c)]
  BY DEF Accept, Lowest, FreeFds
<1>4. PICK r \in Requests :
        /\ request' = [request EXCEPT ![c] = r]
        /\ unread' = [unread EXCEPT ![c] = IF r = "silent" THEN "end" ELSE "header"]
        /\ client' = [client EXCEPT ![c] =
                        IF r \in {"silent", "missing"} THEN "gone" ELSE "asking"]
  BY DEF Accept
<1>5. /\ NextSlot = SlotOf(c) /\ NextSlot \in 0..(Slots - 1)
      /\ \A s \in 0..(Slots - 1) :
           acceptFd'[s] = IF s = SlotOf(c) THEN f ELSE acceptFd[s]
  BY <1>1, <1>3, NextSlotIs DEF TypeOK
<1>6. OwnThread(c) /\ ~Has(Socket(c)) /\ ~Has(Dir(c)) /\ ~Has(File(c))
  BY <1>1 DEF Own, OwnThread, OwnThings, HasSocket, HasDir, HasFile
<1>7. /\ OneEach'
      /\ \A g \in Fds : open[g] # Free => open'[g] = open[g]
      /\ \A y : y # Free => (Has(y)' <=> Has(y) \/ y = Socket(c))
  BY <1>3, <1>6, ThingsDiffer, Opens DEF Own
<1>8. ASSUME NEW t \in Conns, t # c PROVE OwnThread(t)'
  <2>1. /\ pc'[t] = pc[t] /\ fd'[t] = fd[t] /\ kind'[t] = kind[t]
        /\ unread'[t] = unread[t] /\ client'[t] = client[t] /\ request'[t] = request[t]
        /\ tls' = tls
    BY <1>1, <1>4, <1>8 DEF TypeOK
  <2>2. OwnThread(t)
    BY DEF Own
  <2>3. Socket(t) # Free /\ Dir(t) # Free /\ File(t) # Free
        /\ Socket(t) # Socket(c) /\ Dir(t) # Socket(c) /\ File(t) # Socket(c)
    BY <1>8, ThingsDiffer
  <2>4. OwnSlot(t)'
    <3>1. SUFFICES ASSUME WillRead(t) PROVE OwnSlot(t)'
      BY <2>1 DEF OwnSlot, WillRead
    <3>2. c - t < Slots /\ SlotOf(t) # SlotOf(c) /\ SlotOf(t) \in 0..(Slots - 1)
      BY <1>1, <1>2, <1>5, <3>1, SlotFree, SlotRange DEF Conns
    <3>3. acceptFd'[SlotOf(t)] = acceptFd[SlotOf(t)]
      BY <1>5, <3>2
    <3> QED
      BY <1>1, <1>7, <2>2, <2>3, <3>1, <3>2, <3>3 DEF OwnThread, OwnSlot, SlotOf
  <2>5. OwnFd(t)'
    BY <1>7, <2>1, <2>2, <2>3 DEF OwnThread, OwnFd, Holds
  <2>6. OwnRequest(t)' /\ OwnClient(t)'
    BY <2>1, <2>2 DEF OwnThread, OwnRequest, OwnClient
  <2>7. /\ HasSocket(t)' <=> HasSocket(t)
        /\ HasDir(t)' <=> HasDir(t)
        /\ HasFile(t)' <=> HasFile(t)
    BY <1>1, <1>8, <2>1 DEF HasSocket, HasDir, HasFile, Conns
  <2>8. /\ Has(Socket(t))' <=> Has(Socket(t))
        /\ Has(Dir(t))' <=> Has(Dir(t))
        /\ Has(File(t))' <=> Has(File(t))
    BY <1>7, <2>3 DEF Has, Socket, Dir, File
  <2>9. OwnThings(t)'
    BY <2>2, <2>7, <2>8 DEF OwnThread, OwnThings
  <2> QED
    BY <2>4, <2>5, <2>6, <2>9 DEF OwnThread
<1>9. OwnThread(c)'
  <2>1. /\ pc'[c] = "begin" /\ request'[c] = r
        /\ unread'[c] = IF r = "silent" THEN "end" ELSE "header"
        /\ client'[c] = IF r \in {"silent", "missing"} THEN "gone" ELSE "asking"
    BY <1>1, <1>4 DEF TypeOK
  <2>2. open'[f] = Socket(c) /\ acceptFd'[SlotOf(c)] = f
    BY <1>3, <1>5 DEF TypeOK
  <2>3. OwnSlot(c)'
    BY <1>1, <2>2 DEF OwnSlot, SlotOf, Conns, Socket
  <2>4. OwnFd(c)' /\ OwnRequest(c)' /\ OwnClient(c)'
    BY <2>1 DEF OwnFd, Holds, OwnRequest, OwnClient, Working
  <2>5. Has(Socket(c))' /\ ~Has(Dir(c))' /\ ~Has(File(c))'
    BY <1>6, <1>7, ThingsDiffer DEF Has, Socket, Dir, File
  <2>6. OwnThings(c)'
    BY <1>1, <2>1, <2>5 DEF OwnThings, HasSocket, HasDir, HasFile
  <2> QED
    BY <2>3, <2>4, <2>6 DEF OwnThread
<1> QED
  BY <1>7, <1>8, <1>9 DEF Own

LEMMA AcceptFailsOwn ==
  ASSUME TypeOK, Progress, Own, AcceptFails, ~lapped'
  PROVE  Own'
<1>1. /\ UNCHANGED <<tls, accepted, open, request, unread, client, pc, fd, kind>>
      /\ acceptFd' = [acceptFd EXCEPT ![NextSlot] = -1]
      /\ \A t \in Conns : WillRead(t) => (accepted + 1) - t < Slots
  <2>1. ~Lapped(accepted + 1)
    BY Zenon DEF AcceptFails
  <2>2. \A t \in Conns : WillRead(t) => (accepted + 1) - t < Slots
    BY <2>1 DEF Lapped, Conns, TypeOK
  <2> QED
    BY <2>2 DEF AcceptFails, clients, threads
<1>2. OneEach'
  BY <1>1 DEF Own, OneEach
<1>3. ASSUME NEW t \in Conns PROVE OwnThread(t)'
  <2>1. OwnThread(t)
    BY DEF Own
  <2>2. OwnSlot(t)'
    <3>1. SUFFICES ASSUME WillRead(t) PROVE OwnSlot(t)'
      BY <1>1 DEF OwnSlot, WillRead
    <3>2. SlotOf(t) # NextSlot /\ SlotOf(t) \in 0..(Slots - 1)
      BY <1>1, <3>1, SlotFree, SlotRange DEF Conns
    <3>3. acceptFd'[SlotOf(t)] = acceptFd[SlotOf(t)]
      BY <1>1, <3>2 DEF TypeOK
    <3> QED
      BY <1>1, <2>1, <3>1, <3>3 DEF OwnThread, OwnSlot, SlotOf
  <2>3. OwnFd(t)' /\ OwnRequest(t)' /\ OwnClient(t)'
    BY <1>1, <2>1 DEF OwnThread, OwnFd, Holds, OwnRequest, OwnClient
  <2>4. OwnThings(t)'
    BY <1>1, <2>1 DEF OwnThread, OwnThings, HasSocket, HasDir, HasFile, Has
  <2> QED
    BY <2>2, <2>3, <2>4 DEF OwnThread
<1> QED
  BY <1>2, <1>3 DEF Own

(* Nothing but the thread's own variables.                                 *)
LEMMA SameThings ==
  ASSUME open' = open, Own
  PROVE  /\ OneEach'
         /\ \A g \in Fds : open'[g] = open[g]
         /\ \A y : Has(y)' <=> Has(y)
  BY DEF Own, OneEach, Has

LEMMA BeginOwn ==
  ASSUME TypeOK, Progress, Own, NEW c \in Conns, Begin(c)
  PROVE  Own'
<1>1. /\ pc[c] = "begin" /\ pc' = [pc EXCEPT ![c] = "header"]
      /\ fd' = [fd EXCEPT ![c] = acceptFd[SlotOf(c)]]
      /\ UNCHANGED <<loop, open, request, unread, client, kind, lapped>>
  BY DEF Begin, At, Goto, clients
<1>2. /\ pc'[c] = "header" /\ fd'[c] = acceptFd[SlotOf(c)]
      /\ \A t \in Conns : t # c => fd'[t] = fd[t]
  BY <1>1 DEF TypeOK
<1>3. OwnThread(c) /\ WillRead(c)
  BY <1>1 DEF Own, WillRead
<1>4. OwnSlot(c)' /\ OwnFd(c)'
  BY <1>1, <1>2, <1>3 DEF OwnThread, OwnSlot, OwnFd, loop, SlotOf, Socket
<1>5. OwnRequest(c)' /\ OwnClient(c)'
  BY <1>1, <1>2, <1>3 DEF OwnThread, OwnRequest, OwnClient, Working
<1>6. OwnThings(c)'
  BY <1>1, <1>2, <1>3 DEF OwnThread, OwnThings, HasSocket, HasDir, HasFile, Has, loop,
     Socket, Dir, File
<1>7. OwnThread(c)'
  BY <1>4, <1>5, <1>6 DEF OwnThread
<1> QED
  BY <1>1, <1>2, <1>7, SameThings, OthersOwn

LEMMA ReadHeaderOwn ==
  ASSUME TypeOK, Progress, Own, NEW c \in Conns, ReadHeader(c)
  PROVE  Own'
<1> DEFINE d == ConnOf(fd[c])
<1>1. /\ pc[c] = "header" /\ OwnThread(c)
      /\ UNCHANGED <<loop, open, request, client, fd, lapped>>
  BY DEF ReadHeader, At, Own
<1>2. d = c
  BY <1>1, ConnOfSocket DEF OwnThread, OwnFd, Holds
<1>3. PICK type \in Kinds \cap (Requests \cup {"none"}) :
        /\ Parse(c, type)
        /\ request[c] # "silent" => type = request[c]
        /\ \E v \in {"name", "end"} : unread' = [unread EXCEPT ![c] = v]
  <2>1. CASE unread[d] = "header" /\ Parse(c, request[d])
             /\ \E v \in {"name", "end"} : unread' = [unread EXCEPT ![d] = v]
    BY <1>2, <2>1 DEF Progress, TypeOK
  <2>2. CASE unread[d] = "end" /\ UNCHANGED unread
             /\ \E e \in Conns : pc[e] = "done" /\ Parse(c, kind[e])
    <3>1. request[c] = "silent"
      BY <1>1, <1>2, <2>2 DEF OwnThread, OwnRequest
    <3>2. unread' = [unread EXCEPT ![c] = "end"]
      BY <1>2, <2>2 DEF TypeOK
    <3> QED
      BY <2>2, <3>1, <3>2 DEF Progress, TypeOK, Working, KindsAt
  <2>3. \/ /\ unread[d] = "header" /\ Parse(c, request[d])
           /\ \E v \in {"name", "end"} : unread' = [unread EXCEPT ![d] = v]
        \/ /\ unread[d] = "end" /\ UNCHANGED unread
           /\ \E e \in Conns : pc[e] = "done" /\ Parse(c, kind[e])
    BY DEF ReadHeader
  <2> QED
    BY <2>1, <2>2, <2>3
<1> HIDE DEF d
<1>4. kind' = [kind EXCEPT ![c] = type]
  BY <1>3 DEF Parse
<1>5. PICK label \in {"name", "ready", "free"} :
        pc' = [pc EXCEPT ![c] = label] /\ (label = "free" => type = "missing")
  BY <1>3 DEF Parse, Goto, Kinds
<1>6. /\ pc'[c] = label /\ kind'[c] = type
      /\ \A t \in Conns : t # c => kind'[t] = kind[t] /\ unread'[t] = unread[t]
  BY <1>3, <1>4, <1>5 DEF TypeOK
<1>7. OwnSlot(c)' /\ OwnFd(c)'
  BY <1>1, <1>6 DEF OwnThread, OwnSlot, OwnFd, Holds, WillRead, loop, SlotOf, Socket
<1>8. OwnRequest(c)' /\ OwnClient(c)'
  BY <1>1, <1>3, <1>6 DEF OwnThread, OwnRequest, OwnClient, Working
<1>9. OwnThings(c)'
  BY <1>1, <1>5, <1>6 DEF OwnThread, OwnThings, HasSocket, HasDir, HasFile, Has, loop,
     Socket, Dir, File
<1>10. OwnThread(c)'
  BY <1>7, <1>8, <1>9 DEF OwnThread
<1> QED
  BY <1>1, <1>5, <1>6, <1>10, SameThings, OthersOwn

(* After the header, the descriptor a thread uses is its own.              *)
LEMMA DescriptorOwn ==
  ASSUME Own, NEW c \in Conns, pc[c] \in {"name", "ready"}
  PROVE  /\ Descriptor(c) \in Fds /\ open[Descriptor(c)] = Socket(c)
         /\ ConnOf(Descriptor(c)) = c /\ c # Nobody
<1>1. Descriptor(c) \in Fds /\ open[Descriptor(c)] = Socket(c)
  BY DEF Own, OwnThread, OwnFd, OwnSlot, Holds, WillRead, Descriptor
<1> QED
  BY <1>1, ConnOfSocket

(* ... and so it is while it answers.                                      *)
LEMMA FdOwn ==
  ASSUME Own, NEW c \in Conns, Holds(c)
  PROVE  fd[c] \in Fds /\ open[fd[c]] = Socket(c) /\ ConnOf(fd[c]) = c /\ c # Nobody
<1>1. fd[c] \in Fds /\ open[fd[c]] = Socket(c)
  BY DEF Own, OwnThread, OwnFd
<1> QED
  BY <1>1, ConnOfSocket

LEMMA ReadNameOwn ==
  ASSUME TypeOK, Progress, Own, NEW c \in Conns, ReadName(c)
  PROVE  Own'
<1>1. /\ pc[c] = "name" /\ pc' = [pc EXCEPT ![c] = "ready"] /\ OwnThread(c)
      /\ UNCHANGED <<loop, open, request, fd, kind, lapped>>
      /\ ConnOf(Descriptor(c)) = c
  BY DescriptorOwn DEF ReadName, At, Goto, Own
<1>2. /\ unread' = [unread EXCEPT ![c] = IF @ = "header" THEN "name" ELSE "end"]
      /\ client' = IF unread[c] = "end" THEN [client EXCEPT ![c] = "gone"] ELSE client
      /\ unread[c] = "end" => client[c] = "gone" \/ Sending(c)
  BY <1>1 DEF ReadName
<1>3. /\ pc'[c] = "ready"
      /\ \A t \in Conns : t # c => client'[t] = client[t] /\ unread'[t] = unread[t]
  BY <1>1, <1>2 DEF TypeOK
<1>4. OwnSlot(c)' /\ OwnFd(c)'
  BY <1>1, <1>3 DEF OwnThread, OwnSlot, OwnFd, Holds, WillRead, loop, SlotOf, Socket
<1>5. OwnRequest(c)'
  BY <1>1, <1>3 DEF OwnThread, OwnRequest, Working
<1>6. OwnClient(c)'
  <2>1. request[c] \in {"get", "put"} => client[c] = "asking" /\ unread[c] # "end"
    BY <1>1, <1>2 DEF OwnThread, OwnClient, Sending
  <2> QED
    BY <1>1, <1>2, <1>3, <2>1 DEF OwnClient
<1>7. OwnThings(c)'
  BY <1>1, <1>3 DEF OwnThread, OwnThings, HasSocket, HasDir, HasFile, Has, loop,
     Socket, Dir, File
<1>8. OwnThread(c)'
  BY <1>4, <1>5, <1>6, <1>7 DEF OwnThread
<1> QED
  BY <1>1, <1>3, <1>8, SameThings, OthersOwn

LEMMA CallOwn ==
  ASSUME TypeOK, Progress, Own, NEW c \in Conns, Call(c)
  PROVE  Own'
<1>1. /\ pc[c] = "ready" /\ pc' = [pc EXCEPT ![c] = "open"] /\ OwnThread(c)
      /\ fd' = [fd EXCEPT ![c] = Descriptor(c)]
      /\ UNCHANGED <<loop, open, request, unread, client, kind, lapped>>
  BY DEF Call, At, Goto, clients, Own
<1>2. /\ pc'[c] = "open" /\ fd'[c] = Descriptor(c)
      /\ \A t \in Conns : t # c => fd'[t] = fd[t]
  BY <1>1 DEF TypeOK
<1>3. OwnSlot(c)' /\ OwnFd(c)'
  BY <1>1, <1>2, DescriptorOwn DEF OwnSlot, OwnFd, WillRead, Socket
<1>4. OwnRequest(c)' /\ OwnClient(c)'
  BY <1>1, <1>2 DEF OwnThread, OwnRequest, OwnClient, Working
<1>5. OwnThings(c)'
  BY <1>1, <1>2 DEF OwnThread, OwnThings, HasSocket, HasDir, HasFile, Has, loop,
     Socket, Dir, File
<1>6. OwnThread(c)'
  BY <1>3, <1>4, <1>5 DEF OwnThread
<1> QED
  BY <1>1, <1>2, <1>6, SameThings, OthersOwn

(* What a thread still has when it opens or closes something else.         *)
LEMMA KeepsSocket ==
  ASSUME Own, NEW c \in Conns, Holds(c), UNCHANGED fd,
         \A g \in Fds : open[g] = Socket(c) => open'[g] = open[g]
  PROVE  OwnFd(c)'
  BY DEF Own, OwnThread, OwnFd, Socket

LEMMA OpenOwn ==
  ASSUME TypeOK, Progress, Own, NEW c \in Conns, Open(c)
  PROVE  Own'
<1>1. /\ pc[c] = "open" /\ kind[c] \in {"list", "get", "put"} /\ OwnThread(c)
      /\ UNCHANGED <<loop, request, unread, client, fd, kind, lapped>>
  BY DEF Open, At, clients, Progress, Working, KindsAt, Own
<1>2. PICK f \in Fds, x \in {Dir(c), File(c)} :
        /\ open[f] = Free
        /\ open' = [open EXCEPT ![f] = x]
        /\ x = IF kind[c] = "put" THEN File(c) ELSE Dir(c)
  BY DEF Open, Lowest, FreeFds
<1>3. PICK label \in {"listing", "reply"} :
        /\ pc' = [pc EXCEPT ![c] = label] /\ (label = "listing" <=> kind[c] = "list")
  BY DEF Open, Goto
<1>4. x # Free /\ ~Has(Dir(c)) /\ ~Has(File(c)) /\ ~Has(x) /\ Has(Socket(c)) /\ x # Socket(c)
  BY <1>1, <1>2, ThingsDiffer DEF OwnThread, OwnThings, HasDir, HasFile, HasSocket, Progress,
     Conns, TypeOK
<1>5. /\ OneEach'
      /\ \A g \in Fds : open[g] # Free => open'[g] = open[g]
      /\ \A y : y # Free => (Has(y)' <=> Has(y) \/ y = x)
  BY <1>2, <1>4, Opens DEF Own
<1>6. pc'[c] = label
  BY <1>3 DEF TypeOK
<1>7. OwnSlot(c)' /\ OwnFd(c)'
  <2>1. Holds(c)
    BY <1>1 DEF Holds
  <2>2. OwnFd(c)'
    BY <1>1, <1>5, <2>1, KeepsSocket, ThingsDiffer
  <2> QED
    BY <1>6, <2>2 DEF OwnSlot, WillRead
<1>8. OwnRequest(c)' /\ OwnClient(c)'
  BY <1>1, <1>6 DEF OwnThread, OwnRequest, OwnClient, Working
<1>9. OwnThings(c)'
  <2>1. /\ Has(Socket(c))'
        /\ Has(Dir(c))' <=> Dir(c) = x
        /\ Has(File(c))' <=> File(c) = x
    BY <1>4, <1>5, ThingsDiffer DEF Has, Socket, Dir, File
  <2>2. c <= accepted'
    BY <1>1 DEF Progress, loop, Conns, TypeOK
  <2>3. HasSocket(c)' /\ (HasDir(c)' <=> kind[c] # "put") /\ (HasFile(c)' <=> kind[c] = "put")
    BY <1>1, <1>3, <1>6, <2>2 DEF HasSocket, HasDir, HasFile
  <2> QED
    BY <1>2, <2>1, <2>3, ThingsDiffer DEF OwnThings
<1>10. OwnThread(c)'
  BY <1>7, <1>8, <1>9 DEF OwnThread
<1>11. \A y : y # Free /\ y \notin {Socket(c), Dir(c), File(c)} => (Has(y)' <=> Has(y))
  BY <1>2, <1>5
<1> QED
  BY <1>1, <1>3, <1>5, <1>10, <1>11, OthersOwn

LEMMA OpenFileOwn ==
  ASSUME TypeOK, Progress, Own, NEW c \in Conns, OpenFile(c)
  PROVE  Own'
<1>1. /\ pc[c] = "file" /\ kind[c] = "get" /\ OwnThread(c)
      /\ pc' = [pc EXCEPT ![c] = "data"] /\ pc'[c] = "data"
      /\ UNCHANGED <<loop, request, unread, client, fd, kind, lapped>>
  BY DEF OpenFile, At, Goto, clients, Progress, Working, KindsAt, Own, TypeOK
<1>2. PICK f \in Fds : open[f] = Free /\ open' = [open EXCEPT ![f] = File(c)]
  BY DEF OpenFile, Lowest, FreeFds
<1>3. Has(Dir(c)) /\ ~Has(File(c)) /\ Has(Socket(c))
  BY <1>1 DEF OwnThread, OwnThings, HasDir, HasFile, HasSocket, Progress, Conns, TypeOK
<1>4. /\ OneEach'
      /\ \A g \in Fds : open[g] # Free => open'[g] = open[g]
      /\ \A y : y # Free => (Has(y)' <=> Has(y) \/ y = File(c))
  BY <1>2, <1>3, Opens, ThingsDiffer DEF Own
<1>5. OwnSlot(c)' /\ OwnFd(c)'
  <2>1. Holds(c)
    BY <1>1 DEF Holds
  <2>2. OwnFd(c)'
    BY <1>1, <1>4, <2>1, KeepsSocket, ThingsDiffer
  <2> QED
    BY <1>1, <2>2 DEF OwnSlot, WillRead
<1>6. OwnRequest(c)' /\ OwnClient(c)'
  BY <1>1 DEF OwnThread, OwnRequest, OwnClient, Working
<1>7. OwnThings(c)'
  <2>1. Has(Socket(c))' /\ Has(Dir(c))' /\ Has(File(c))'
    BY <1>3, <1>4, ThingsDiffer DEF Has, Socket, Dir, File
  <2>2. c <= accepted'
    BY <1>1 DEF Progress, loop, Conns, TypeOK
  <2> QED
    BY <1>1, <2>1, <2>2 DEF OwnThings, HasSocket, HasDir, HasFile
<1>8. OwnThread(c)'
  BY <1>5, <1>6, <1>7 DEF OwnThread
<1>9. \A y : y # Free /\ y \notin {Socket(c), Dir(c), File(c)} => (Has(y)' <=> Has(y))
  BY <1>4
<1> QED
  BY <1>1, <1>4, <1>8, <1>9, OthersOwn

LEMMA CloseDirOwn ==
  ASSUME TypeOK, Progress, Own, NEW c \in Conns, CloseDir(c)
  PROVE  Own'
<1>1. /\ pc[c] = "listing" /\ kind[c] = "list" /\ OwnThread(c)
      /\ pc' = [pc EXCEPT ![c] = "reply"] /\ pc'[c] = "reply"
      /\ UNCHANGED <<loop, request, unread, client, fd, kind, lapped>>
  BY DEF CloseDir, At, Goto, clients, Progress, Working, KindsAt, Own, TypeOK
<1>2. \A f \in Fds : open'[f] = IF open[f] = Dir(c) THEN Free ELSE open[f]
  BY DEF CloseDir, Close
<1>3. Has(Socket(c)) /\ ~Has(File(c))
  BY <1>1 DEF OwnThread, OwnThings, HasFile, HasSocket, Progress, Conns, TypeOK
<1>4. /\ OneEach'
      /\ \A g \in Fds : open[g] # Dir(c) => open'[g] = open[g]
      /\ \A y : y # Free => (Has(y)' <=> Has(y) /\ y # Dir(c))
  BY <1>2, Closed DEF Own
<1>5. OwnSlot(c)' /\ OwnFd(c)'
  <2>1. Holds(c)
    BY <1>1 DEF Holds
  <2>2. OwnFd(c)'
    BY <1>1, <1>4, <2>1, KeepsSocket, ThingsDiffer
  <2> QED
    BY <1>1, <2>2 DEF OwnSlot, WillRead
<1>6. OwnRequest(c)' /\ OwnClient(c)'
  BY <1>1 DEF OwnThread, OwnRequest, OwnClient, Working
<1>7. OwnThings(c)'
  <2>1. Has(Socket(c))' /\ ~Has(Dir(c))' /\ ~Has(File(c))'
    BY <1>3, <1>4, ThingsDiffer DEF Has, Socket, Dir, File
  <2>2. c <= accepted'
    BY <1>1 DEF Progress, loop, Conns, TypeOK
  <2> QED
    BY <1>1, <2>1, <2>2 DEF OwnThings, HasSocket, HasDir, HasFile
<1>8. OwnThread(c)'
  BY <1>5, <1>6, <1>7 DEF OwnThread
<1>9. \A y : y # Free /\ y \notin {Socket(c), Dir(c), File(c)} => (Has(y)' <=> Has(y))
  BY <1>4
<1> QED
  BY <1>1, <1>4, <1>8, <1>9, OthersOwn

(* The thread closes its connection, or does not.                          *)
LEMMA MayClose ==
  ASSUME TypeOK, OneEach, NEW c \in Conns, NEW closes \in BOOLEAN, NEW f,
         closes => f \in Fds /\ open[f] = Socket(c),
         open' = IF closes THEN [open EXCEPT ![f] = Free] ELSE open
  PROVE  /\ OneEach'
         /\ \A g \in Fds : open[g] # Socket(c) => open'[g] = open[g]
         /\ ~closes => \A g \in Fds : open'[g] = open[g]
         /\ \A y : y # Free => (Has(y)' <=> Has(y) /\ ~(closes /\ y = Socket(c)))
<1>1. CASE closes
  <2>0. open[f] = Socket(c) /\ open[f] # Free /\ open' = [open EXCEPT ![f] = Free] /\ f \in Fds
    BY <1>1, ThingsDiffer
  <2>1. \A g \in Fds : open'[g] = IF open[g] = Socket(c) THEN Free ELSE open[g]
    BY <2>0 DEF OneEach, TypeOK
  <2> QED
    BY <1>1, <2>1, Closed
<1>2. CASE ~closes
  BY <1>2 DEF OneEach, Has
<1> QED
  BY <1>1, <1>2

(* A thread answers its own connection.                                    *)
LEMMA ReplyOwn ==
  ASSUME TypeOK, Progress, Own, NEW c \in Conns, Reply(c)
  PROVE  Own' /\ served' = served \cup {[thread |-> c, conn |-> c, lapped |-> lapped]}
<1>1. /\ pc[c] = "reply" /\ kind[c] \in {"list", "get", "put"} /\ OwnThread(c) /\ Holds(c)
      /\ UNCHANGED <<loop, request, unread, fd, kind, lapped>>
  BY DEF Reply, At, Progress, Working, KindsAt, Own, Holds
<1>2. fd[c] \in Fds /\ open[fd[c]] = Socket(c) /\ ConnOf(fd[c]) = c
  BY <1>1, FdOwn
<1>3. PICK next \in {"free", "file", "data"} :
        /\ next \in CASE kind[c] = "list" -> {"free"}
                      [] kind[c] = "get"  -> {"free", "file"}
                      [] kind[c] = "put"  -> {"data"}
        /\ pc' = [pc EXCEPT ![c] = next]
        /\ Hears(c, client[c] = "asking" /\ kind[c] = request[c] /\ next # "free")
  BY <1>2 DEF Reply, Goto
<1>4. served' = served \cup {[thread |-> c, conn |-> c, lapped |-> lapped]}
  BY <1>2 DEF Reply, Served
<1>5. /\ kind[c] = "list" <=> (next = "free" /\ kind[c] # "get")
      /\ next = "file" => kind[c] = "get"
      /\ next = "data" <=> kind[c] = "put"
  BY <1>1, <1>3
<1>6. /\ pc'[c] = next /\ \A t \in Conns : t # c => client'[t] = client[t]
      /\ client[c] = "asking" /\ kind[c] = request[c] /\ next # "free" => client'[c] = "data"
  BY <1>3 DEF TypeOK, Hears
<1>7. /\ Has(Socket(c))
      /\ Has(Dir(c)) <=> kind[c] = "get"
      /\ Has(File(c)) <=> kind[c] = "put"
  BY <1>1 DEF OwnThread, OwnThings, HasSocket, HasDir, HasFile, Progress, Conns, TypeOK
<1>8. Closes(c) \in BOOLEAN /\ (Closes(c) <=> ~tls /\ kind[c] = "list")
  BY DEF Closes
<1>9. /\ OneEach'
      /\ \A g \in Fds : open[g] # Socket(c) => open'[g] = open[g]
      /\ ~Closes(c) => \A g \in Fds : open'[g] = open[g]
      /\ \A y : y # Free => (Has(y)' <=> Has(y) /\ ~(Closes(c) /\ y = Socket(c)))
  <2>1. open' = IF Closes(c) THEN [open EXCEPT ![fd[c]] = Free] ELSE open
    BY DEF Reply
  <2> QED
    BY <1>2, <1>8, <2>1, MayClose DEF Own
<1>10. OwnSlot(c)'
  BY <1>6 DEF OwnSlot, WillRead
<1>11. OwnFd(c)'
  <2>1. CASE Closes(c)
    BY <1>1, <1>5, <1>6, <1>8, <2>1 DEF OwnFd, Holds, loop
  <2>2. CASE ~Closes(c)
    BY <1>1, <1>9, <2>2, KeepsSocket
  <2> QED
    BY <2>1, <2>2
<1>12. OwnRequest(c)'
  BY <1>1, <1>6 DEF OwnThread, OwnRequest, Working
<1>13. OwnClient(c)'
  <2>1. request[c] \in {"get", "put"} => client[c] = "asking" /\ kind[c] = request[c]
    BY <1>1 DEF OwnThread, OwnClient, OwnRequest, Working
  <2> QED
    BY <1>1, <1>6, <2>1 DEF OwnClient
<1>14. OwnThings(c)'
  <2>1. /\ Has(Socket(c))' <=> ~Closes(c)
        /\ Has(Dir(c))' <=> kind[c] = "get"
        /\ Has(File(c))' <=> kind[c] = "put"
    BY <1>7, <1>9, ThingsDiffer DEF Has, Socket, Dir, File
  <2>2. HasSocket(c)' <=> ~Closes(c)
    BY <1>1, <1>5, <1>6, <1>8 DEF HasSocket, Progress, loop, Conns, TypeOK
  <2>3. HasDir(c)' <=> kind[c] = "get"
    BY <1>1, <1>6 DEF HasDir
  <2>4. HasFile(c)' <=> kind[c] = "put"
    BY <1>1, <1>5, <1>6 DEF HasFile
  <2> QED
    BY <2>1, <2>2, <2>3, <2>4 DEF OwnThings
<1>15. OwnThread(c)'
  BY <1>10, <1>11, <1>12, <1>13, <1>14 DEF OwnThread
<1>16. \A y : y # Free /\ y \notin {Socket(c), Dir(c), File(c)} => (Has(y)' <=> Has(y))
  BY <1>9
<1> QED
  BY <1>1, <1>3, <1>4, <1>6, <1>9, <1>15, <1>16, OthersOwn

LEMMA TransferOwn ==
  ASSUME TypeOK, Progress, Own, NEW c \in Conns, Transfer(c)
  PROVE  Own' /\ served' = served \cup {[thread |-> c, conn |-> c, lapped |-> lapped]}
<1>1. /\ pc[c] = "data" /\ kind[c] \in {"get", "put"} /\ OwnThread(c) /\ Holds(c)
      /\ pc' = [pc EXCEPT ![c] = "free"] /\ pc'[c] = "free"
      /\ UNCHANGED <<loop, request, unread, fd, kind, lapped>>
  BY DEF Transfer, At, Goto, Progress, Working, KindsAt, Own, Holds, TypeOK
<1>2. ConnOf(fd[c]) = c
  BY <1>1, FdOwn
<1>3. served' = served \cup {[thread |-> c, conn |-> c, lapped |-> lapped]}
  BY <1>2 DEF Transfer, Served
<1>4. \A t \in Conns : t # c => client'[t] = client[t]
  BY <1>2 DEF Transfer, Hears, TypeOK
<1>5. \A f \in Fds : open'[f] = IF open[f] = File(c) THEN Free ELSE open[f]
  BY DEF Transfer, Close
<1>6. Has(Socket(c)) /\ (Has(Dir(c)) <=> kind[c] = "get")
  BY <1>1 DEF OwnThread, OwnThings, HasSocket, HasDir, Progress, Conns, TypeOK
<1>7. /\ OneEach'
      /\ \A g \in Fds : open[g] # File(c) => open'[g] = open[g]
      /\ \A y : y # Free => (Has(y)' <=> Has(y) /\ y # File(c))
  BY <1>5, Closed DEF Own
<1>8. OwnSlot(c)' /\ OwnFd(c)'
  <2>1. OwnFd(c)'
    BY <1>1, <1>7, KeepsSocket, ThingsDiffer
  <2> QED
    BY <1>1, <2>1 DEF OwnSlot, WillRead
<1>9. OwnRequest(c)' /\ OwnClient(c)'
  BY <1>1 DEF OwnThread, OwnRequest, OwnClient, Working
<1>10. OwnThings(c)'
  <2>1. /\ Has(Socket(c))' /\ ~Has(File(c))'
        /\ Has(Dir(c))' <=> kind[c] = "get"
    BY <1>6, <1>7, ThingsDiffer DEF Has, Socket, Dir, File
  <2>2. c <= accepted'
    BY <1>1 DEF Progress, loop, Conns, TypeOK
  <2> QED
    BY <1>1, <2>1, <2>2 DEF OwnThings, HasSocket, HasDir, HasFile
<1>11. OwnThread(c)'
  BY <1>8, <1>9, <1>10 DEF OwnThread
<1>12. \A y : y # Free /\ y \notin {Socket(c), Dir(c), File(c)} => (Has(y)' <=> Has(y))
  BY <1>7
<1> QED
  BY <1>1, <1>3, <1>4, <1>7, <1>11, <1>12, OthersOwn

LEMMA FinishOwn ==
  ASSUME TypeOK, Progress, Own, NEW c \in Conns, Finish(c)
  PROVE  Own'
<1>1. /\ pc[c] = "free" /\ OwnThread(c)
      /\ pc' = [pc EXCEPT ![c] = "done"] /\ pc'[c] = "done"
      /\ UNCHANGED <<loop, request, unread, client, fd, kind, lapped>>
      /\ open' = IF tls THEN [open EXCEPT ![fd[c]] = Free] ELSE open
      /\ tls \in BOOLEAN
  BY DEF Finish, At, Goto, clients, Own, TypeOK
<1>2. tls => fd[c] \in Fds /\ open[fd[c]] = Socket(c)
  BY <1>1, FdOwn DEF Holds
<1>3. /\ Has(Socket(c)) <=> ~(~tls /\ kind[c] = "list")
      /\ Has(Dir(c)) <=> kind[c] = "get"
      /\ ~Has(File(c))
  BY <1>1 DEF OwnThread, OwnThings, HasSocket, HasDir, HasFile, Progress, Conns, TypeOK
<1>4. /\ OneEach'
      /\ \A g \in Fds : open[g] # Socket(c) => open'[g] = open[g]
      /\ \A y : y # Free => (Has(y)' <=> Has(y) /\ ~(tls /\ y = Socket(c)))
  BY <1>1, <1>2, MayClose DEF Own
<1>5. OwnSlot(c)' /\ OwnFd(c)'
  BY <1>1 DEF OwnSlot, WillRead, OwnFd, Holds
<1>6. OwnRequest(c)' /\ OwnClient(c)'
  BY <1>1 DEF OwnThread, OwnRequest, OwnClient, Working
<1>7. OwnThings(c)'
  <2>1. /\ Has(Socket(c))' <=> ~tls /\ kind[c] # "list"
        /\ Has(Dir(c))' <=> kind[c] = "get"
        /\ ~Has(File(c))'
    BY <1>3, <1>4, ThingsDiffer DEF Has, Socket, Dir, File
  <2>2. c <= accepted'
    BY <1>1 DEF Progress, loop, Conns, TypeOK
  <2>3. HasSocket(c)' <=> ~tls /\ kind[c] # "list"
    BY <1>1, <2>2 DEF HasSocket, loop
  <2>4. (HasDir(c)' <=> kind[c] = "get") /\ ~HasFile(c)'
    BY <1>1 DEF HasDir, HasFile
  <2> QED
    BY <2>1, <2>3, <2>4 DEF OwnThings
<1>8. OwnThread(c)'
  BY <1>5, <1>6, <1>7 DEF OwnThread
<1>9. \A y : y # Free /\ y \notin {Socket(c), Dir(c), File(c)} => (Has(y)' <=> Has(y))
  BY <1>4
<1> QED
  BY <1>1, <1>4, <1>8, <1>9, OthersOwn

LEMMA ExitOwn ==
  ASSUME TypeOK, Own, Exit \/ UNCHANGED vars
  PROVE  Own'
<1>1. UNCHANGED <<tls, accepted, acceptFd, open, request, unread, client, pc, fd, kind>>
  BY DEF Exit, vars, loop, clients, threads
<1>2. OneEach'
  BY <1>1, SameThings
<1>3. ASSUME NEW t \in Conns PROVE OwnThread(t)'
  <2>1. OwnThread(t)
    BY DEF Own
  <2>2. OwnSlot(t)' /\ OwnFd(t)' /\ OwnRequest(t)' /\ OwnClient(t)'
    BY <1>1, <2>1 DEF OwnThread, OwnSlot, WillRead, SlotOf, Socket, OwnFd, Holds,
       OwnRequest, OwnClient
  <2>3. OwnThings(t)'
    BY <1>1, <2>1 DEF OwnThread, OwnThings, HasSocket, HasDir, HasFile, Has,
       Socket, Dir, File
  <2> QED
    BY <2>2, <2>3 DEF OwnThread
<1> QED
  BY <1>2, <1>3 DEF Own

-----------------------------------------------------------------------------

OwnInv == (~lapped => Own) /\ OwnUnlessLapped

LEMMA InitOwn == Init => OwnInv
<1> SUFFICES ASSUME Init PROVE Own /\ OwnUnlessLapped
  BY DEF OwnInv
<1>1. OneEach /\ \A x : x # Free => ~Has(x)
  BY DEF Init, OneEach, Has
<1>2. ASSUME NEW t \in Conns PROVE OwnThread(t)
  <2>1. OwnSlot(t) /\ OwnFd(t) /\ OwnRequest(t) /\ OwnClient(t)
    BY DEF Init, OwnSlot, WillRead, OwnFd, Holds, OwnRequest, OwnClient
  <2>2. OwnThings(t)
    BY <1>1, ThingsDiffer DEF Init, OwnThings, HasSocket, HasDir, HasFile, Conns
  <2> QED
    BY <2>1, <2>2 DEF OwnThread
<1>3. OwnUnlessLapped
  BY DEF Init, OwnUnlessLapped
<1> QED
  BY <1>1, <1>2, <1>3 DEF Own

LEMMA OwnStep == TypeOK /\ Progress /\ OwnInv /\ [Next]_vars => OwnInv'
<1> SUFFICES ASSUME TypeOK, Progress, OwnInv, [Next]_vars PROVE OwnInv'
  OBVIOUS
<1> USE DEF OwnInv
<1>1. ASSUME NEW c \in Conns, Accept(c) PROVE OwnInv'
  <2>1. ~lapped' => ~lapped
    BY <1>1, Zenon DEF Accept, Lapped
  <2> QED
    BY <1>1, <2>1, AcceptOwn DEF Accept, OwnUnlessLapped
<1>2. CASE AcceptFails
  <2>1. ~lapped' => ~lapped
    BY <1>2, Zenon DEF AcceptFails, Lapped
  <2> QED
    BY <1>2, <2>1, AcceptFailsOwn DEF AcceptFails, OwnUnlessLapped
<1>3. CASE Exit \/ UNCHANGED vars
  BY <1>3, ExitOwn DEF Exit, vars, OwnUnlessLapped
<1>4. ASSUME NEW c \in Conns,
             \/ Begin(c) \/ ReadHeader(c) \/ ReadName(c) \/ Call(c) \/ Open(c)
             \/ CloseDir(c) \/ OpenFile(c) \/ Finish(c)
      PROVE  OwnInv'
  <2>1. lapped' = lapped /\ served' = served
    BY <1>4 DEF Begin, ReadHeader, ReadName, Call, Open, CloseDir, OpenFile, Finish
  <2>2. ~lapped => Own'
    BY <1>4, BeginOwn, ReadHeaderOwn, ReadNameOwn, CallOwn, OpenOwn, CloseDirOwn,
       OpenFileOwn, FinishOwn
  <2> QED
    BY <2>1, <2>2 DEF OwnUnlessLapped
<1>5. ASSUME NEW c \in Conns, Reply(c) \/ Transfer(c) PROVE OwnInv'
  <2>1. lapped' = lapped
    BY <1>5 DEF Reply, Transfer
  <2>2. CASE ~lapped
    BY <1>5, <2>1, <2>2, ReplyOwn, TransferOwn DEF OwnUnlessLapped
  <2>3. CASE lapped
    <3>1. PICK d : served' = served \cup {[thread |-> c, conn |-> d, lapped |-> lapped]}
      BY <1>5 DEF Reply, Transfer, Served
    <3> QED
      BY <2>1, <2>3, <3>1 DEF OwnUnlessLapped, TypeOK
  <2> QED
    BY <2>2, <2>3
<1> QED
  BY <1>1, <1>2, <1>3, <1>4, <1>5, FailsExit DEF Next, Fails

(* Every connection is answered by the thread that was started for it,     *)
(* whichever slots and descriptors are used again, unless a thread was     *)
(* left behind by as many connections as accept_fd has slots.              *)
THEOREM AnswersOwn == Spec => []OwnUnlessLapped
<1>1. OwnInv => OwnUnlessLapped
  BY DEF OwnInv
<1> QED
  BY <1>1, InitOwn, OwnStep, Types, PTL DEF Spec

-----------------------------------------------------------------------------
(* The descriptors behind which a thing is.                                *)
Behind(x) == {f \in Fds : open[f] = x}

LEMMA BehindOne ==
  ASSUME OneEach, NEW x, x # Free
  PROVE  /\ IsFiniteSet(Behind(x))
         /\ Cardinality(Behind(x)) = IF Has(x) THEN 1 ELSE 0
<1>1. CASE ~Has(x)
  <2>1. Behind(x) = {}
    BY <1>1 DEF Has, Behind
  <2> QED
    BY <1>1, <2>1, FS_EmptySet
<1>2. CASE Has(x)
  <2>1. PICK f \in Fds : open[f] = x
    BY <1>2 DEF Has
  <2>2. Behind(x) = {f}
    BY <2>1 DEF Behind, OneEach
  <2>3. IsFiniteSet({f}) /\ Cardinality({f}) = 1
    BY FS_Singleton, Zenon
  <2> QED
    BY <1>2, <2>2, <2>3
<1> QED
  BY <1>1, <1>2

LEMMA BehindAll ==
  ASSUME TypeOK, OneEach, NEW c \in Conns
  PROVE  Cardinality({f \in Fds : open[f].conn = c})
           = (IF Has(Socket(c)) THEN 1 ELSE 0) + (IF Has(Dir(c)) THEN 1 ELSE 0)
             + (IF Has(File(c)) THEN 1 ELSE 0)
<1> DEFINE s == Behind(Socket(c))
           d == Behind(Dir(c))
           f == Behind(File(c))
<1>1. {g \in Fds : open[g].conn = c} = (s \cup d) \cup f
  <2>1. ASSUME NEW g \in Fds
        PROVE  open[g].conn = c <=> open[g] \in {Socket(c), Dir(c), File(c)}
    <3>1. open[g] \in Things
      BY DEF TypeOK
    <3>2. CASE open[g] = Free
      BY <3>2, ThingsDiffer DEF Free, Conns, Nobody, Socket, Dir, File
    <3>3. CASE open[g] # Free
      <4>1. PICK w \in {"socket", "dir", "file"}, e \in Conns :
              open[g] = [what |-> w, conn |-> e]
        BY <3>1, <3>3 DEF Things
      <4> QED
        BY <4>1 DEF Socket, Dir, File
    <3> QED
      BY <3>2, <3>3
  <2> QED
    BY <2>1 DEF Behind
<1>2. s \cap d = {} /\ (s \cup d) \cap f = {}
  BY ThingsDiffer DEF Behind
<1>3. /\ IsFiniteSet(s) /\ Cardinality(s) = IF Has(Socket(c)) THEN 1 ELSE 0
      /\ IsFiniteSet(d) /\ Cardinality(d) = IF Has(Dir(c)) THEN 1 ELSE 0
      /\ IsFiniteSet(f) /\ Cardinality(f) = IF Has(File(c)) THEN 1 ELSE 0
  BY ThingsDiffer, BehindOne
<1> HIDE DEF s, d, f
<1>4. IsFiniteSet(s \cup d) /\ Cardinality(s \cup d) = Cardinality(s) + Cardinality(d)
  <2>1. /\ IsFiniteSet(s \cup d)
        /\ Cardinality(s \cup d) = Cardinality(s) + Cardinality(d) - Cardinality(s \cap d)
    BY <1>3, FS_Union
  <2> QED
    BY <1>2, <1>3, <2>1, FS_EmptySet
<1> DEFINE u == s \cup d
<1>5. IsFiniteSet(u) /\ Cardinality(u) \in Int /\ u \cap f = {}
  BY <1>2, <1>3, <1>4
<1> HIDE DEF u
<1>6. Cardinality(u \cup f) = Cardinality(u) + Cardinality(f)
  <2>1. Cardinality(u \cup f) = Cardinality(u) + Cardinality(f) - Cardinality(u \cap f)
    BY <1>3, <1>5, FS_Union
  <2>2. Cardinality(f) \in Int /\ Cardinality({}) = 0
    BY <1>3, FS_EmptySet
  <2>3. Cardinality(u \cap f) = 0
    BY <1>5, <2>2, Zenon
  <2> QED
    BY <1>5, <2>1, <2>2, <2>3
<1> QED
  BY <1>1, <1>3, <1>4, <1>6 DEF u

(* Opening and closing in balance: what a connection costs the process     *)
(* while it lasts and for ever, in both servers: one directory for each    *)
(* get, and in asg1 the connection itself unless it was a list.            *)
THEOREM DescriptorsBalance == Spec => []DescriptorBalance
<1>1. TypeOK /\ Progress /\ OwnInv => DescriptorBalance
  <2> SUFFICES ASSUME TypeOK, Progress, Own, NEW c \in 1..accepted
               PROVE  LET held == Cardinality({f \in Fds : open[f].conn = c})
                      IN  IF pc[c] = "done" THEN held = Leaked(c) ELSE held <= 3
    BY DEF OwnInv, DescriptorBalance
  <2>1. c \in Conns /\ tls \in BOOLEAN
    BY DEF Conns, TypeOK
  <2>2. Cardinality({f \in Fds : open[f].conn = c})
          = (IF Has(Socket(c)) THEN 1 ELSE 0) + (IF Has(Dir(c)) THEN 1 ELSE 0)
            + (IF Has(File(c)) THEN 1 ELSE 0)
    BY <2>1, BehindAll DEF Own
  <2>3. CASE pc[c] = "done"
    <3>1. /\ Has(Socket(c)) <=> ~tls /\ kind[c] # "list"
          /\ Has(Dir(c)) <=> kind[c] = "get"
          /\ ~Has(File(c))
      BY <2>1, <2>3 DEF Own, OwnThread, OwnThings, HasSocket, HasDir, HasFile
    <3> QED
      BY <2>2, <2>3, <3>1 DEF Leaked
  <2> QED
    BY <2>2, <2>3
<1> QED
  BY <1>1, InitOwn, OwnStep, Types, PTL DEF Spec

-----------------------------------------------------------------------------

(* The thread of a client that gets or puts a file fails only for want of  *)
(* a descriptor.                                                           *)
LEMMA ExitNeedsBadClient ==
  ASSUME TypeOK, Progress, Own, ~tls, NEW c \in Conns, Fails(c),
         request[c] \in {"get", "put"}
  PROVE  FreeFds = {}
<1>1. OwnThread(c) /\ request[c] # "silent"
  BY DEF Own
<1>2. CASE HeaderFails(c)
  <2>1. pc[c] = "header" /\ ConnOf(fd[c]) = c /\ c # Nobody
    BY <1>2, FdOwn DEF HeaderFails, At, Holds
  <2>2. unread[c] = "header"
    BY <1>1, <2>1 DEF OwnThread, OwnRequest
  <2> QED
    BY <1>2, <2>1, <2>2 DEF HeaderFails
<1>3. CASE NameFails(c)
  BY <1>3, DescriptorOwn DEF NameFails, At
<1>4. CASE OpenFails(c)
  BY <1>4 DEF OpenFails
<1>5. CASE ReplyFails(c)
  <2>1. pc[c] = "reply" /\ ConnOf(fd[c]) = c /\ c # Nobody
    BY <1>5, FdOwn DEF ReplyFails, At, Holds
  <2>2. client[c] = "asking"
    BY <1>1, <2>1 DEF OwnThread, OwnClient
  <2> QED
    BY <1>5, <2>1, <2>2 DEF ReplyFails
<1>6. CASE TransferFails(c)
  <2>1. pc[c] = "data" /\ ConnOf(fd[c]) = c /\ c # Nobody
    BY <1>6, FdOwn DEF TransferFails, At, Holds
  <2>2. client[c] = "data"
    BY <1>1, <2>1 DEF OwnThread, OwnClient
  <2>3. PICK e \in Conns \ {c} : pc[e] = "data" /\ fd[e] = fd[c]
    BY <1>6, <2>1, <2>2 DEF TransferFails
  <2>4. ConnOf(fd[e]) = e
    BY <2>3, FdOwn DEF Holds
  <2> QED
    BY <2>1, <2>3, <2>4
<1>7. CASE FinishFails(c)
  <2>1. kind[c] = request[c] /\ kind[c] \in {"list", "missing"}
    BY <1>1, <1>7 DEF OwnThread, OwnRequest, FinishFails, At, Working
  <2> QED
    BY <2>1
<1> QED
  BY <1>2, <1>3, <1>4, <1>5, <1>6, <1>7 DEF Fails

LEMMA SurvivesStep ==
  TypeOK /\ Progress /\ OwnInv /\ SurvivesGoodClients /\ [Next]_vars => SurvivesGoodClients'
<1> SUFFICES ASSUME TypeOK, Progress, OwnInv, SurvivesGoodClients, [Next]_vars,
                    exited', ~tls', ~lapped'
             PROVE  (FreeFds = {} \/ \E c \in 1..accepted : request[c] \notin {"get", "put"})'
  BY DEF SurvivesGoodClients
<1>1. CASE exited
  <2>1. UNCHANGED vars
    BY <1>1 DEF Next, Accept, AcceptFails, Begin, ReadHeader, HeaderFails, ReadName,
                NameFails, Call, Open, OpenFails, CloseDir, Reply, ReplyFails, OpenFile,
                Transfer, TransferFails, Finish, FinishFails, At
  <2> QED
    BY <1>1, <2>1 DEF SurvivesGoodClients, vars, loop, clients, FreeFds
<1>2. CASE ~exited
  <2>1. PICK c \in Conns : Fails(c)
    BY <1>2 DEF Next, Accept, AcceptFails, Begin, ReadHeader, ReadName, Call, Open,
                CloseDir, Reply, OpenFile, Transfer, Finish, vars, Fails
  <2>2. UNCHANGED <<tls, accepted, request, lapped, open>> /\ pc[c] # "none"
    BY <2>1, FailsExit DEF Exit, loop, clients
  <2>3. c \in 1..accepted
    BY <2>2 DEF Progress, Conns, TypeOK
  <2>4. FreeFds = {} \/ request[c] \notin {"get", "put"}
    BY <2>1, <2>2, ExitNeedsBadClient DEF OwnInv
  <2> QED
    BY <2>2, <2>3, <2>4 DEF FreeFds
<1> QED
  BY <1>1, <1>2

(* Clients that get and put files, however many there are, end the server  *)
(* of asg1 only by using up its descriptors, unless a thread was left      *)
(* behind.                                                                 *)
THEOREM GoodClientsSurvive == Spec => []SurvivesGoodClients
<1>1. Init => SurvivesGoodClients
  BY DEF Init, SurvivesGoodClients
<1> QED
  BY <1>1, SurvivesStep, InitOwn, OwnStep, Types, PTL DEF Spec
=============================================================================
